------------------------------- MODULE Brokers -------------------------------
(***************************************************************************)
(* LiveBroker over the adapter of a vendor, and the PaperBroker.           *)
(*                                                                         *)
(* The vendor's SDK calls the adapter on a thread of its own: a fill is    *)
(* handed to the event loop's queue if its order is one of                 *)
(* _pending_orders, from which the status of an ended order removes it.    *)
(* submit_order adds the order there only once place_order has returned    *)
(* to the event loop.  A task of the loop, the fill pump, gives the queued *)
(* fills to LiveBroker's callback.  TigerBroker also reconnects.           *)
(*                                                                         *)
(* What happens to make an adapter's life hard is kept in `venueTrouble`.  *)
(***************************************************************************)
EXTENDS Integers, Sequences, FiniteSets

CONSTANTS
  BOrders,       \* orders, each submitted once
  Lots,          \* order -> how many executions it takes
  MaxOpen,       \* RiskLimits.max_open_orders
  MaxTries,      \* attempts of _retry_on_rate_limit
  MaxAttempts,   \* max_reconnect_attempts
  MaxOutages     \* bound

ASSUME BrokersAssumption ==
  /\ Lots \in [BOrders -> Nat \ {0}] /\ MaxOpen \in Nat
  /\ MaxTries \in Nat /\ MaxAttempts \in Nat
  /\ MaxOutages \in Nat

VARIABLES
  vendor,      \* "tiger" or "futu"
  gate,        \* LiveBroker: connected, confirmed, count of open orders
  link,        \* the adapter: connected; its pumps, and whether one is its
               \* _fill_pump_task; whether pushes arrive; whether it was closed
  ord,         \* how far submit_order of each order is, and its attempts
  venue,       \* each order at the vendor: status word, executions
  wire,        \* pushes the SDK's thread has not handled yet
  registered,  \* _pending_orders
  fills,       \* _fill_queue
  given,       \* fills given to the callback
  dropped,     \* fills of orders that were not registered
  retries,     \* _reconnect: attempts it has left, or -1 without such a task
  venueTrouble,
  outages,
  paper        \* PaperBroker's orders

adapter == <<link, registered, fills, given, dropped, retries>>
Vendors == <<vendor, gate, adapter, ord, venue, wire, venueTrouble, outages>>
bvars == <<Vendors, paper>>

(***************************************************************************)
(* The vendors' words for the status of an order.                          *)
(***************************************************************************)
StatusMap ==
  [tiger |-> [PendingNew |-> "PENDING", PendingCancel |-> "PENDING",
              Initial |-> "SUBMITTED", Submitted |-> "SUBMITTED",
              PartiallyFilled |-> "PARTIAL_FILL", Filled |-> "FILLED",
              Cancelled |-> "CANCELLED", Inactive |-> "REJECTED", Invalid |-> "EXPIRED"],
   futu |-> [WAITING_SUBMIT |-> "PENDING", SUBMITTING |-> "PENDING",
             SUBMITTED |-> "SUBMITTED", FILLED_PART |-> "PARTIAL_FILL",
             FILLED_ALL |-> "FILLED", CANCELLED_ALL |-> "CANCELLED", FAILED |-> "REJECTED",
             DISABLED |-> "EXPIRED", DELETED |-> "EXPIRED"]]

\* _map_status; a word that is not in the map means PENDING.
Mapped(w) == IF w \in DOMAIN StatusMap[vendor] THEN StatusMap[vendor][w] ELSE "PENDING"

WordsFor(status) == {w \in DOMAIN StatusMap[vendor] : StatusMap[vendor][w] = status}

Terminal == {"FILLED", "CANCELLED", "REJECTED", "EXPIRED"}

\* Faulty: Tiger's word for an expired order is forgotten.
EndWordsShort ==
  IF vendor = "tiger" THEN {"Filled", "Cancelled", "Inactive"}
  ELSE {"FILLED_ALL", "CANCELLED_ALL", "FAILED", "DISABLED", "DELETED"}

\* The words after which the adapter forgets the order.
EndWords ==
  IF vendor = "tiger" THEN {"Filled", "Cancelled", "Inactive", "Invalid"}
  ELSE {"FILLED_ALL", "CANCELLED_ALL", "FAILED", "DISABLED", "DELETED"}

(***************************************************************************)
(* The vendor.                                                             *)
(***************************************************************************)
Open(o) == venue[o].status # "none" /\ Mapped(venue[o].status) \notin Terminal

\* Pushes are sent in the order given, or with the status first; while the
\* connection is down they are lost.
Pushed(fill, status, swapped) ==
  IF ~link.up THEN wire
  ELSE wire \o (IF swapped THEN <<status, fill>> ELSE <<fill, status>>)

Execute(o) ==
  LET n == venue[o].done + 1 IN
  /\ Open(o)
  /\ \E w \in WordsFor(IF n = Lots[o] THEN "FILLED" ELSE "PARTIAL_FILL"),
        swapped \in BOOLEAN :
       /\ venue' = [venue EXCEPT ![o] = [status |-> w, done |-> n]]
       /\ wire' = Pushed(<<"fill", o, n>>, <<"status", o, w>>, swapped)
       /\ venueTrouble' = venueTrouble \cup (IF swapped THEN {"reordered"} ELSE {})
                             \cup (IF ord[o].at # "done" THEN {"early"} ELSE {})
  /\ UNCHANGED <<vendor, gate, adapter, ord, outages, paper>>

\* The vendor ends an order.
EndAtVendor(o, status) ==
  \E w \in WordsFor(status) :
    /\ venue' = [venue EXCEPT ![o].status = w]
    /\ wire' = IF link.up THEN Append(wire, <<"status", o, w>>) ELSE wire
    /\ venueTrouble' = venueTrouble \cup (IF ord[o].at # "done" THEN {"early"} ELSE {})

Ends(o) ==
  /\ Open(o)
  /\ EndAtVendor(o, "REJECTED") \/ EndAtVendor(o, "EXPIRED")
  /\ UNCHANGED <<vendor, gate, adapter, ord, outages, paper>>

(***************************************************************************)
(* submit_order and cancel_order, through LiveBroker.                      *)
(***************************************************************************)
Uncounted(o) == ord[o].at \in {"placing", "accepted"}

\* Faulty: an order is still admitted at the limit.
AdmittedAtLimit == gate.count <= MaxOpen

Admitted == gate.count < MaxOpen

\* validate_order, and the adapter's own check.  Its other checks compare the
\* order, or the day's loss, with a constant; they refuse at any time.
Submit(o) ==
  /\ ord[o].at = "new"
  /\ \/ /\ gate.connected /\ gate.confirmed /\ Admitted /\ link.connected
        /\ ord' = [ord EXCEPT ![o].at = "placing"]
        /\ venueTrouble' = venueTrouble \cup
             (IF \E p \in BOrders : Uncounted(p) THEN {"overlap"} ELSE {})
     \/ ord' = [ord EXCEPT ![o].at = "failed"] /\ UNCHANGED venueTrouble
  /\ UNCHANGED <<vendor, gate, adapter, venue, wire, outages, paper>>

FirstWord == CHOOSE w \in WordsFor("SUBMITTED") : TRUE

\* place_order on its thread: the vendor takes the order.
Take(o) ==
  /\ ord[o].at = "placing"
  /\ venue' = [venue EXCEPT ![o].status = FirstWord]
  /\ ord' = [ord EXCEPT ![o].at = "accepted"]
  /\ UNCHANGED <<vendor, gate, adapter, wire, venueTrouble, outages, paper>>

\* It fails.  An error that speaks of a rate or a limit is tried again by
\* TigerBroker; any other becomes an OrderSubmissionError.
PlaceFails(o) ==
  /\ ord[o].at = "placing"
  /\ \/ /\ vendor = "tiger" /\ ord[o].tries + 1 < MaxTries
        /\ ord' = [ord EXCEPT ![o].tries = @ + 1]
     \/ ord' = [ord EXCEPT ![o].at = "failed"]
  /\ UNCHANGED <<vendor, gate, adapter, venue, wire, venueTrouble, outages, paper>>

\* place_order raises although the vendor has the order.
TakeAndFail(o) ==
  /\ ord[o].at = "placing"
  /\ venue' = [venue EXCEPT ![o].status = FirstWord]
  /\ ord' = [ord EXCEPT ![o].at = "failed"]
  /\ UNCHANGED <<vendor, gate, adapter, wire, venueTrouble, outages, paper>>

\* place_order has returned: the order is registered and LiveBroker counts it.
RegisterOrder(o) ==
  /\ ord[o].at = "accepted"
  /\ ord' = [ord EXCEPT ![o].at = "done"]
  /\ registered' = registered \cup {o}
  /\ gate' = [gate EXCEPT !.count = @ + 1]
  /\ UNCHANGED <<vendor, link, fills, given, dropped, retries, venue, wire, venueTrouble,
                 outages, paper>>

\* Faulty: the count may go below zero.
OneLessAlways == [gate EXCEPT !.count = @ - 1]

OneLess == [gate EXCEPT !.count = IF @ > 0 THEN @ - 1 ELSE 0]

\* The vendor cancels the order, and LiveBroker stops counting it.
CancelOrder(o) ==
  /\ ord[o].at = "done" /\ Open(o)
  /\ EndAtVendor(o, "CANCELLED")
  /\ gate' = OneLess
  /\ UNCHANGED <<vendor, adapter, ord, outages, paper>>

(***************************************************************************)
(* The SDK's thread and the fill pump.                                     *)
(***************************************************************************)
\* Faulty: an order is forgotten at its first status.
ForgetsAny(o, word) == registered \ {o}

\* _on_order_changed, _on_order_update
Forgets(o, word) == IF word \in EndWords THEN registered \ {o} ELSE registered

HandlePush ==
  /\ wire # <<>>
  /\ wire' = Tail(wire)
  /\ LET push == Head(wire) IN
     \/ /\ push[1] = "fill"
        /\ \/ /\ push[2] \in registered
              /\ fills' = Append(fills, <<push[2], push[3]>>) /\ UNCHANGED dropped
           \/ /\ push[2] \notin registered
              /\ dropped' = dropped \cup {<<push[2], push[3]>>} /\ UNCHANGED fills
        /\ UNCHANGED registered
     \/ /\ push[1] = "status"
        /\ registered' = Forgets(push[2], push[3])
        /\ UNCHANGED <<fills, dropped>>
  /\ UNCHANGED <<vendor, gate, link, ord, venue, given, retries, venueTrouble,
                 outages, paper>>

\* Faulty: the pump gives one fill and ends.
PumpsLeftOne == link.pumps - 1

PumpsLeft == link.pumps

PumpFill ==
  /\ link.pumps > 0 /\ fills # <<>>
  /\ fills' = Tail(fills) /\ given' = given \cup {Head(fills)}
  /\ gate' = OneLess
  /\ link' = [link EXCEPT !.pumps = PumpsLeft]
  /\ UNCHANGED <<vendor, ord, venue, wire, registered, dropped, retries, venueTrouble,
                 outages, paper>>

(***************************************************************************)
(* Connecting.                                                             *)
(***************************************************************************)
\* connect succeeds: a new pump takes the place of _fill_pump_task.
Connected ==
  [link EXCEPT !.connected = TRUE, !.pumps = link.pumps + 1, !.own = TRUE, !.up = TRUE]

\* LiveBroker.connect; it may also raise, and change nothing but what
\* connect_callback of a Tiger client has done already.
Connect ==
  /\ ~gate.connected /\ ~link.closed /\ ~link.own
  /\ \/ link' = Connected /\ gate' = [gate EXCEPT !.connected = TRUE]
     \/ /\ vendor = "tiger" /\ link' = [link EXCEPT !.connected = TRUE]
        /\ UNCHANGED gate
  /\ UNCHANGED <<vendor, registered, fills, given, dropped, retries, ord, venue, wire,
                 venueTrouble, outages, paper>>

\* Faulty: the pump is left running.
CancelledPumpsNone == link.pumps

\* disconnect cancels the pump it knows.
CancelledPumps == IF link.own THEN link.pumps - 1 ELSE link.pumps

\* disconnect; a Tiger client may report its own disconnection.
Disconnect ==
  /\ gate.connected
  /\ gate' = [gate EXCEPT !.connected = FALSE]
  /\ link' = [link EXCEPT !.connected = FALSE, !.pumps = CancelledPumps, !.own = FALSE,
                          !.up = FALSE, !.closed = TRUE]
  /\ \/ UNCHANGED <<retries, venueTrouble>>
     \/ /\ vendor = "tiger" /\ retries = -1
        /\ retries' = MaxAttempts /\ venueTrouble' = venueTrouble \cup {"echo"}
  /\ UNCHANGED <<vendor, registered, fills, given, dropped, ord, venue, wire,
                 outages, paper>>

\* The connection breaks.  TigerBroker schedules _reconnect; a Futu client
\* restores the connection by itself.
Outage ==
  /\ link.up /\ outages < MaxOutages /\ outages' = outages + 1
  /\ venueTrouble' = venueTrouble \cup {"outage"}
  /\ \/ /\ vendor = "tiger"
        /\ link' = [link EXCEPT !.up = FALSE, !.connected = FALSE]
        /\ retries' = MaxAttempts
     \/ vendor = "futu" /\ link' = [link EXCEPT !.up = FALSE] /\ UNCHANGED retries
  /\ UNCHANGED <<vendor, gate, registered, fills, given, dropped, ord, venue, wire,
                 paper>>

FutuRestores ==
  /\ vendor = "futu" /\ ~link.up /\ link.own
  /\ link' = [link EXCEPT !.up = TRUE]
  /\ UNCHANGED <<vendor, gate, registered, fills, given, dropped, retries, ord, venue,
                 wire, venueTrouble, outages, paper>>

Reconnecting == retries \in 1..MaxAttempts

\* Faulty: the task ends at the first failure.
AttemptsLeftNone == -1

AttemptsLeft == retries - 1

\* One attempt of _reconnect: connect succeeds, or raises, perhaps after the
\* client's connect_callback.
Reconnect ==
  /\ Reconnecting
  /\ \/ link' = Connected /\ retries' = -1
     \/ /\ \/ UNCHANGED link
           \/ link' = [link EXCEPT !.connected = TRUE]
        /\ retries' = AttemptsLeft
  /\ UNCHANGED <<vendor, gate, registered, fills, given, dropped, ord, venue, wire,
                 venueTrouble, outages, paper>>

\* confirm_live_trading raises unless connected; disconnect does not revoke.
Confirm ==
  /\ gate.connected /\ ~gate.confirmed
  /\ gate' = [gate EXCEPT !.confirmed = TRUE]
  /\ UNCHANGED <<vendor, adapter, ord, venue, wire, venueTrouble, outages, paper>>

Revoke ==
  /\ gate.confirmed
  /\ gate' = [gate EXCEPT !.confirmed = FALSE]
  /\ UNCHANGED <<vendor, adapter, ord, venue, wire, venueTrouble, outages, paper>>

(***************************************************************************)
(* PaperBroker: submit_order starts a task that fills the order.           *)
(***************************************************************************)
PaperSubmit(o) ==
  /\ paper[o].task = "none"
  /\ paper' = [paper EXCEPT ![o] = [@ EXCEPT !.task = "sleeping", !.status = "SUBMITTED"]]

\* Faulty: a filled order can be cancelled.
CancellableAny(o) == paper[o].task # "none"

\* cancel_order raises for an unknown and for a filled order.
Cancellable(o) == paper[o].task # "none" /\ paper[o].status # "FILLED"

PaperCancel(o) ==
  /\ Cancellable(o)
  /\ paper' = [paper EXCEPT ![o] =
       [@ EXCEPT !.status = "CANCELLED", !.cancelled = TRUE,
                 !.until = IF paper[o].cancelled THEN paper[o].until ELSE paper[o].filled]]

\* Faulty: cancellation is looked at before the first fill only.
StopsFirst(o) == paper[o].cancelled /\ paper[o].filled = 0

Stops(o) == paper[o].cancelled

\* Faulty: a partial fill is the last.
NextSleepNever(o, n) == "ended"

NextSleep(o, n) == IF n < Lots[o] THEN "sleeping" ELSE "ended"

\* _simulate_fill after a sleep: nothing, or one fill, and the callback.
PaperWakes(o) ==
  /\ paper[o].task = "sleeping"
  /\ \/ Stops(o) /\ paper' = [paper EXCEPT ![o].task = "ended"]
     \/ /\ ~Stops(o)
        /\ \E n \in (paper[o].filled + 1)..Lots[o] :
             paper' = [paper EXCEPT ![o] =
               [@ EXCEPT !.filled = n, !.task = NextSleep(o, n),
                         !.status = IF n < Lots[o] THEN "PARTIAL_FILL" ELSE "FILLED"]]

PaperNext == \E o \in BOrders : PaperSubmit(o) \/ PaperCancel(o) \/ PaperWakes(o)

(***************************************************************************)
(* The specification.                                                      *)
(***************************************************************************)
BInit ==
  /\ vendor \in {"tiger", "futu"}
  /\ gate = [connected |-> FALSE, confirmed |-> FALSE, count |-> 0]
  /\ link = [connected |-> FALSE, pumps |-> 0, own |-> FALSE, up |-> FALSE, closed |-> FALSE]
  /\ ord = [o \in BOrders |-> [at |-> "new", tries |-> 0]]
  /\ venue = [o \in BOrders |-> [status |-> "none", done |-> 0]]
  /\ wire = <<>> /\ registered = {} /\ fills = <<>> /\ given = {} /\ dropped = {}
  /\ retries = -1 /\ venueTrouble = {} /\ outages = 0
  /\ paper = [o \in BOrders |-> [task |-> "none", status |-> "none", filled |-> 0,
                                 cancelled |-> FALSE, until |-> 0]]

BrokersNext ==
  \/ Connect \/ Disconnect \/ Outage \/ FutuRestores \/ Reconnect \/ Confirm \/ Revoke
  \/ HandlePush \/ PumpFill
  \/ \E o \in BOrders : \/ Submit(o) \/ Take(o) \/ PlaceFails(o) \/ TakeAndFail(o)
                        \/ RegisterOrder(o) \/ CancelOrder(o) \/ Execute(o) \/ Ends(o)

\* A vendor's adapter and the PaperBroker share nothing.
BrokersSpec == BInit /\ [][BrokersNext \/ (PaperNext /\ UNCHANGED Vendors)]_bvars

-----------------------------------------------------------------------------
(* Properties.                                                             *)

\* Every variable of the module has its type.
BrokersTypeOK ==
  /\ gate \in [connected : BOOLEAN, confirmed : BOOLEAN, count : Nat]
  /\ link.pumps \in Nat /\ registered \subseteq BOrders
  /\ \A o \in BOrders : venue[o].done \in 0..Lots[o] /\ paper[o].filled \in 0..Lots[o]

\* No fill of an order the adapter submitted is taken for a stranger's, unless
\* the vendor executes it before place_order has returned to the event loop, or
\* pushes the end of an order before its last fill (tiger_broker.py:198-200,
\* 272-274, 305-306; futu_broker.py:195-199, 301-303, 331-332).
NoFillDropped == dropped # {} => venueTrouble \cap {"early", "reordered"} # {}

\* The two tables of the adapter agree: an order that get_order_status reports as
\* open is registered, and one it reports as ended is not, once its last push was
\* handled (tiger_broker.py:60-70, 305; futu_broker.py:69-79, 331).
RegisteredWhileOpen ==
  \A o \in BOrders :
    ord[o].at = "done" =>
      /\ Open(o) => o \in registered
      /\ ~Open(o) /\ wire = <<>> /\ venueTrouble \cap {"early", "outage"} = {} /\ ~link.closed
           => o \notin registered

\* An adapter that was closed stays closed, and none of its pumps goes on; while
\* it is open it has one pump.  An outage, or a client that reports its own
\* disconnection, ends that: _reconnect connects again after disconnect, and its
\* connect leaves the earlier pump running (tiger_broker.py:150-168, 312-332).
ClosedStaysClosed ==
  venueTrouble \cap {"outage", "echo"} = {} =>
    /\ link.pumps <= 1
    /\ link.closed => ~link.connected /\ link.pumps = 0

\* LiveBroker's count stays within max_open_orders as long as submissions follow
\* one another: it is compared before an await and raised after it
\* (live_broker.py:265, 342-343).
CountWithinLimit == "overlap" \notin venueTrouble => gate.count <= MaxOpen

\* A queued fill reaches the callback, unless the adapter is closed
\* (tiger_broker.py:260-267, futu_broker.py:287-294).
QueuedIsGiven ==
  \A o \in BOrders : \A n \in 1..Lots[o] :
    (\E i \in DOMAIN fills : fills[i] = <<o, n>>)
      ~> (link.closed \/ <<o, n>> \in given)

\* After a lost connection TigerBroker connects again, or has tried as often as
\* it may (tiger_broker.py:322-335).
ConnectsAgain == Reconnecting ~> (link.connected \/ retries = 0)

\* Once cancel_order has answered True, the paper order receives no further fill
\* (paper_broker.py:74-76, 91-99).
PaperCancelHolds == \A o \in BOrders : paper[o].cancelled => paper[o].filled = paper[o].until

\* The paper status tells what was filled, and the cancellation of a filled order
\* never covers it up (paper_broker.py:71-75, 136-139).
PaperStatusTells ==
  \A o \in BOrders :
    /\ paper[o].status = "FILLED" <=> paper[o].filled = Lots[o]
    /\ paper[o].status = "PARTIAL_FILL" => paper[o].filled \in 1..(Lots[o] - 1)
    /\ paper[o].cancelled => paper[o].status = "CANCELLED"

\* A paper order that nobody cancels is filled in full (paper_broker.py:96-147).
PaperFills ==
  \A o \in BOrders : paper[o].status = "SUBMITTED" ~> paper[o].status \in {"FILLED", "CANCELLED"}

\* An adapter drops no fill it may not drop, counts what is open, and keeps its
\* word over lost connections, pushes that overtake each other and cancellations
\* that race a fill: each part is a promise of a broker stated above.
BrokersSound ==
  /\ BrokersTypeOK /\ NoFillDropped /\ RegisteredWhileOpen /\ ClosedStaysClosed
  /\ CountWithinLimit /\ PaperCancelHolds /\ PaperStatusTells
=============================================================================
