----------------------------- MODULE BleSession -----------------------------
(***************************************************************************)
(* One Bluetooth session with an air conditioner: MideaBluetoothSession     *)
(* (bluetooth_transport.py) and the part of the setup that runs inside it   *)
(* (bluetooth_provision.py): handshake, identity, Wi-Fi credentials, and    *)
(* then the network status, which for SmartHome a second task reads while   *)
(* the first looks the appliance up in the cloud.                          *)
(*                                                                         *)
(* Notifications come in arbitrary chunks.  A frame is two units, a head    *)
(* and a tail, and a chunk is some of the units in the air.                *)
(***************************************************************************)
EXTENDS Integers, Sequences, SequencesExt

CONSTANTS
    QueueSize,  \* capacity of each reply queue (128 in the code)
    MaxChunk,   \* most units in one notification
    MaxSeq,     \* largest sequence number (255)
    Error,      \* an exception in a queue
    Budget      \* bound on faults and on progress reports

ASSUME SizeAssumption   == {QueueSize, MaxChunk, MaxSeq} \subseteq Nat \ {0}
ASSUME BudgetAssumption == Budget \in [{"fault", "chatter"} -> Nat]

(* The requests of a session, in order, and the command each one uses; the  *)
(* reply to a request has its command.                                     *)
Request == {"key", "proof", "info", "wifi"}
Command == [key |-> 1, proof |-> 1, info |-> 99, wifi |-> 105, status |-> 13]

Frame ==
    [of : Request, says : {"yes", "no", "junk"}]
      \cup [of : {"status"}, says : {"joining", "joined", "wrong", "other", "junk"}]

ASSUME ErrorAssumption == Error \notin Frame

Lane   == {"main", "status"}
LaneOf == [f \in Frame |-> IF Command[f.of] = 13 THEN "status" ELSE "main"]

(* A garbled tail is one that no head goes with. *)
Unit == [part : {"head"}, frame : Frame] \cup [part : {"tail"}, frame : Frame \cup {Error}]

VARIABLES
    pc,         \* where the caller of the session is
    result,     \* how the session ended
    lookup,     \* the task that looks the appliance up in the cloud
    network,    \* _wait_for_network, as a task or inside the caller
    marked,     \* ProvisioningState.write_started
    sequence,   \* _sequence
    queue,      \* _queue and _status_queue
    buffer,     \* FrameBuffer
    link,       \* is the connection up?
    air,        \* units the appliance sent that have not been received
    owed,       \* the request the appliance has not answered, or "none"
    wifi,       \* what it does with the credentials it has, or "idle"
    overflow,   \* history: some queue had no room
    spent

callVars == <<pc, result, lookup, network, marked, sequence>>
recvVars == <<queue, buffer, overflow>>
acVars   == <<owed, wifi>>
vars == <<callVars, recvVars, link, air, acVars, spent>>

Spend(kind) ==
    /\ spent[kind] < Budget[kind]
    /\ spent' = [spent EXCEPT ![kind] = @ + 1]

-----------------------------------------------------------------------------
(* Receiving *)

Fits(head, tail) == head.part = "head" /\ tail.part = "tail" /\ head.frame = tail.frame

(* FrameBuffer.feed: every whole frame at once, or an error when something  *)
(* is not where a head or the rest of a good frame must be.                *)
Readable(units) ==
    \A i \in DOMAIN units :
        IF i % 2 = 1 THEN units[i].part = "head" ELSE Fits(units[i - 1], units[i])

Remains(units) == IF Len(units) % 2 = 1 THEN <<Last(units)>> ELSE <<>>

(* The frames of a lane that are whole in the units, in their order.        *)
Of(l, units) ==
    LET upTo[n \in 0..Len(units)] ==
            IF n < 2 THEN <<>>
            ELSE IF Fits(units[n - 1], units[n]) /\ LaneOf[units[n].frame] = l
                 THEN Append(upTo[n - 1], units[n].frame)
                 ELSE upTo[n - 1]
    IN  upTo[Len(units)]

Sorted(units) == [l \in Lane |-> queue[l] \o Of(l, units)]

\* Slip: the queues have no bound.
Boundless(queues) == FALSE

Overfull(queues) == \E l \in Lane : Len(queues[l]) > QueueSize

\* Slip: an error is queued behind what is there already.
AlarmBehind == [l \in Lane |-> IF Len(queue[l]) < QueueSize
                               THEN Append(queue[l], Error) ELSE queue[l]]

(* An error takes the place of everything in both queues. *)
Alarm == [l \in Lane |-> <<Error>>]

(* The notification callback, _receive. *)
Receive(n) ==
    LET units == buffer \o SubSeq(air, 1, n)
        full  == Readable(units) /\ Overfull(Sorted(units))
    IN
    /\ link = "up" /\ pc # "closed"
    /\ n <= Len(air)
    /\ air' = SubSeq(air, n + 1, Len(air))
    /\ overflow' = (overflow \/ full)
    /\ IF Readable(units) /\ ~full
       THEN queue' = Sorted(units) /\ buffer' = Remains(units)
       ELSE queue' = Alarm /\ buffer' = <<>>
    /\ UNCHANGED <<callVars, link, acVars, spent>>

(* _disconnected: each queue gets an error if it has room. *)
HangupAll == [l \in Lane |-> IF Len(queue[l]) < QueueSize
                             THEN Append(queue[l], Error) ELSE queue[l]]

(* The connection is lost, or an attempt of establish_connection is, which  *)
(* it repeats.  The firmware may also disconnect when it joins the Wi-Fi.   *)
Disconnected ==
    /\ pc \notin {"start", "closing", "closed"}
    /\ pc # "connect" => link = "up"
    /\ Spend("fault")
    /\ link' = "down"
    /\ air' = <<>>
    /\ queue' = HangupAll
    /\ overflow' = (overflow \/ \E l \in Lane : Len(queue[l]) = QueueSize)
    /\ UNCHANGED <<callVars, buffer, acVars>>

-----------------------------------------------------------------------------
(* The caller *)

\* Slip: the sequence number wraps to zero, which no frame may have.
NextToZero(s) == (s + 1) % (MaxSeq + 1)

NextSequence(s) ==
    LET next == (s + 1) % (MaxSeq + 1)
    IN  IF next = 0 THEN 1 ELSE next

(* encode_frame refuses a sequence number out of range. *)
Encodes(s) == s \in 1..MaxSeq

(* Any error leaves `async with`, which disconnects. *)
Leave(how) ==
    /\ pc' = "closing"
    /\ result' = how
    /\ UNCHANGED <<marked, sequence, lookup, network>>

(* _send and the wait for its reply.  The write fails when the link is     *)
(* down; a request on the air is the appliance's to answer.                *)
SendRequest(p, last) ==
    IF link = "up" /\ Encodes(NextSequence(last))
    THEN /\ sequence' = NextSequence(last)
         /\ pc' = p
         /\ owed' = p
         /\ UNCHANGED <<result, wifi>>
    ELSE /\ pc' = "closing"
         /\ result' = "failed"
         /\ UNCHANGED <<sequence, acVars>>

(* __aenter__: a scan if the address was not seen, then the connection. *)
Connect ==
    /\ pc = "start"
    /\ \/ pc' = "connect" /\ UNCHANGED <<result, spent>>
       \/ pc' = "closed" /\ result' = "failed" /\ Spend("fault")
    /\ UNCHANGED <<lookup, network, marked, sequence, recvVars, link, air, acVars>>

Connected ==
    /\ pc = "connect"
    /\ link' = "up"
    /\ pc' = "key"
    /\ owed' = "key"
    /\ sequence' = NextSequence(sequence)
    /\ UNCHANGED <<result, lookup, network, marked, recvVars, air, wifi, spent>>

Got(l) == IF queue[l] # <<>> THEN Head(queue[l]) ELSE Error

Take(l) ==
    /\ queue[l] # <<>>
    /\ queue' = [queue EXCEPT ![l] = Tail(@)]
    /\ UNCHANGED <<buffer, overflow, link, air, spent>>

Says(l) == IF Got(l) = Error THEN "error" ELSE Got(l).says

(* _reply passes over the replies to other commands, and over those to the  *)
(* identity request that do not begin like an identity.                    *)
Concerns(f, p) ==
    /\ f \in Frame /\ Command[f.of] = Command[p]
    /\ ~(p = "info" /\ f.says = "no")

ReplySkipped ==
    /\ pc \in Request
    /\ Says("main") # "error" /\ ~Concerns(Got("main"), pc)
    /\ Take("main")
    /\ UNCHANGED <<callVars, acVars>>

\* Slip: the first bytes of the reply are not looked at.
GoodUnread(f, p) == Concerns(f, p) /\ f.says = "yes"

(* The reply is what this request asks for: the two of the handshake have   *)
(* the same command and differ in their first bytes.                       *)
Good(f, p) ==
    /\ Concerns(f, p)
    /\ f.says = "yes"
    /\ p \in {"key", "proof"} => f.of = p

(* The next request goes out, with the number after the one in the reply.   *)
HandshakeReply ==
    /\ pc \in {"key", "proof"}
    /\ Good(Got("main"), pc)
    /\ Take("main")
    /\ \E last \in 0..MaxSeq : SendRequest(IF pc = "key" THEN "proof" ELSE "info", last)
    /\ UNCHANGED <<lookup, network, marked>>

(* The probe asks no more. *)
Identified ==
    /\ pc = "info"
    /\ Good(Got("main"), "info")
    /\ Take("main")
    /\ Leave("probed")
    /\ UNCHANGED acVars

(* configure_wifi marks the write before its first byte. *)
ConfigureWifi ==
    /\ pc = "info"
    /\ Good(Got("main"), "info")
    /\ Take("main")
    /\ marked' = TRUE
    /\ \E last \in 0..MaxSeq : SendRequest("wifi", last)
    /\ UNCHANGED <<lookup, network>>

(* An acknowledged write: NetHome waits for the network at once; SmartHome  *)
(* asks the cloud in one task and the appliance in another.                *)
WifiAcked ==
    /\ pc = "wifi"
    /\ Good(Got("main"), "wifi")
    /\ Take("main")
    /\ \/ pc' = "network" /\ UNCHANGED lookup
       \/ pc' = "first" /\ lookup' = "running"
    /\ network' = "running"
    /\ sequence' \in 0..MaxSeq
    /\ UNCHANGED <<result, marked, acVars>>

\* Slip: any error of the acknowledgement clears the mark.
FailUnmarked ==
    /\ pc \in Request
    /\ Says("main") = "error" \/ Concerns(Got("main"), pc)
    /\ ~Good(Got("main"), pc)
    /\ Take("main")
    /\ marked' = FALSE
    /\ pc' = "closing"
    /\ result' = "failed"
    /\ UNCHANGED <<lookup, network, sequence, acVars>>

(* An error in the queue, an undecipherable reply or a refusal.  Only an    *)
(* explicit rejection of the credentials clears the mark.                  *)
ReplyFails ==
    /\ pc \in Request
    /\ Says("main") = "error" \/ Concerns(Got("main"), pc)
    /\ ~Good(Got("main"), pc)
    /\ Take("main")
    /\ marked' = (marked /\ ~(pc = "wifi" /\ Got("main") = [of |-> "wifi", says |-> "no"]))
    /\ pc' = "closing"
    /\ result' = "failed"
    /\ UNCHANGED <<lookup, network, sequence, acVars>>

(* Nothing is under way that a reader of the lane would get. *)
Silent(l) ==
    /\ queue[l] = <<>>
    /\ air = <<>>
    /\ owed = "none" \/ link = "down"
    /\ l = "status" => link = "down" \/ wifi # "trying"

(* _reply waits 12 seconds. *)
ReplyTimeout ==
    /\ pc \in Request
    /\ (Silent("main") /\ UNCHANGED spent) \/ Spend("fault")
    /\ Leave("failed")
    /\ UNCHANGED <<recvVars, link, air, acVars>>

-----------------------------------------------------------------------------
(* wait_for_network, in _wait_for_network *)

NetworkEnds(how) ==
    /\ network' = how
    /\ UNCHANGED <<pc, result, lookup, sequence, acVars>>

(* A report that is not the last one. *)
NetworkProgress ==
    /\ network = "running"
    /\ Says("status") = "joining"
    /\ Take("status")
    /\ UNCHANGED <<callVars, acVars>>

(* It joined, or what it says is unavailable: the cloud and the LAN decide. *)
NetworkDone ==
    /\ network = "running"
    /\ Says("status") \in {"error", "joined", "other", "junk"}
    /\ Take("status")
    /\ NetworkEnds("done")
    /\ UNCHANGED marked

(* Wrong password, or no such network. *)
NetworkRefused ==
    /\ network = "running"
    /\ Says("status") = "wrong"
    /\ Take("status")
    /\ marked' = FALSE
    /\ NetworkEnds("refused")

(* Each reply has 12 seconds, all of them 75. *)
NetworkTimeout ==
    /\ network = "running"
    /\ (Silent("status") /\ UNCHANGED spent) \/ Spend("fault")
    /\ NetworkEnds("done")
    /\ UNCHANGED <<marked, recvVars, link, air>>

NetworkWaited ==
    /\ pc = "network"
    /\ network # "running"
    /\ Leave(IF network = "refused" THEN "failed" ELSE "waited")
    /\ UNCHANGED <<recvVars, link, air, acVars, spent>>

-----------------------------------------------------------------------------
(* _wait_for_smarthome_device *)

LookupEnds ==
    /\ lookup = "running"
    /\ \/ lookup' = "found" /\ wifi = "joined" /\ UNCHANGED spent
       \/ lookup' = "failed" /\ wifi = "failed" /\ UNCHANGED spent
       \/ lookup' = "failed" /\ Spend("fault")
    /\ UNCHANGED <<pc, result, network, marked, sequence, recvVars, link, air, acVars>>

Stop(task) == IF task = "running" THEN "cancelling" ELSE task

Joining ==
    /\ pc' = "join"
    /\ lookup' = Stop(lookup)
    /\ network' = Stop(network)

(* One of the two has ended.  A refusal of the network is raised at once;   *)
(* otherwise the lookup decides.                                           *)
FirstDone ==
    /\ pc = "first"
    /\ lookup # "running" \/ network # "running"
    /\ IF network = "refused" \/ lookup # "running"
       THEN Joining /\ result' = IF network = "refused" THEN "failed" ELSE result
       ELSE pc' = "lookup" /\ UNCHANGED <<lookup, network, result>>
    /\ UNCHANGED <<marked, sequence, recvVars, link, air, acVars, spent>>

LookupDone ==
    /\ pc = "lookup"
    /\ lookup # "running"
    /\ Joining
    /\ UNCHANGED <<result, marked, sequence, recvVars, link, air, acVars, spent>>

(* The setup's own time limit, or the user closing the flow. *)
Cancelled ==
    /\ pc \in {"first", "lookup"}
    /\ Spend("fault")
    /\ Joining
    /\ result' = "failed"
    /\ UNCHANGED <<marked, sequence, recvVars, link, air, acVars>>

TaskCancelled ==
    /\ \/ lookup = "cancelling" /\ lookup' = "cancelled" /\ UNCHANGED network
       \/ network = "cancelling" /\ network' = "cancelled" /\ UNCHANGED lookup
    /\ UNCHANGED <<pc, result, marked, sequence, recvVars, link, air, acVars, spent>>

\* Slip: the bind does not wait for the tasks that were cancelled.
BindUnjoined ==
    /\ pc = "join"
    /\ IF result = "none" /\ lookup = "found"
       THEN pc' = "bind" /\ UNCHANGED result
       ELSE pc' = "closing" /\ result' = "failed"
    /\ UNCHANGED <<lookup, network, marked, sequence, recvVars, link, air, acVars, spent>>

(* Both are over; the bind is sent if the lookup found the appliance. *)
Joined ==
    /\ pc = "join"
    /\ "cancelling" \notin {lookup, network}
    /\ IF result = "none" /\ lookup = "found"
       THEN pc' = "bind" /\ UNCHANGED result
       ELSE pc' = "closing" /\ result' = "failed"
    /\ UNCHANGED <<lookup, network, marked, sequence, recvVars, link, air, acVars, spent>>

(* What binding does is modelled in Provisioning. *)
Bound ==
    /\ pc = "bind"
    /\ Leave("bound")
    /\ UNCHANGED <<recvVars, link, air, acVars, spent>>

(* __aexit__ *)
Close ==
    /\ pc = "closing"
    /\ pc' = "closed"
    /\ queue' = [l \in Lane |-> <<>>]
    /\ buffer' = <<>>
    /\ link' = "down"
    /\ air' = <<>>
    /\ UNCHANGED <<result, lookup, network, marked, sequence, overflow, acVars, spent>>

-----------------------------------------------------------------------------
(* The appliance *)

Whole(f) == <<[part |-> "head", frame |-> f], [part |-> "tail", frame |-> f]>>

(* A fault of the air: a bad tail, or one half of the frame is missing. *)
Mangled(f) ==
    {air \o <<Head(Whole(f)), [part |-> "tail", frame |-> Error]>>,
     Append(air, Head(Whole(f))),
     Append(air, Last(Whole(f)))}

(* A frame goes out, if there is a link to carry it. *)
Emit(f) ==
    \/ link = "up" /\ air' = air \o Whole(f) /\ UNCHANGED spent
    \/ link = "up" /\ air' \in Mangled(f) /\ Spend("fault")
    \/ link = "down" /\ UNCHANGED <<air, spent>>

(* It tries the credentials, perhaps before it acknowledges them. *)
Try ==
    /\ owed = "wifi" /\ wifi = "idle"
    /\ wifi' = "trying"
    /\ UNCHANGED <<callVars, recvVars, link, air, owed, spent>>

(* It answers what it was asked. *)
Answer ==
    /\ link = "up" /\ owed # "none"
    /\ Emit([of |-> owed, says |-> "yes"])
    /\ owed' = "none"
    /\ wifi' = IF owed = "wifi" /\ wifi = "idle" THEN "trying" ELSE wifi
    /\ UNCHANGED <<callVars, recvVars, link>>

(* It refuses, or answers what cannot be deciphered; what it refuses it     *)
(* does not try.                                                           *)
AnswerBadly(s) ==
    /\ link = "up" /\ owed # "none"
    /\ s = "no" => wifi = "idle"
    /\ Spend("fault")
    /\ air' = air \o Whole([of |-> owed, says |-> s])
    /\ owed' = "none"
    /\ wifi' = IF owed = "wifi" /\ wifi = "idle" /\ s # "no" THEN "trying" ELSE wifi
    /\ UNCHANGED <<callVars, recvVars, link>>

Earlier == [key |-> {}, proof |-> {"key"}, info |-> {"key", "proof"},
            wifi |-> {"key", "proof", "info"}]

(* The answer to an earlier request comes once more. *)
Repeat ==
    /\ link = "up" /\ pc \in Request
    /\ Spend("fault")
    /\ \E r \in Earlier[pc] : air' = air \o Whole([of |-> r, says |-> "yes"])
    /\ UNCHANGED <<callVars, recvVars, link, acVars>>

(* Its reports of the network. *)
Progress ==
    /\ wifi = "trying" /\ link = "up"
    /\ spent["chatter"] < Budget["chatter"]
    /\ spent' = [spent EXCEPT !["chatter"] = @ + 1]
    /\ air' = air \o Whole([of |-> "status", says |-> "joining"])
    /\ UNCHANGED <<callVars, recvVars, link, acVars>>

JoinWifi ==
    /\ wifi = "trying"
    /\ wifi' = "joined"
    /\ Emit([of |-> "status", says |-> "joined"])
    /\ UNCHANGED <<callVars, recvVars, link, owed>>

CannotJoin(s) ==
    /\ wifi = "trying"
    /\ wifi' = "failed"
    /\ Spend("fault")
    /\ air' = IF link = "up" THEN air \o Whole([of |-> "status", says |-> s]) ELSE air
    /\ UNCHANGED <<callVars, recvVars, link, owed>>

-----------------------------------------------------------------------------
Init ==
    /\ pc = "start"
    /\ result = "none"
    /\ lookup = "none"
    /\ network = "none"
    /\ marked = FALSE
    /\ sequence = 0
    /\ queue = [l \in Lane |-> <<>>]
    /\ buffer = <<>>
    /\ link = "down"
    /\ air = <<>>
    /\ owed = "none"
    /\ wifi = "idle"
    /\ overflow = FALSE
    /\ spent = [k \in {"fault", "chatter"} |-> 0]

Open  == Connect \/ Connected
Reply ==
    \/ ReplySkipped
    \/ HandshakeReply
    \/ Identified
    \/ ConfigureWifi
    \/ WifiAcked
    \/ ReplyFails
    \/ ReplyTimeout

Network == NetworkProgress \/ NetworkDone \/ NetworkRefused \/ NetworkTimeout
Link    == NetworkWaited \/ FirstDone \/ LookupDone \/ Cancelled \/ Joined \/ Bound

Joins == JoinWifi \/ \E s \in {"wrong", "other", "junk"} : CannotJoin(s)

(* A session that ended stays as it is. *)
Ended == pc = "closed" /\ UNCHANGED vars

Next ==
    \/ Open
    \/ \E n \in 1..MaxChunk : Receive(n)
    \/ Disconnected
    \/ Reply
    \/ Network
    \/ LookupEnds
    \/ TaskCancelled
    \/ Link
    \/ Close
    \/ Try
    \/ Answer
    \/ \E s \in {"no", "junk"} : AnswerBadly(s)
    \/ Repeat
    \/ Progress
    \/ Joins
    \/ Ended

Spec == Init /\ [][Next]_vars

(* The loop runs every callback and task that can run, each wait has its    *)
(* time-out, and an appliance that is there answers and tries what it was   *)
(* told.                                                                   *)
Fairness ==
    /\ WF_vars(Open) /\ WF_vars(Reply) /\ WF_vars(Link) /\ WF_vars(Close)
    /\ WF_vars(Network) /\ WF_vars(LookupEnds) /\ WF_vars(TaskCancelled)
    /\ WF_vars(\E n \in 1..MaxChunk : Receive(n))
    /\ WF_vars(Answer)
    /\ WF_vars(Joins)

FairSpec == Spec /\ Fairness
-----------------------------------------------------------------------------
(* Properties *)

(* Every variable keeps its type, the queues their capacity, and the        *)
(* reassembly buffer never keeps as much as a frame.                       *)
TypeOK ==
    /\ pc \in Request \cup {"start", "connect", "network", "first", "lookup", "join",
                            "bind", "closing", "closed"}
    /\ result \in {"none", "probed", "waited", "bound", "failed"}
    /\ lookup \in {"none", "running", "cancelling", "found", "failed", "cancelled"}
    /\ network \in {"none", "running", "cancelling", "done", "refused", "cancelled"}
    /\ sequence \in 0..MaxSeq
    /\ queue \in [Lane -> Seq(Frame \cup {Error})]
    /\ \A l \in Lane : Len(queue[l]) <= QueueSize
    /\ buffer \in Seq(Unit) /\ Len(buffer) < 2
    /\ air \in Seq(Unit)
    /\ link \in {"up", "down"}
    /\ owed \in Request \cup {"none"}
    /\ wifi \in {"idle", "trying", "joined", "failed"}
    /\ {marked, overflow} \subseteq BOOLEAN
    /\ spent \in [{"fault", "chatter"} -> Nat]

(* "Persist uncertainty in the flow before the first write"                 *)
(* (bluetooth_transport.py:270): while the appliance has the credentials    *)
(* and may join with them, the write is marked, whatever became of the     *)
(* acknowledgement, of the session or of its tasks.                        *)
MarkKept == (owed = "wifi" \/ wifi \in {"trying", "joined"}) => marked

(* "No bind/confirmation write is started until both tasks have been joined,*)
(* including cancellation", and explicit network errors are reported before *)
(* a bind (bluetooth_provision.py:252 and :259).                           *)
BindAlone ==
    pc = "bind" => lookup = "found" /\ network \in {"done", "cancelled"}

(* A reply is taken for the request it answers: an earlier reply that comes *)
(* again, a report or the other reply of the handshake does not move the    *)
(* session on.                                                             *)
AnswersTheirRequest ==
    [][(pc \in Request) /\ pc' \notin {pc, "closing"} => Head(queue["main"]).of = pc]_vars

(* The frames that will still be taken from the queues, the buffer and the  *)
(* air if nothing else goes wrong.                                         *)
Pending == [l \in Lane |-> queue[l] \o Of(l, buffer \o air)]

Channel == INSTANCE FrameChannel WITH
    Size    <- QueueSize,
    pending <- Pending

(* Reassembly, the two bounded queues and the alarms together keep the      *)
(* promise of FrameChannel: order, no invention, and no silent loss.       *)
RepliesInOrder == Channel!Spec

(* "bounded BLE connection" (bluetooth_transport.py:135): every session     *)
(* ends, and one that met no fault and no full queue has done its work.    *)
Works == <>(pc = "closed" /\ (result # "failed" \/ spent["fault"] > 0 \/ overflow))
=============================================================================
