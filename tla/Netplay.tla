------------------------------- MODULE Netplay -------------------------------
(***************************************************************************)
(* A server and one client over a lossy, reordering, duplicating datagram  *)
(* network, put together as a host does from the engine's parts.  The      *)
(* server ticks (GameLoop, ReplicationSystem), gives entities network ids  *)
(* and a place to spawn, remembers where they were, and sends snapshots    *)
(* and single component updates.  The client ticks, predicts, sends its    *)
(* latest inputs again and again, and shows what the snapshots tell, late. *)
(* Positions are numbers, the two clocks count ticks, and datagrams carry  *)
(* the values themselves, which WireCodec justifies.                       *)
(***************************************************************************)
EXTENDS WireCodec, FiniteSets, Functions, TLC

CONSTANTS Points,         \* spawn points [x, team, radius, priority]
          HistoryTicks,   \* kHistoryTicks
          SnapshotEvery,  \* ticks between two snapshots
          Slots, Delay,   \* of the SnapshotBuffer, in client ticks
          InputRing,      \* kInputRingSize
          PredSlots,      \* kSlots of the PredictionBuffer
          SeqSpace,       \* 2^16
          SentBefore,     \* updates sent before the client came
          MaxEntities, MaxMoves, MaxWire      \* bounds

ASSUME NetplayAssumption ==
    /\ {HistoryTicks, SnapshotEvery, Slots, InputRing, PredSlots} \subseteq Nat \ {0}
    /\ SeqSpace \in Nat \ {0, 1} /\ Delay \in Nat
    /\ {SentBefore, MaxMoves, MaxWire} \subseteq Nat /\ MaxEntities \in Nat \ {0}
    /\ Points \subseteq [x : Int, team : Int, radius : Int, priority : Int]

VARIABLES
    world,     \* entity -> [net, x, team], the living ones
    made,      \* entities made so far
    ids,       \* NetworkIdAllocator: [next, free]
    registry,  \* NetworkRegistry: net id -> entity
    server,    \* [tick, acc, seq, acked, input, sendSeq]
    history,   \* slot -> [tick, at], at: net id -> x
    client,    \* [tick, x, count, inputs, preds, head, slots, next, applied]
    wire,      \* datagrams under way
    log        \* history for the properties

serverVars == <<world, made, ids, registry, server, history>>
vars == <<world, made, ids, registry, server, history, client, wire, log>>

Nothing == << >>
Put(f, k, v) == [i \in DOMAIN f \union {k} |-> IF i = k THEN v ELSE f[i]]
NoSnap == [seq |-> 0, time |-> 0, states |-> Nothing, valid |-> FALSE]
NoPred == [tick |-> 0, x |-> 0, valid |-> FALSE]
NoInput == [tick |-> 0, dx |-> 0]

(* The client comes to a server where a player, the client's, has joined,  *)
(* and SentBefore updates were sent before.                                *)
Init ==
    /\ world = [e \in {1} |-> [net |-> 1, x |-> 0, team |-> 2]]
    /\ made = 1 /\ registry = [n \in {1} |-> 1]
    /\ ids = [next |-> 2, free |-> << >>]
    /\ server = [tick |-> 0, acc |-> 0, seq |-> 0, acked |-> 0, input |-> NoInput,
                 sendSeq |-> [n \in {1} |-> SentBefore]]
    /\ history = [s \in 0..HistoryTicks - 1 |-> [tick |-> 0, at |-> Nothing]]
    /\ client = [tick |-> 0, x |-> 0, count |-> 0, inputs |-> [i \in 0..InputRing - 1 |-> NoInput],
                 preds |-> [i \in 0..PredSlots - 1 |-> NoPred], head |-> 0,
                 slots |-> [i \in 0..Slots - 1 |-> NoSnap], next |-> 0, applied |-> << >>]
    /\ wire = {}
    /\ log = [at |-> << >>, inputs |-> << >>, preds |-> << >>, came |-> 0, ordered |-> TRUE, moves |-> 0]

(* Joins, departures, ticks and updates draw on one budget.              *)
Moved(l) == [l EXCEPT !.moves = @ + 1]
May == log.moves < MaxMoves

(* Socket::send: the datagram is on its way, unless the socket would block *)
(* or the network loses it; the caller is not held up.  At most MaxWire    *)
(* datagrams are under way.                                                *)
Sent(d) == {wire} \union IF Cardinality(wire \union {d}) <= MaxWire THEN {wire \union {d}} ELSE {}
(* Socket::recv takes a datagram; the network may have another copy.       *)
Received(d) == d \in wire /\ wire' \in {wire, wire \ {d}}
------------------------------------------------------------------------------
(* Network ids: the released one that came back last, else a new one.      *)
Allocate_Peek == IF ids.free # << >> THEN [id |-> Last(ids.free), ids |-> ids]
                 ELSE [id |-> ids.next, ids |-> [ids EXCEPT !.next = @ + 1]]
Allocate == IF ids.free # << >>
            THEN [id |-> Last(ids.free), ids |-> [ids EXCEPT !.free = Front(@)]]
            ELSE [id |-> ids.next, ids |-> [ids EXCEPT !.next = @ + 1]]

(* Where onPlayerJoin puts a player: of the points open to the team, those *)
(* no player (the new one included) stands within the radius of, or all if *)
(* there is none; of these one of the highest priority.                    *)
Eligible(team) == {p \in Points : p.team = 0 \/ p.team = team}
Occupied(p, w) == p.radius > 0 /\ \E e \in DOMAIN w : (w[e].x - p.x) * (w[e].x - p.x) <= p.radius * p.radius
Open(team, w) == LET free == {p \in Eligible(team) : ~Occupied(p, w)}
                 IN  IF free = {} THEN Eligible(team) ELSE free
Best(S) == {p \in S : \A q \in S : q.priority <= p.priority}

Join(team) ==
    /\ May /\ made < MaxEntities /\ made' = made + 1
    /\ LET e == made + 1
           w == Put(world, e, [net |-> Allocate.id, x |-> 0, team |-> team])
       IN  /\ ids' = Allocate.ids
           /\ registry' = Put(registry, Allocate.id, e)
           /\ \/ Best(Open(team, w)) = {} /\ world' = w
              \/ \E p \in Best(Open(team, w)) : world' = [w EXCEPT ![e].x = p.x]
    /\ log' = Moved(log) /\ UNCHANGED <<server, history, client, wire>>

Leave(e) ==
    /\ May /\ e \in DOMAIN world
    /\ ids' = [ids EXCEPT !.free = Append(@, world[e].net)]
    /\ registry' = [n \in DOMAIN registry \ {world[e].net} |-> registry[n]]
    /\ world' = [o \in DOMAIN world \ {e} |-> world[o]]
    /\ log' = Moved(log) /\ UNCHANGED <<made, server, history, client, wire>>
------------------------------------------------------------------------------
(* A server tick: the first player obeys the last input, the transforms    *)
(* are recorded in the slot of the tick, a snapshot is built when due.     *)
Positions(w) == [n \in {w[e].net : e \in DOMAIN w} |->
                    w[CHOOSE e \in DOMAIN w : w[e].net = n].x]
Stepped == [e \in DOMAIN world |-> IF e = 1 THEN [world[e] EXCEPT !.x = @ + server.input.dx] ELSE world[e]]
RecordTransforms_Merged(t, w) ==
    [history EXCEPT ![t % HistoryTicks] = [tick |-> t, at |-> Positions(w) @@ @.at]]
RecordTransforms(t, w) == [history EXCEPT ![t % HistoryTicks] = [tick |-> t, at |-> Positions(w)]]
GetSnapshotAtTick(t) == LET h == history[t % HistoryTicks]
                        IN  IF h.tick # t \/ h.at = Nothing THEN Nothing ELSE h.at

ServerTick ==
    /\ May
    /\ LET t == server.tick + 1
           due == server.acc + 1 >= SnapshotEvery
           seq == IF due THEN server.seq + 1 ELSE server.seq
       IN  /\ world' = Stepped
           /\ history' = RecordTransforms(t, Stepped)
           /\ server' = [server EXCEPT !.tick = t, !.seq = seq, !.acc = IF due THEN 0 ELSE @ + 1]
           /\ wire' \in IF due THEN Sent([k |-> "snapshot", seq |-> seq, tick |-> t,
                                          states |-> Positions(Stepped)])
                        ELSE {wire}
           /\ log' = [Moved(log) EXCEPT !.at = Append(@, Positions(Stepped))]
    /\ UNCHANGED <<made, ids, registry, client>>

(* UnreliableOrderedChannel::send for one component of one net id.  The    *)
(* count of sends stands for the 16 bits kept of it, which the datagram    *)
(* carries; the network is taken to hold none for half the sequence space. *)
SendUpdate(n) ==
    /\ May /\ n \in DOMAIN registry
    /\ LET number == IF n \in DOMAIN server.sendSeq THEN server.sendSeq[n] ELSE 0
           Recent(m) == number - m < SeqSpace \div 2
       IN  /\ n \in DOMAIN client.applied => Recent(client.applied[n].number)
           /\ \A d \in wire : d.k = "update" /\ d.net = n => Recent(d.number)
           /\ server' = [server EXCEPT !.sendSeq = Put(@, n, number + 1)]
           /\ wire' \in Sent([k |-> "update", net |-> n, seq |-> number % SeqSpace, number |-> number])
    /\ log' = Moved(log)
    /\ UNCHANGED <<world, made, ids, registry, history, client>>

(* GameLoop::receiveInputMessage for each message, in the order written.   *)
ReceiveInputs ==
    \E d \in wire :
        /\ d.k = "inputs" /\ Received(d)
        /\ server' = [server EXCEPT !.input = Last(d.msgs)]
        /\ UNCHANGED <<world, made, ids, registry, history, client, log>>

AcknowledgeSnapshot ==
    \E d \in wire :
        /\ d.k = "ack" /\ Received(d)
        /\ server' = [server EXCEPT !.acked = IF d.seq > @ THEN d.seq ELSE @]
        /\ UNCHANGED <<world, made, ids, registry, history, client, log>>
------------------------------------------------------------------------------
(* A client tick: the frame goes into the input ring and, with the place   *)
(* it leads to, into the prediction buffer; the ring is sent, newest first.*)
WithInput(c, dx) == [c EXCEPT !.inputs[c.count % InputRing] = [tick |-> c.tick, dx |-> dx],
                              !.count = @ + 1]
FlushInputMessages_Clamped(c) ==      \* mutant: counts from the clamped count
    LET count == IF c.count < InputRing THEN c.count ELSE InputRing
    IN  [i \in 1..count |-> c.inputs[(count - 1 - (i - 1) + InputRing * 2) % InputRing]]
FlushInputMessages(c) ==
    LET count == IF c.count < InputRing THEN c.count ELSE InputRing
    IN  [i \in 1..count |-> c.inputs[(c.count - 1 - (i - 1) + InputRing * 2) % InputRing]]

Predict(c, x) == [c EXCEPT !.preds[c.head % PredSlots] = [tick |-> c.tick, x |-> x, valid |-> TRUE],
                           !.head = @ + 1]
Prediction(c, t) ==      \* get: the first valid slot of the tick
    LET mine == {i \in DOMAIN c.preds : c.preds[i].valid /\ c.preds[i].tick = t}
    IN  IF mine = {} THEN NoPred ELSE c.preds[CHOOSE i \in mine : \A j \in mine : i <= j]

ClientTick(dx) ==
    /\ May
    /\ LET c == Predict(WithInput(client, dx), client.x + dx)
       IN  /\ client' = [c EXCEPT !.tick = @ + 1, !.x = @ + dx]
           /\ wire' \in Sent([k |-> "inputs", msgs |-> FlushInputMessages(c)])
    /\ log' = [Moved(log) EXCEPT !.inputs = Append(@, [tick |-> client.tick, dx |-> dx]),
                                 !.preds = Append(@, client.x + dx)]
    /\ UNCHANGED serverVars

(* A snapshot is put into the ring with the time it came, whatever its     *)
(* number; the player is put where the server had it if the prediction of  *)
(* that tick was off, and the snapshot acknowledged.                       *)
PushSnapshot(c, d) ==
    [c EXCEPT !.slots[c.next % Slots] = [seq |-> d.seq, time |-> c.tick, states |-> d.states, valid |-> TRUE],
              !.next = (@ + 1) % Slots]
Reconcile(c, t, x) == Prediction(c, t).valid /\ Prediction(c, t).x # x

ReceiveSnapshot ==
    \E d \in wire :
        /\ d.k = "snapshot" /\ d \in wire
        /\ LET off == 1 \in DOMAIN d.states /\ Reconcile(client, d.tick, d.states[1])
               c == PushSnapshot(client, d)
           IN  client' = IF off THEN [c EXCEPT !.x = d.states[1]] ELSE c
        /\ \E w \in {wire, wire \ {d}} :
               wire' \in {w} \union IF Cardinality(w) < MaxWire THEN {w \union {[k |-> "ack", seq |-> d.seq]}} ELSE {}
        /\ log' = [log EXCEPT !.came = d.seq, !.ordered = @ /\ d.seq > log.came]
        /\ UNCHANGED serverVars

(* SnapshotBuffer::sample at time now: the place of net id n between the   *)
(* latest entry not after now - Delay and the earliest after it.           *)
Between(a, b, target, prev, next) == a + ((b - a) * (target - prev)) \div (next - prev)
Sample(c, now, n) ==
    LET target == now - Delay
        valid == {i \in DOMAIN c.slots : c.slots[i].valid}
        before == {i \in valid : c.slots[i].time <= target}
        after == valid \ before
        prev == c.slots[CHOOSE i \in before : \A j \in before :
                          \/ c.slots[j].time < c.slots[i].time
                          \/ c.slots[j].time = c.slots[i].time /\ i <= j]
        next == c.slots[CHOOSE i \in after : \A j \in after :
                          \/ c.slots[j].time > c.slots[i].time
                          \/ c.slots[j].time = c.slots[i].time /\ i <= j]
    IN  IF before = {} THEN Nothing
        ELSE IF n \notin DOMAIN prev.states THEN Nothing
        ELSE IF after = {} THEN <<prev.states[n]>>
        ELSE IF n \notin DOMAIN next.states THEN <<prev.states[n]>>
        ELSE <<Between(prev.states[n], next.states[n], target, prev.time, next.time)>>

(* UnreliableOrderedChannel::poll: newest wins, per key, modulo the space. *)
SeqNewer_Plain(a, b) == a > b
SeqNewer(a, b) == a # b /\ (a - b) % SeqSpace < SeqSpace \div 2
AcceptSequence(n, seq) == n \in DOMAIN client.applied => SeqNewer(seq, client.applied[n].seq)
PollUpdate ==
    \E d \in wire :
        /\ d.k = "update" /\ Received(d)
        /\ IF AcceptSequence(d.net, d.seq)
           THEN client' = [client EXCEPT !.applied = Put(@, d.net, [seq |-> d.seq, number |-> d.number])]
           ELSE UNCHANGED client
        /\ UNCHANGED <<serverVars, log>>

Next == \/ \E team \in {1, 2} : Join(team)
        \/ \E e \in 1..made : Leave(e)
        \/ ServerTick \/ \E n \in 1..MaxEntities : SendUpdate(n)
        \/ ReceiveInputs \/ AcknowledgeSnapshot
        \/ \E dx \in {0, 1} : ClientTick(dx)
        \/ ReceiveSnapshot \/ PollUpdate

Spec == Init /\ [][Next]_vars
------------------------------------------------------------------------------
TypeOK == /\ DOMAIN world \subseteq 1..made /\ made \in 0..MaxEntities
          /\ server.acc \in 0..SnapshotEvery - 1 /\ server.acked <= server.seq
          /\ server.tick = Len(log.at) /\ client.tick = Len(log.inputs)
          /\ client.head = client.tick /\ client.next \in 0..Slots - 1
          /\ Cardinality(wire) <= MaxWire

(* A net id found in the registry is that of a living entity, which no     *)
(* other has and which is not free to be handed out again.                 *)
LiveIdsUnique ==
    /\ TypeOK
    /\ DOMAIN registry = {world[e].net : e \in DOMAIN world}
    /\ \A e \in DOMAIN world : registry[world[e].net] = e
    /\ \A n \in DOMAIN registry \union Range(ids.free) : n < ids.next
    /\ DOMAIN registry \cap Range(ids.free) = {} /\ IsInjective(ids.free)

(* Lag compensation looks up exactly what was recorded at that tick, for   *)
(* each of the last HistoryTicks ticks, and nothing for an older one: the  *)
(* entities that left since are in it, and no others.                      *)
HistoryExact ==
    \A t \in 1..server.tick :
        GetSnapshotAtTick(t) = IF t > server.tick - HistoryTicks THEN log.at[t] ELSE Nothing

(* The prediction kept for a tick is the one made in it; only the latest   *)
(* PredSlots ticks have one.                                               *)
PredictionExact ==
    \A t \in 0..client.tick - 1 :
        Prediction(client, t) = IF t >= client.tick - PredSlots
                                THEN [tick |-> t, x |-> log.preds[t + 1], valid |-> TRUE] ELSE NoPred

(* Both rings overwrite by tick modulo their size, and never answer for a  *)
(* tick with what another tick left in the slot.                           *)
RingsExact == HistoryExact /\ PredictionExact

(* A flush holds the latest inputs, newest first, each once.               *)
FlushExact ==
    LET n == Len(log.inputs)  msgs == FlushInputMessages(client)
    IN  /\ Len(msgs) = IF n < InputRing THEN n ELSE InputRing
        /\ \A i \in DOMAIN msgs : msgs[i] = log.inputs[n + 1 - i]

(* The inputs sent are the latest, and the one the server acts on, which   *)
(* may be old, is one the client gave, through loss, repetition and        *)
(* reordering.                                                             *)
InputsExact ==
    /\ FlushExact
    /\ server.input # NoInput => server.input \in Range(log.inputs)

(* That a message which arrives is the one sent is up to the codecs: it    *)
(* depends on no state and is asked once, before the first move.           *)
CodecsFaithful == log.moves = 0 => CodecsExact

(* While fewer updates than half the sequence space have been sent since   *)
(* the one last applied, an applied update is never replaced by an older   *)
(* one.                                                                    *)
NewestWins ==
    \A n \in DOMAIN client.applied :
        client'.applied[n].number >= client.applied[n].number

(* While snapshots come in the order they were sent, the first player, who *)
(* only moves forward, is never shown to go back as the time goes on.      *)
ShownInOrder ==
    log.ordered' /\ 1 \in DOMAIN world =>
        LET old == Sample(client, client.tick, world[1].net)
            new == Sample(client', client'.tick, world[1].net)
        IN  old # Nothing /\ new # Nothing => old[1] <= new[1]

(* What the client shows of the server never turns back: neither the       *)
(* updates of a component, reordered and numbered modulo the space, nor    *)
(* the player's place between snapshots.                                   *)
NeverGoesBack == [][NewestWins /\ ShownInOrder]_vars
==============================================================================
