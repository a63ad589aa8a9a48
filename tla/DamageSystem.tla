----------------------------- MODULE DamageSystem -----------------------------
(***************************************************************************)
(* app/DamageSystem: the server's damage authority.  Hitscan requests come *)
(* from the reliable channel, which may deliver one again; tick() drops    *)
(* the serials it has processed, validates the rest by raycast, adds up    *)
(* the damage per target and applies it once.  Whether a raycast, rewound  *)
(* or live, agrees with a request's claim is a choice.                     *)
(***************************************************************************)
EXTENDS Integers, Sequences, FiniteSets, SequencesExt

CONSTANTS Clients, Serials,
          Targets,     \* claimed target netIds
          MaxHp,
          Damage,      \* of the weapon
          Shield,      \* per cent of the damage a target's shield absorbs
          Keep,        \* 640: ticks a processed serial is remembered
          MaxQueue, MaxTicks, MaxLives    \* bounds

ASSUME DamageAssumption == /\ {MaxHp, Damage, Keep} \subseteq Nat \ {0}
                           /\ Shield \in [Targets -> 0..100]
                           /\ {MaxQueue, MaxTicks, MaxLives} \subseteq Nat

VARIABLES
    hp,           \* Health::currentHp
    known,        \* targets the registry finds, with a Health component
    queue,        \* queue_
    processed,    \* processed_: server tick of receipt, 0 for no entry
    serverTick,
    attackers,    \* attackers_: who fired a serial
    deathRpcs,    \* pendingDeathRpcs_
    landed,       \* history: tick at which a serial last confirmed a hit
    lives,        \* history: respawns of each target
    deaths        \* history: EntityDied events of each target

damageVars == <<hp, known, queue, processed, serverTick, attackers, deathRpcs,
                landed, lives, deaths>>

Request == [client : Clients, serial : Serials, target : Targets]

DamageTypeOK == /\ hp \in [Targets -> 0..MaxHp]
                /\ known \subseteq Targets
                /\ queue \in BoundedSeq(Request, MaxQueue)
                /\ processed \in [Serials -> 0..MaxTicks]
                /\ serverTick \in 0..MaxTicks
                /\ attackers \in UNION {[S -> Clients] : S \in SUBSET Serials}
                /\ \A d \in ToSet(deathRpcs) : d.dead \in Targets /\ d.killer \in Clients
                /\ landed \in [Serials -> 0..MaxTicks]

DamageInit == /\ hp = [t \in Targets |-> MaxHp]
              /\ known = Targets
              /\ queue = << >>
              /\ processed = [s \in Serials |-> 0]
              /\ serverTick = 0
              /\ attackers = << >>
              /\ deathRpcs = << >>
              /\ landed = [s \in Serials |-> 0]
              /\ lives = [t \in Targets |-> 0]
              /\ deaths = [t \in Targets |-> 0]
------------------------------------------------------------------------------
(* A request arrives, for the first time or again: setAttackerForRequest,  *)
(* submitRequest.                                                          *)
Submit(r) ==
    /\ Len(queue) < MaxQueue
    /\ attackers' = [s \in DOMAIN attackers \union {r.serial} |->
                         IF s = r.serial THEN r.client ELSE attackers[s]]
    /\ queue' = Append(queue, r)
    /\ UNCHANGED <<hp, known, processed, serverTick, deathRpcs, landed,
                   lives, deaths>>

(* The serials tick() still remembers once it has pruned.                  *)
Remembered == {s \in Serials : processed[s] # 0 /\ serverTick - processed[s] <= Keep}

(* Requests of the queue that are no repeat of a remembered serial or of   *)
(* an earlier request of the same batch.                                   *)
Fresh_BatchRepeats == {i \in DOMAIN queue : queue[i].serial \notin Remembered}   \* mutant
Fresh == {i \in DOMAIN queue :
             /\ queue[i].serial \notin Remembered
             /\ \A j \in 1..i-1 : queue[j].serial # queue[i].serial}

(* What a target that is hit n times loses: the sum, less the shield.      *)
Loss(t, n) == n * Damage - (n * Damage * Shield[t]) \div 100

Drained(h, d) == IF d < h THEN h - d ELSE 0

Hurt_Dead(hits) == {t \in known : \E i \in hits : queue[i].target = t}   \* mutant
Hurt(hits) == {t \in known : hp[t] > 0 /\ \E i \in hits : queue[i].target = t}

HpAfter(hits, t) ==
    IF t \in Hurt(hits)
    THEN Drained(hp[t], Loss(t, Cardinality({i \in hits : queue[i].target = t})))
    ELSE hp[t]

(* The last attacker of the batch is credited with the kill.               *)
Killer(hits, t) ==
    LET last == CHOOSE i \in hits : /\ queue[i].target = t
                                    /\ \A j \in hits : queue[j].target = t => j <= i
    IN  attackers[queue[last].serial]

(* tick(), with the raycasts of "agree" confirming their claims.           *)
Tick(agree) ==
    LET hits == {i \in Fresh \cap agree : queue[i].target \in known}
        dead == {t \in Hurt(hits) : HpAfter(hits, t) = 0}
    IN  /\ serverTick < MaxTicks
        /\ serverTick' = serverTick + 1
        /\ processed' = [s \in Serials |->
               IF \E i \in Fresh : queue[i].serial = s THEN serverTick'
               ELSE IF s \in Remembered THEN processed[s] ELSE 0]
        /\ landed' = [s \in Serials |->
               IF \E i \in hits : queue[i].serial = s THEN serverTick' ELSE landed[s]]
        /\ hp' = [t \in Targets |-> HpAfter(hits, t)]
        /\ \E order \in SetToSeqs(dead) :      \* an unordered_map is walked
               deathRpcs' = deathRpcs \o
                   [k \in DOMAIN order |->
                       [dead |-> order[k], killer |-> Killer(hits, order[k])]]
        /\ deaths' = [t \in Targets |-> deaths[t] + (IF t \in dead THEN 1 ELSE 0)]
        /\ queue' = << >>
        /\ UNCHANGED <<known, attackers, lives>>

(* The session drains the death RPCs.                                      *)
ClearDeathRpcs ==
    /\ deathRpcs # << >>
    /\ deathRpcs' = << >>
    /\ UNCHANGED <<hp, known, queue, processed, serverTick, attackers, landed,
                   lives, deaths>>

(* The game: a dead target respawns; a target leaves, its Health with it.  *)
Respawn(t) ==
    /\ hp[t] = 0 /\ lives[t] < MaxLives
    /\ hp' = [hp EXCEPT ![t] = MaxHp]
    /\ lives' = [lives EXCEPT ![t] = @ + 1]
    /\ UNCHANGED <<known, queue, processed, serverTick, attackers, deathRpcs, landed,
                   deaths>>

Leave(t) ==
    /\ t \in known
    /\ known' = known \ {t}
    /\ UNCHANGED <<hp, queue, processed, serverTick, attackers, deathRpcs, landed,
                   lives, deaths>>

DamageNext == \/ \E r \in Request : Submit(r)
              \/ \E agree \in SUBSET (DOMAIN queue) : Tick(agree)
              \/ ClearDeathRpcs
              \/ \E t \in Targets : Respawn(t) \/ Leave(t)

DamageSpec == DamageInit /\ [][DamageNext]_damageVars
------------------------------------------------------------------------------
(* A serial that confirmed a hit confirms none again while processed_      *)
(* remembers it, however often and in whatever batches it is delivered.    *)
RememberedOnce ==
    \A s \in Serials :
        landed'[s] # landed[s] /\ landed[s] # 0 => landed'[s] - landed[s] > Keep + 1

(* Within one batch a target loses at most the damage of the distinct      *)
(* serials that claim it.                                                  *)
LossBySerial ==
    serverTick' # serverTick =>
        \A t \in Targets :
            hp[t] - hp'[t] <=
                Loss(t, Cardinality({queue[i].serial :
                                         i \in {j \in DOMAIN queue : queue[j].target = t}}))

(* "A reliable request may be delivered once, but a resend before ACK can  *)
(* surface twice; ignore repeats": whether the repeat comes in the same    *)
(* batch or in a later one, it does no damage.                             *)
HitOnce == [][RememberedOnce /\ LossBySerial]_damageVars

(* "So the map stays bounded regardless of match length": no entry of      *)
(* processed_ outlives the window.                                         *)
DedupBounded ==
    \A s \in Serials : processed[s] # 0 => serverTick - processed[s] <= Keep + 1

(* EntityDied is published once per life: the kills so far are the lives   *)
(* that were given back and the one each dead target has lost, although    *)
(* hits go on arriving for the dead.  The books this is read from keep     *)
(* their types, and processed_ its bound.                                  *)
OneDeathPerLife ==
    /\ DamageTypeOK
    /\ DedupBounded
    /\ \A t \in Targets : deaths[t] = lives[t] + (IF hp[t] = 0 THEN 1 ELSE 0)
==============================================================================
