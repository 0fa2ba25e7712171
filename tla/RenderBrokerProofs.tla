------------------------- MODULE RenderBrokerProofs -------------------------
(***************************************************************************)
(* What RenderBroker.cfg checks with two callers and five generations      *)
(* holds of any number of callers, jobs, generations and faults: the       *)
(* broker keeps account of its processes, slots and threads (BrokerInv),   *)
(* a caller is handed its own picture only (AnswersOwnJob), and a shutdown *)
(* that reported success is final (ShutdownIsFinal).                       *)
(*                                                                         *)
(* Most steps that stop, drop, reconcile or give up are alike in what they *)
(* may do: Sheds says what, once, and the invariant is shown for it.       *)
(***************************************************************************)
EXTENDS RenderBroker, FiniteSetTheorems, TLAPS

\* A child the broker holds has the broker's slot and a generation of the past;
\* while the next one is being made the broker holds nothing.
StartInv ==
    /\ broker.handle = NoGen \/ broker.slot = broker.handle
    /\ broker.handle <= broker.gen
    /\ start.pc \in {"spawn", "spawned"} =>
         broker.handle = NoGen /\ broker.slot = NoGen /\ start.gen = broker.gen + 1
    /\ start.pc \in {"spawn", "spawned", "boot"} => start.gen \in Gens

\* The caller of a request thread, also of one that is done, has the job slot.
ThreadInv == \A c \in Callers : call[c].thread # "none" => jobSlot = c

\* Once shutdown() has stopped the child, no start is under way or will be.
DownInv ==
    /\ down # "up" => broker.quiesced
    /\ down \notin {"up", "await_start"} => start.pc = "done"
    /\ down = "down" => /\ broker.handle = NoGen /\ broker.slot = NoGen
                        /\ \A c \in Callers : call[c].thread \notin {"submit", "poll"}

\* The generations of a request are never given to another one.
Past(pg, rg) == pg < broker.gen \/ (pg = broker.gen /\ rg <= broker.rgen)

MessagesIn(g) == {child[g].job, ipc[g].req, ipc[g].resp}

MessageInv ==
    /\ \A g \in Gens : ipc[g].resp.kind # "render"
    /\ \A g \in Gens : \A m \in MessagesIn(g) : Past(m.pg, m.rg)
    /\ \A c \in Callers : call[c].thread \in {"submit", "poll"} =>
         /\ call[c].pg \in Gens /\ Past(call[c].pg, call[c].rg)
         /\ \A g \in Gens : \A m \in MessagesIn(g) :
              m.pg = call[c].pg /\ m.rg = call[c].rg => m.job = call[c].job

Inv ==
    /\ TypeOK /\ StartInv /\ NoLostChild /\ NoLeakedSlot
    /\ ThreadInv /\ DownInv /\ MessageInv /\ AnswersOwnJob

-----------------------------------------------------------------------------
(* Types, variable by variable.                                             *)

Brokers == [handle : 0 .. MaxGen, slot : 0 .. MaxGen, ready : BOOLEAN,
            fatal : Fatals, quiesced : BOOLEAN, gen : 0 .. MaxGen, rgen : Nat,
            active : BOOLEAN]
Starts == [pc : {"none", "create", "spawn", "spawned", "boot", "done"}, gen : 0 .. MaxGen]
Children == [pc : {"gone", "boot", "idle", "busy"}, job : Msgs, signalled : BOOLEAN]
Slots == [open : BOOLEAN, req : Msgs, resp : Msgs]
Calls == [pc : {"idle", "wait", "recover", "recovered", "start_wait", "drain", "delayed",
                "final_wait"},
          why : {"none", "cancel", "failed", "ipc_corrupt"},
          thread : {"none", "begin", "submit", "poll", "done"}, job : 0 .. MaxJobs,
          pg : 0 .. MaxGen, rg : Nat, out : {"none", "ok", "typed", "failed", "ipc", "ready"},
          answer : 0 .. MaxJobs]
Downs == {"up", "await_start", "join", "join_alive", "down", "failed"}

LEMMA TypeParts ==
    TypeOK <=> /\ broker \in Brokers /\ start \in Starts
               /\ child \in [Gens -> Children] /\ ipc \in [Gens -> Slots]
               /\ call \in [Callers -> Calls] /\ jobSlot \in Callers \cup {NoCaller}
               /\ down \in Downs /\ jobs \in 0 .. MaxJobs /\ faults \in 0 .. MaxFaults
BY DEF TypeOK, Brokers, Starts, Children, Slots, Calls, Downs

LEMMA TypePartsNext ==
    ASSUME broker' \in Brokers, start' \in Starts,
           child' \in [Gens -> Children], ipc' \in [Gens -> Slots],
           call' \in [Callers -> Calls], jobSlot' \in Callers \cup {NoCaller},
           down' \in Downs, jobs' \in 0 .. MaxJobs, faults' \in 0 .. MaxFaults
    PROVE  TypeOK'
BY DEF TypeOK, Brokers, Starts, Children, Slots, Calls, Downs

LEMMA Bounds == MaxJobs \in Nat /\ MaxGen \in Nat /\ MaxFaults \in Nat /\ NoCaller \notin Callers
BY RenderBounds DEF NoCaller

LEMMA Empties ==
    /\ NoMsg \in Msgs /\ [NoMsg EXCEPT !.kind = "ready"] \in Msgs
    /\ Gone \in Children /\ NoCall \in Calls
    /\ [open |-> TRUE, req |-> NoMsg, resp |-> NoMsg] \in Slots
BY Bounds DEF NoMsg, Msgs, Kinds, Gone, Children, NoCall, Calls, Slots

LEMMA InitHolds == Init => Inv
<1> SUFFICES ASSUME Init PROVE Inv
    OBVIOUS
<1> USE Bounds, Empties
<1>1. TypeOK
    <2>1. broker \in Brokers /\ start \in Starts
        BY DEF Init, Brokers, Starts, NoGen, Fatals
    <2>2. child \in [Gens -> Children] /\ ipc \in [Gens -> Slots]
        BY DEF Init, Children, Slots
    <2>3. call \in [Callers -> Calls] /\ jobSlot \in Callers \cup {NoCaller}
        BY DEF Init
    <2>4. down \in Downs /\ jobs \in 0 .. MaxJobs /\ faults \in 0 .. MaxFaults
        BY DEF Init, Downs
    <2> QED
        BY <2>1, <2>2, <2>3, <2>4, TypeParts
<1>2. StartInv /\ ThreadInv /\ DownInv
    BY DEF Init, StartInv, ThreadInv, DownInv, NoGen, NoCall
<1>3. NoLostChild /\ NoLeakedSlot /\ AnswersOwnJob
    BY DEF Init, NoLostChild, NoLeakedSlot, AnswersOwnJob, Alive, NoCall
<1>4. MessageInv
    BY DEF Init, MessageInv, MessagesIn, Past, NoMsg, NoCall
<1> QED
    BY <1>1, <1>2, <1>3, <1>4 DEF Inv

-----------------------------------------------------------------------------
(* What a stop, a reconciliation or a dropped record may do to broker, child *)
(* and slot: forget a child only when it is dead, a slot only when closed.   *)

Dull(m) == m.pg = 0 /\ m.rg = 0 /\ m.kind # "render"

Sheds ==
    /\ broker' \in Brokers /\ child' \in [Gens -> Children] /\ ipc' \in [Gens -> Slots]
    /\ broker'.gen = broker.gen /\ broker'.rgen = broker.rgen
    /\ broker.quiesced => broker'.quiesced
    /\ broker'.handle \in {broker.handle, NoGen} /\ broker'.slot \in {broker.slot, NoGen}
    /\ broker'.handle # NoGen => broker'.slot = broker.slot
    /\ \A g \in Gens : child'[g].pc # "gone" =>
         child[g].pc # "gone" /\ (g = broker.handle => broker'.handle = g)
    /\ \A g \in Gens : ipc'[g].open => ipc[g].open /\ (g = broker.slot => broker'.slot = g)
    /\ \A g \in Gens : /\ child'[g].job \in {child[g].job, NoMsg}
                       /\ ipc'[g].req \in {ipc[g].req, NoMsg}
                       /\ ipc'[g].resp = ipc[g].resp \/ Dull(ipc'[g].resp)

LEMMA ClosedSlots ==
    ASSUME TypeOK, NEW g \in 0 .. MaxGen
    PROVE  /\ CloseSlot(g) \in [Gens -> Slots]
           /\ \A h \in Gens : CloseSlot(g)[h].open => ipc[h].open /\ h # g
           /\ \A h \in Gens : /\ CloseSlot(g)[h].req \in {ipc[h].req, NoMsg}
                              /\ \/ CloseSlot(g)[h].resp = ipc[h].resp
                                 \/ /\ Dull(CloseSlot(g)[h].resp) \/ ipc[h].resp.kind = "render"
                                    /\ CloseSlot(g)[h].resp.kind = ipc[h].resp.kind
<1> USE Bounds, Empties, TypeParts
<1>1. CASE g \notin Gens
    BY <1>1 DEF CloseSlot
<1>2. CASE g \in Gens
    <2> DEFINE closed == [open |-> FALSE, req |-> NoMsg,
                          resp |-> [NoMsg EXCEPT !.kind = ipc[g].resp.kind]]
    <2>1. ipc[g] \in Slots /\ ipc[g].resp \in Msgs
        BY <1>2 DEF Slots
    <2>2. [NoMsg EXCEPT !.kind = ipc[g].resp.kind] \in Msgs
        BY <2>1 DEF Msgs, NoMsg
    <2>3. closed \in Slots
        BY <2>2 DEF Slots
    <2>4. CloseSlot(g) = [ipc EXCEPT ![g] = closed]
        BY <1>2 DEF CloseSlot
    <2>5. \A h \in Gens : CloseSlot(g)[h] = IF h = g THEN closed ELSE ipc[h]
        BY <2>4
    <2>6. CloseSlot(g) \in [Gens -> Slots]
        BY <2>3, <2>4
    <2>7. Dull(closed.resp) \/ ipc[g].resp.kind = "render"
        BY DEF Dull, NoMsg
    <2>8. closed.open = FALSE /\ closed.req = NoMsg /\ closed.resp.kind = ipc[g].resp.kind
        BY DEF NoMsg
    <2> QED
        BY <2>5, <2>6, <2>7, <2>8
<1> QED
    BY <1>1, <1>2

LEMMA KilledChildren ==
    ASSUME TypeOK, NEW g \in 0 .. MaxGen
    PROVE  /\ KillChild(g) \in [Gens -> Children]
           /\ \A h \in Gens : KillChild(g)[h].pc # "gone" => child[h].pc # "gone" /\ h # g
           /\ \A h \in Gens : KillChild(g)[h].job \in {child[h].job, NoMsg}
BY Bounds, Empties, TypeParts DEF KillChild, Gone

LEMMA BrokerFields ==
    ASSUME NEW b \in Brokers
    PROVE  /\ \A f \in Fatals : [b EXCEPT !.fatal = f] \in Brokers
           /\ Dropped(b) \in Brokers
           /\ Dropped(b).handle = NoGen /\ Dropped(b).slot = NoGen
           /\ Dropped(b).gen = b.gen /\ Dropped(b).rgen = b.rgen
           /\ Dropped(b).quiesced = b.quiesced /\ Dropped(b).fatal = b.fatal
<1>1. \A f \in Fatals : [b EXCEPT !.fatal = f] \in Brokers
    BY DEF Brokers
<1>2. Dropped(b) \in Brokers
    <2>1. NoGen \in 0 .. MaxGen
        BY Bounds DEF NoGen
    <2> QED
        BY <2>1, Zenon DEF Dropped, Brokers
<1>3. Dropped(b).handle = NoGen /\ Dropped(b).slot = NoGen
    BY DEF Dropped, Brokers
<1>4. Dropped(b).gen = b.gen /\ Dropped(b).rgen = b.rgen /\ Dropped(b).fatal = b.fatal
    BY DEF Dropped, Brokers
<1>5. Dropped(b).quiesced = b.quiesced
    BY DEF Dropped, Brokers
<1> QED
    BY <1>1, <1>2, <1>3, <1>4, <1>5

LEMMA DroppedBroker ==
    ASSUME TypeOK, NEW f \in Fatals, NEW next, next = [Dropped(broker) EXCEPT !.fatal = f]
    PROVE  /\ next \in Brokers /\ next.handle = NoGen /\ next.slot = NoGen
           /\ next.gen = broker.gen /\ next.rgen = broker.rgen
           /\ next.quiesced = broker.quiesced
<1> DEFINE d == Dropped(broker)
<1>1. /\ d \in Brokers /\ d.handle = NoGen /\ d.slot = NoGen
      /\ d.gen = broker.gen /\ d.rgen = broker.rgen /\ d.quiesced = broker.quiesced
    BY TypeParts, BrokerFields
<1>2. next = [d EXCEPT !.fatal = f]
    OBVIOUS
<1> HIDE DEF d
<1>3. next \in Brokers
    BY <1>1, <1>2, BrokerFields
<1>4. next.handle = d.handle /\ next.slot = d.slot /\ next.gen = d.gen /\ next.rgen = d.rgen
      /\ next.quiesced = d.quiesced
    BY <1>1, <1>2 DEF Brokers
<1> QED
    BY <1>1, <1>3, <1>4

Unready(b, f) == [b EXCEPT !.ready = FALSE, !.fatal = f]

LEMMA UnreadyFields ==
    ASSUME NEW b \in Brokers, NEW f \in Fatals
    PROVE  /\ Unready(b, f) \in Brokers
           /\ Unready(b, f).handle = b.handle /\ Unready(b, f).slot = b.slot
           /\ Unready(b, f).gen = b.gen /\ Unready(b, f).rgen = b.rgen
           /\ Unready(b, f).quiesced = b.quiesced
<1>1. Unready(b, f) \in Brokers
    BY Zenon DEF Brokers, Unready
<1>2. /\ Unready(b, f).handle = b.handle /\ Unready(b, f).slot = b.slot
      /\ Unready(b, f).gen = b.gen /\ Unready(b, f).rgen = b.rgen
    BY DEF Brokers, Unready
<1>3. Unready(b, f).quiesced = b.quiesced
    BY Zenon DEF Brokers, Unready
<1> QED
    BY <1>1, <1>2, <1>3

\* Child dead or killed, slot closed, record dropped.
LEMMA DropsShed ==
    ASSUME Inv, broker' \in Brokers, broker'.handle = NoGen, broker'.slot = NoGen,
           broker'.gen = broker.gen, broker'.rgen = broker.rgen,
           broker'.quiesced = broker.quiesced,
           ipc' = CloseSlot(broker.slot),
           \/ child' = KillChild(broker.handle)
           \/ child' = child /\ ~Alive(broker.handle)
    PROVE  Sheds
<1>1. TypeOK /\ broker.handle \in 0 .. MaxGen /\ broker.slot \in 0 .. MaxGen
    BY TypeParts DEF Inv, Brokers
<1>2. /\ child' \in [Gens -> Children]
      /\ \A g \in Gens : child'[g].pc # "gone" => child[g].pc # "gone" /\ g # broker.handle
      /\ \A g \in Gens : child'[g].job \in {child[g].job, NoMsg}
    BY <1>1, KilledChildren, TypeParts DEF Alive
<1>3. /\ ipc' \in [Gens -> Slots]
      /\ \A g \in Gens : ipc'[g].open => ipc[g].open /\ g # broker.slot
      /\ \A g \in Gens : /\ ipc'[g].req \in {ipc[g].req, NoMsg}
                         /\ ipc'[g].resp = ipc[g].resp \/ Dull(ipc'[g].resp)
    BY <1>1, ClosedSlots DEF Inv, MessageInv
<1> QED
    BY <1>2, <1>3 DEF Sheds

LEMMA DropSheds ==
    ASSUME Inv, NEW f \in Fatals,
           broker' = [Dropped(broker) EXCEPT !.fatal = f],
           ipc' = CloseSlot(broker.slot),
           \/ child' = KillChild(broker.handle)
           \/ child' = child /\ ~Alive(broker.handle)
    PROVE  Sheds
BY DroppedBroker, DropsShed DEF Inv

\* Only flags of the broker change.
LEMMA FlagsShed ==
    ASSUME Inv, broker' \in Brokers, UNCHANGED <<child, ipc>>,
           broker'.handle = broker.handle, broker'.slot = broker.slot,
           broker'.gen = broker.gen, broker'.rgen = broker.rgen,
           broker.quiesced => broker'.quiesced
    PROVE  Sheds
BY TypeParts DEF Inv, Sheds

LEMMA StopConfirmedSheds == ASSUME Inv, StopConfirmed PROVE Sheds
<1>1. /\ TypeOK /\ broker \in Brokers
      /\ broker.handle \in 0 .. MaxGen /\ broker.slot \in 0 .. MaxGen
    BY TypeParts DEF Inv, Brokers
<1>2. CASE broker.handle # NoGen
    <2>1. broker' = [Dropped(broker) EXCEPT !.fatal = "none"] /\ "none" \in Fatals
        BY <1>2 DEF StopConfirmed, Fatals
    <2> QED
        BY <2>1, DropSheds DEF StopConfirmed
<1>3. CASE broker.handle = NoGen
    <2>1. broker' = [broker EXCEPT !.slot = NoGen, !.ready = FALSE]
        BY <1>3 DEF StopConfirmed
    <2>2. NoGen \in 0 .. MaxGen
        BY Bounds DEF NoGen
    <2>3. broker' \in Brokers
        BY <1>1, <2>1, <2>2, Zenon DEF Brokers
    <2>4. /\ broker'.handle = NoGen /\ broker'.slot = NoGen
          /\ broker'.gen = broker.gen /\ broker'.rgen = broker.rgen
        BY <1>1, <1>3, <2>1 DEF Brokers
    <2>5. broker'.quiesced = broker.quiesced
        BY <1>1, <2>1, Zenon DEF Brokers
    <2>6. child' = child
        BY <1>3 DEF StopConfirmed, KillChild, Gens, NoGen
    <2>7. /\ ipc' \in [Gens -> Slots]
          /\ \A g \in Gens : ipc'[g].open => ipc[g].open /\ g # broker.slot
          /\ \A g \in Gens : /\ ipc'[g].req \in {ipc[g].req, NoMsg}
                             /\ ipc'[g].resp = ipc[g].resp \/ Dull(ipc'[g].resp)
        BY <1>1, ClosedSlots DEF Inv, MessageInv, StopConfirmed
    <2>8. child \in [Gens -> Children] /\ \A g \in Gens : g # NoGen
        BY <1>1, TypeParts DEF Gens, NoGen
    <2> QED
        BY <1>3, <2>3, <2>4, <2>5, <2>6, <2>7, <2>8 DEF Sheds
<1> QED
    BY <1>2, <1>3

LEMMA SignalledChildren ==
    ASSUME child \in [Gens -> Children], NEW h \in Gens
    PROVE  /\ Signalled(h) \in [Gens -> Children]
           /\ \A g \in Gens : /\ Signalled(h)[g].pc = child[g].pc
                              /\ Signalled(h)[g].job = child[g].job
<1> DEFINE s == [child[h] EXCEPT !.signalled = TRUE]
<1>1. s \in Children
    BY Zenon DEF Children
<1>2. s.pc = child[h].pc /\ s.job = child[h].job
    BY Zenon DEF Children
<1>3. Signalled(h) = [child EXCEPT ![h] = s]
    BY Zenon DEF Signalled
<1> HIDE DEF s
<1> QED
    BY <1>1, <1>2, <1>3

LEMMA StopRefusedSheds == ASSUME Inv, NEW f \in Fatals, StopRefused(f) PROVE Sheds
<1>1. broker \in Brokers /\ child \in [Gens -> Children] /\ broker.handle \in Gens
    BY TypeParts DEF Inv, StopRefused, Alive
<1>2. broker' = Unready(broker, f)
    BY DEF StopRefused, Unready
<1>3. /\ broker' \in Brokers
      /\ broker'.handle = broker.handle /\ broker'.slot = broker.slot
      /\ broker'.gen = broker.gen /\ broker'.rgen = broker.rgen
      /\ broker'.quiesced = broker.quiesced
    BY <1>1, <1>2, UnreadyFields
<1>4. /\ child' \in [Gens -> Children]
      /\ \A g \in Gens : child'[g].pc = child[g].pc /\ child'[g].job = child[g].job
    BY <1>1, SignalledChildren DEF StopRefused
<1> QED
    BY <1>1, <1>3, <1>4, TypeParts DEF Sheds, Inv, StopRefused

LEMMA StopLateSheds == ASSUME Inv, NEW f \in Fatals, StopLate(f) PROVE Sheds
BY DropSheds DEF StopLate

LEMMA ReconciledSheds ==
    ASSUME Inv, broker' = Reconciled, ipc' = ReconciledSlots, child' = child PROVE Sheds
<1>1. CASE Reconcilable
    <2>1. /\ broker' = [Dropped(broker) EXCEPT !.fatal = "none"] /\ "none" \in Fatals
          /\ ipc' = CloseSlot(broker.slot) /\ ~Alive(broker.handle)
        BY <1>1 DEF Reconciled, ReconciledSlots, Reconcilable, Fatals
    <2> QED
        BY <2>1, DropSheds
<1>2. CASE ~Reconcilable
    <2>1. UNCHANGED <<broker, ipc, child>>
        BY <1>2 DEF Reconciled, ReconciledSlots
    <2> QED
        BY <2>1, FlagsShed, TypeParts DEF Inv
<1> QED
    BY <1>1, <1>2

-----------------------------------------------------------------------------
(* The steps that shed: what else they may change, and that they keep Inv.   *)

\* A caller's thread is as before, or gone with all it knew.
CallsShift ==
    /\ call' \in [Callers -> Calls]
    /\ \A c \in Callers :
         \/ call'[c].thread = "none" /\ call'[c].out = "none"
         \/ /\ call'[c].thread = call[c].thread /\ call'[c].job = call[c].job
            /\ call'[c].pg = call[c].pg /\ call'[c].rg = call[c].rg
            /\ call'[c].out = call[c].out /\ call'[c].answer = call[c].answer

\* The start task begins, unless the broker is quiesced, or ends.
StartShift ==
    \/ start' = start
    \/ /\ start' = [pc |-> "done", gen |-> NoGen] /\ start.pc \in {"create", "boot"}
    \/ /\ start' = [pc |-> "create", gen |-> NoGen] /\ start.pc \in {"none", "done"}
       /\ down = "up"

DownShift ==
    \/ down' = down
    \/ down = "up" /\ down' = "await_start" /\ broker'.quiesced
    \/ down = "await_start" /\ start.pc = "done" /\ down' \in {"join", "join_alive"}
    \/ /\ down \in {"join", "join_alive"}
       /\ \/ down' = "failed"
          \/ /\ down' = "down" /\ broker'.handle = NoGen /\ broker'.slot = NoGen
             /\ \A c \in Callers : call'[c].thread \notin {"submit", "poll"}

\* A message is one that was there before, by its generations and job, or none.
Echo(g, m) ==
    \/ m.pg = 0 /\ m.rg = 0
    \/ \E n \in MessagesIn(g) : m.pg = n.pg /\ m.rg = n.rg /\ m.job = n.job

LEMMA MessageTypes ==
    ASSUME Inv, NEW g \in Gens, NEW m \in MessagesIn(g)
    PROVE  m \in Msgs /\ m.pg \in 0 .. MaxGen /\ m.rg \in Nat
BY TypeParts DEF Inv, MessagesIn, Children, Slots, Msgs

LEMMA MessagesKept ==
    ASSUME Inv, CallsShift, broker' \in Brokers,
           \A pg \in 0 .. MaxGen, rg \in Nat : Past(pg, rg) => Past(pg, rg)',
           \A g \in Gens : ipc'[g].resp.kind # "render",
           \A g \in Gens : \A m \in MessagesIn(g)' : Echo(g, m)
    PROVE  MessageInv'
<1> USE Bounds
<1>1. Past(0, 0)'
    BY DEF Past, Brokers
<1>2. ASSUME NEW g \in Gens, NEW m \in MessagesIn(g)' PROVE Past(m.pg, m.rg)'
    <2>1. CASE m.pg = 0 /\ m.rg = 0
        BY <1>1, <2>1
    <2>2. CASE \E n \in MessagesIn(g) : m.pg = n.pg /\ m.rg = n.rg /\ m.job = n.job
        <3>0. PICK n \in MessagesIn(g) : m.pg = n.pg /\ m.rg = n.rg /\ m.job = n.job
            BY <2>2
        <3>1. Past(n.pg, n.rg) /\ n.pg \in 0 .. MaxGen /\ n.rg \in Nat
            BY MessageTypes DEF Inv, MessageInv
        <3> QED
            BY <3>0, <3>1
    <2> QED
        BY <2>1, <2>2 DEF Echo
<1>3. ASSUME NEW c \in Callers, call'[c].thread \in {"submit", "poll"}
      PROVE  /\ call'[c].pg \in Gens /\ Past(call[c].pg, call[c].rg)'
             /\ \A g \in Gens : \A m \in MessagesIn(g)' :
                  m.pg = call'[c].pg /\ m.rg = call'[c].rg => m.job = call'[c].job
    <2>1. /\ call[c].thread \in {"submit", "poll"} /\ call'[c].job = call[c].job
          /\ call'[c].pg = call[c].pg /\ call'[c].rg = call[c].rg
        BY <1>3 DEF CallsShift
    <2>2. /\ call[c].pg \in Gens /\ Past(call[c].pg, call[c].rg)
          /\ \A g \in Gens : \A m \in MessagesIn(g) :
               m.pg = call[c].pg /\ m.rg = call[c].rg => m.job = call[c].job
        BY <2>1 DEF Inv, MessageInv
    <2>3. call[c].pg # 0 /\ call[c].pg \in 0 .. MaxGen /\ call[c].rg \in Nat
        BY <2>2, TypeParts DEF Gens, Inv, Calls
    <2>4. Past(call[c].pg, call[c].rg)'
        <3> DEFINE pg == call[c].pg
                   rg == call[c].rg
        <3>1. Past(pg, rg) /\ pg \in 0 .. MaxGen /\ rg \in Nat
            BY <2>2, <2>3
        <3>2. \/ pg < broker'.gen
              \/ pg = broker'.gen /\ rg <= broker'.rgen
            BY <3>1 DEF Past
        <3> QED
            BY <2>1, <3>2 DEF Past
    <2> QED
        BY <2>1, <2>2, <2>3, <2>4 DEF Echo
<1> QED
    BY <1>2, <1>3 DEF MessageInv

LEMMA ShedsKeep ==
    ASSUME Inv, Sheds, CallsShift, StartShift, DownShift, UNCHANGED <<jobSlot, jobs>>,
           faults' \in 0 .. MaxFaults
    PROVE  Inv'
<1> USE Bounds
<1>1. broker \in Brokers /\ start \in Starts /\ call \in [Callers -> Calls]
    BY TypeParts DEF Inv
<1>2. TypeOK'
    <2>1. start' \in Starts
        BY <1>1 DEF StartShift, Starts, NoGen
    <2>2. down' \in Downs
        BY TypeParts DEF Inv, DownShift, Downs
    <2> QED
        BY <2>1, <2>2, TypePartsNext, TypeParts DEF Inv, Sheds, CallsShift
<1>3. StartInv'
    <2>1. broker'.handle \in {broker.handle, NoGen} /\ broker'.slot \in {broker.slot, NoGen}
          /\ broker'.gen = broker.gen /\ broker.gen \in 0 .. MaxGen
          /\ (broker'.handle # NoGen => broker'.slot = broker.slot)
        BY <1>1 DEF Sheds, Brokers
    <2>2. start' = start \/ start'.pc \in {"done", "create"}
        BY DEF StartShift
    <2> QED
        BY <1>1, <2>1, <2>2 DEF StartInv, Inv, NoGen
<1>4. NoLostChild' /\ NoLeakedSlot'
    <2>1. start.pc \in {"spawn", "spawned"} => start' = start
        BY DEF StartShift
    <2>2. ASSUME NEW g \in Gens, child'[g].pc # "gone"
          PROVE  g = broker'.handle \/ (g = start'.gen /\ start'.pc = "spawned")
        BY <2>1, <2>2 DEF Sheds, Inv, NoLostChild, Alive
    <2>3. ASSUME NEW g \in Gens, ipc'[g].open
          PROVE  g = broker'.slot \/ (g = start'.gen /\ start'.pc \in {"spawn", "spawned"})
        BY <2>1, <2>3 DEF Sheds, Inv, NoLeakedSlot
    <2> QED
        BY <2>2, <2>3 DEF NoLostChild, NoLeakedSlot, Alive
<1>5. ThreadInv' /\ AnswersOwnJob'
    BY DEF Inv, ThreadInv, AnswersOwnJob, CallsShift
<1>6. DownInv'
    <2>1. down' # "up" => broker'.quiesced
        BY DEF Inv, DownInv, DownShift, Sheds
    <2>2. down' \notin {"up", "await_start"} => start'.pc = "done"
        BY DEF Inv, DownInv, DownShift, StartShift
    <2>3. down' = "down" => /\ broker'.handle = NoGen /\ broker'.slot = NoGen
                            /\ \A c \in Callers : call'[c].thread \notin {"submit", "poll"}
        BY DEF Inv, DownInv, DownShift, Sheds, CallsShift
    <2> QED
        BY <2>1, <2>2, <2>3 DEF DownInv
<1>7. MessageInv'
    <2>1. \A pg \in 0 .. MaxGen, rg \in Nat : Past(pg, rg) => Past(pg, rg)'
        BY DEF Sheds, Past
    <2>2. \A g \in Gens : \A m \in MessagesIn(g)' : Echo(g, m)
        BY DEF Sheds, MessagesIn, Dull, NoMsg, Echo
    <2>3. \A g \in Gens : ipc'[g].resp.kind # "render"
        BY DEF Inv, MessageInv, Sheds, Dull
    <2> QED
        BY <2>1, <2>2, <2>3, MessagesKept DEF Sheds
<1> QED
    BY <1>2, <1>3, <1>4, <1>5, <1>6, <1>7 DEF Inv

LEMMA CallsStay == Inv /\ call' = call => CallsShift
BY TypeParts DEF Inv, CallsShift

LEMMA CallMoves ==
    ASSUME Inv, NEW c \in Callers, NEW next \in Calls, call' = [call EXCEPT ![c] = next],
           \/ next.thread = "none" /\ next.out = "none"
           \/ /\ next.thread = call[c].thread /\ next.job = call[c].job
              /\ next.pg = call[c].pg /\ next.rg = call[c].rg
              /\ next.out = call[c].out /\ next.answer = call[c].answer
    PROVE  CallsShift
<1>1. call \in [Callers -> Calls]
    BY TypeParts DEF Inv
<1> QED
    BY <1>1 DEF CallsShift

LEMMA NoCallFields == NoCall \in Calls /\ NoCall.thread = "none" /\ NoCall.out = "none"
BY Empties DEF NoCall

LEMMA Faults == Inv => /\ faults \in 0 .. MaxFaults
                       /\ CanFail /\ Spend => faults' \in 0 .. MaxFaults
BY Bounds, TypeParts DEF Inv, CanFail, Spend

LEMMA StartEndsCalls == ASSUME Inv, StartEnds PROVE CallsShift
<1>1. call \in [Callers -> Calls]
    BY TypeParts DEF Inv
<1>2. ASSUME NEW c \in Callers
      PROVE  /\ AfterStart(c) \in Calls
             /\ \/ AfterStart(c).thread = "none" /\ AfterStart(c).out = "none"
                \/ /\ AfterStart(c).thread = call[c].thread /\ AfterStart(c).job = call[c].job
                   /\ AfterStart(c).pg = call[c].pg /\ AfterStart(c).rg = call[c].rg
                   /\ AfterStart(c).out = call[c].out /\ AfterStart(c).answer = call[c].answer
    BY <1>1, NoCallFields DEF AfterStart, Calls
<1>3. call' = [c \in Callers |-> AfterStart(c)]
    BY DEF StartEnds
<1> QED
    BY <1>2, <1>3 DEF CallsShift

LEMMA StartEndsShifts ==
    ASSUME Inv, StartEnds, start.pc \in {"create", "boot"} PROVE CallsShift /\ StartShift
BY StartEndsCalls DEF StartEnds, StartShift

LEMMA ReadyTyped ==
    ASSUME Inv, broker' = [broker EXCEPT !.ready = TRUE]
    PROVE  /\ broker' \in Brokers
           /\ broker'.handle = broker.handle /\ broker'.slot = broker.slot
           /\ broker'.gen = broker.gen /\ broker'.rgen = broker.rgen
           /\ broker'.quiesced = broker.quiesced
<1>1. broker \in Brokers
    BY TypeParts DEF Inv
<1>2. broker' \in Brokers
    BY <1>1, Zenon DEF Brokers
<1>3. /\ broker'.handle = broker.handle /\ broker'.slot = broker.slot
      /\ broker'.gen = broker.gen /\ broker'.rgen = broker.rgen
    BY <1>1 DEF Brokers
<1>4. broker'.quiesced = broker.quiesced
    BY <1>1, Zenon DEF Brokers
<1> QED
    BY <1>2, <1>3, <1>4

LEMMA FatalTyped ==
    ASSUME Inv, NEW f \in Fatals, broker' = [broker EXCEPT !.fatal = f]
    PROVE  /\ broker' \in Brokers
           /\ broker'.handle = broker.handle /\ broker'.slot = broker.slot
           /\ broker'.gen = broker.gen /\ broker'.rgen = broker.rgen
           /\ broker'.quiesced = broker.quiesced
<1>1. broker \in Brokers
    BY TypeParts DEF Inv
<1>2. broker' \in Brokers
    BY <1>1, Zenon DEF Brokers
<1>3. /\ broker'.handle = broker.handle /\ broker'.slot = broker.slot
      /\ broker'.gen = broker.gen /\ broker'.rgen = broker.rgen
    BY <1>1 DEF Brokers
<1>4. broker'.quiesced = broker.quiesced
    BY <1>1, Zenon DEF Brokers
<1> QED
    BY <1>2, <1>3, <1>4

\* The start task, while it makes nothing new.
LEMMA StartTaskSheds ==
    ASSUME Inv, StartNotNeeded \/ StartReady \/ StartInvalid \/ StartFindsClosed \/ StartTimesOut
    PROVE  Inv'
<1>1. CASE StartNotNeeded
    <2>1. Sheds
        BY <1>1, ReconciledSheds DEF StartNotNeeded
    <2>2. CallsShift /\ StartShift
        BY <1>1, StartEndsShifts DEF StartNotNeeded
    <2> QED
        BY <1>1, <2>1, <2>2, ShedsKeep, Faults DEF StartNotNeeded, DownShift
<1>2. CASE StartReady
    <2>1. /\ broker' \in Brokers /\ broker'.handle = broker.handle
          /\ broker'.slot = broker.slot /\ broker'.gen = broker.gen
          /\ broker'.rgen = broker.rgen /\ broker'.quiesced = broker.quiesced
        BY <1>2, ReadyTyped DEF StartReady
    <2>2. /\ ipc \in [Gens -> Slots] /\ child \in [Gens -> Children]
          /\ start.gen \in Gens
        BY <1>2, TypeParts DEF Inv, StartInv, StartReady, Announced
    <2>3. ipc' = [ipc EXCEPT ![start.gen].resp = NoMsg]
        BY <1>2 DEF StartReady
    <2> DEFINE s == [ipc[start.gen] EXCEPT !.resp = NoMsg]
    <2>4. s \in Slots /\ s.resp = NoMsg
        BY <2>2, Empties, Zenon DEF Slots
    <2>5. s.open = ipc[start.gen].open /\ s.req = ipc[start.gen].req
        BY <2>2, Zenon DEF Slots
    <2>6. ipc' = [ipc EXCEPT ![start.gen] = s]
        BY <2>3, Zenon
    <2> HIDE DEF s
    <2>7. /\ ipc' \in [Gens -> Slots]
          /\ \A g \in Gens : /\ ipc'[g].open = ipc[g].open /\ ipc'[g].req = ipc[g].req
                             /\ ipc'[g].resp = ipc[g].resp \/ ipc'[g].resp = NoMsg
        BY <2>2, <2>4, <2>5, <2>6
    <2>8. Dull(NoMsg)
        BY DEF Dull, NoMsg
    <2>9. Sheds
        BY <1>2, <2>1, <2>2, <2>7, <2>8 DEF Sheds, StartReady
    <2>10. CallsShift /\ StartShift
        BY <1>2, StartEndsShifts DEF StartReady, Announced
    <2> QED
        BY <1>2, <2>9, <2>10, ShedsKeep, Faults DEF StartReady, DownShift
<1>3. CASE StartInvalid
    <2>1. "readiness_invalid" \in Fatals
        BY DEF Fatals
    <2>2. Sheds
        BY <1>3, <2>1, StopRefusedSheds, DropSheds DEF StartInvalid
    <2>3. CallsShift /\ StartShift
        BY <1>3, StartEndsShifts DEF StartInvalid, Announced
    <2> QED
        BY <1>3, <2>2, <2>3, ShedsKeep, Faults DEF StartInvalid, DownShift, StopRefused
<1>4. CASE StartFindsClosed
    <2>1. Sheds
        BY <1>4, FlagsShed, TypeParts DEF Inv, StartFindsClosed
    <2>2. CallsShift /\ StartShift
        BY <1>4, StartEndsShifts DEF StartFindsClosed, Announced
    <2> QED
        BY <1>4, <2>1, <2>2, ShedsKeep, Faults DEF StartFindsClosed, DownShift
<1>5. CASE StartTimesOut
    <2> DEFINE dead == broker.handle = start.gen /\ ~Alive(start.gen)
    <2>1. "readiness_timeout" \in Fatals /\ broker \in Brokers
        BY TypeParts DEF Fatals, Inv
    <2>2. start.gen \in Gens
        BY <1>5 DEF Inv, StartInv, StartTimesOut
    <2>3. ASSUME dead PROVE Sheds
        <3>1. broker' = [Dropped(broker) EXCEPT !.ready = FALSE, !.fatal = "readiness_timeout"]
            BY <1>5, <2>3 DEF StartTimesOut
        <3> DEFINE d == Dropped(broker)
        <3>2. /\ d \in Brokers /\ d.handle = NoGen /\ d.slot = NoGen
              /\ d.gen = broker.gen /\ d.rgen = broker.rgen /\ d.quiesced = broker.quiesced
            BY <2>1, BrokerFields
        <3>3. broker' = Unready(d, "readiness_timeout")
            BY <3>1 DEF Unready
        <3> HIDE DEF d
        <3>4. /\ broker' \in Brokers /\ broker'.handle = d.handle /\ broker'.slot = d.slot
              /\ broker'.gen = d.gen /\ broker'.rgen = d.rgen /\ broker'.quiesced = d.quiesced
            BY <2>1, <3>2, <3>3, UnreadyFields
        <3>5. broker.slot = start.gen
            BY <2>2, <2>3 DEF Inv, StartInv, Gens, NoGen
        <3>6. ipc' = CloseSlot(broker.slot) /\ child' = child /\ ~Alive(broker.handle)
            BY <1>5, <2>3, <3>5 DEF StartTimesOut
        <3> QED
            BY <3>2, <3>4, <3>6, DropsShed
    <2>4. ASSUME ~dead PROVE Sheds
        <3>1. broker' = Unready(broker, "readiness_timeout")
            BY <1>5, <2>4 DEF StartTimesOut, Unready
        <3>2. /\ broker' \in Brokers
              /\ broker'.handle = broker.handle /\ broker'.slot = broker.slot
              /\ broker'.gen = broker.gen /\ broker'.rgen = broker.rgen
              /\ broker'.quiesced = broker.quiesced
            BY <2>1, <3>1, UnreadyFields
        <3> QED
            BY <1>5, <2>4, <3>2, FlagsShed DEF StartTimesOut
    <2>5. CallsShift /\ StartShift
        BY <1>5, StartEndsShifts DEF StartTimesOut
    <2>6. faults' \in 0 .. MaxFaults
        BY <1>5, Faults DEF StartTimesOut
    <2>7. DownShift /\ UNCHANGED <<jobSlot, jobs>>
        BY <1>5 DEF StartTimesOut, DownShift
    <2> QED
        BY <2>3, <2>4, <2>5, <2>6, <2>7, ShedsKeep
<1> QED
    BY <1>1, <1>2, <1>3, <1>4, <1>5

\* A recovery or a cancelled wait moves a caller on; its thread knows nothing of it.
CallPcs == {"idle", "wait", "recover", "recovered", "start_wait", "drain", "delayed",
            "final_wait"}

LEMMA CallWalks ==
    ASSUME Inv, NEW c \in Callers, NEW pc \in CallPcs, call' = [call EXCEPT ![c].pc = pc]
    PROVE  CallsShift
<1> DEFINE next == [call[c] EXCEPT !.pc = pc]
<1>1. call[c] \in Calls
    BY TypeParts DEF Inv
<1>2. next \in Calls
    BY <1>1 DEF Calls, CallPcs
<1>3. /\ next.thread = call[c].thread /\ next.job = call[c].job
      /\ next.pg = call[c].pg /\ next.rg = call[c].rg
      /\ next.out = call[c].out /\ next.answer = call[c].answer
    BY <1>1 DEF Calls
<1>4. call' = [call EXCEPT ![c] = next]
    OBVIOUS
<1> HIDE DEF next
<1> QED
    BY <1>2, <1>3, <1>4, CallMoves

LEMMA CallLeaves ==
    ASSUME Inv, NEW c \in Callers,
           call' = [call EXCEPT ![c] = NoCall] \/ call' = [call EXCEPT ![c] = Unstarted(c)]
    PROVE  CallsShift
<1>1. ASSUME call' = [call EXCEPT ![c] = NoCall] PROVE CallsShift
    BY <1>1, NoCallFields, CallMoves
<1>2. CASE call' = [call EXCEPT ![c] = Unstarted(c)] /\ call[c].why = "cancel"
    <2>1. call' = [call EXCEPT ![c].pc = "drain"]
        BY <1>2 DEF Unstarted
    <2> QED
        BY <2>1, CallWalks DEF CallPcs
<1>3. CASE call' = [call EXCEPT ![c] = Unstarted(c)] /\ call[c].why # "cancel"
    BY <1>1, <1>3 DEF Unstarted
<1> QED
    BY <1>1, <1>2, <1>3

LEMMA Starting ==
    ASSUME Inv, StartJoined, ~broker.quiesced PROVE StartShift
BY DEF StartJoined, StartShift, Inv, DownInv

LEMMA RecoveryStopSheds ==
    ASSUME Inv, NEW c \in Callers,
           RecoverStops(c) \/ RecoverKillErrors(c) \/ RecoverIncomplete(c)
    PROVE  Inv'
<1> USE DEF StartShift, DownShift
<1>1. CASE RecoverStops(c) \/ RecoverKillErrors(c)
    <2>1. Sheds
        BY <1>1, StopConfirmedSheds, StopLateSheds DEF RecoverStops, RecoverKillErrors, Fatals
    <2>2. CallsShift
        BY <1>1, CallWalks DEF RecoverStops, RecoverKillErrors, CallPcs
    <2>3. faults' \in 0 .. MaxFaults
        BY <1>1, Faults DEF RecoverStops, RecoverKillErrors, StopConfirmed, StopLate
    <2> QED
        BY <1>1, <2>1, <2>2, <2>3, ShedsKeep DEF RecoverStops, RecoverKillErrors
<1>2. CASE RecoverIncomplete(c)
    <2>0. PICK reason \in {ReasonOf(call[c].why), "kill_refused"} : StopRefused(reason)
        BY <1>2 DEF RecoverIncomplete
    <2>1. call[c] \in Calls
        BY TypeParts DEF Inv
    <2>2. reason \in Fatals
        BY <2>0, <2>1 DEF ReasonOf, Calls, Fatals
    <2>3. Sheds
        BY <2>0, <2>2, StopRefusedSheds
    <2>4. CallsShift
        BY <1>2, CallLeaves DEF RecoverIncomplete
    <2>5. faults' \in 0 .. MaxFaults
        BY <2>0, Faults DEF StopRefused
    <2> QED
        BY <1>2, <2>3, <2>4, <2>5, ShedsKeep DEF RecoverIncomplete
<1> QED
    BY <1>1, <1>2

LEMMA RecoverStartsSheds == ASSUME Inv, NEW c \in Callers, RecoverStarts(c) PROVE Inv'
<1>1. Sheds
    <2>1. CASE call[c].why = "ipc_corrupt"
        <3> DEFINE f == IF broker.fatal = "none" THEN "ipc_corrupt" ELSE broker.fatal
        <3>1. f \in Fatals /\ broker' = [broker EXCEPT !.fatal = f]
            BY <2>1, TypeParts DEF RecoverStarts, Fatals, Inv, Brokers
        <3> HIDE DEF f
        <3>2. UNCHANGED <<child, ipc>>
            BY <2>1 DEF RecoverStarts
        <3> QED
            BY <3>1, <3>2, FatalTyped, FlagsShed
    <2>2. CASE call[c].why # "ipc_corrupt"
        BY <2>2, ReconciledSheds DEF RecoverStarts
    <2> QED
        BY <2>1, <2>2
<1>2. CallsShift
    BY CallLeaves, CallWalks DEF RecoverStarts, CallPcs
<1>3. StartShift
    BY Starting DEF RecoverStarts, StartShift
<1> QED
    BY <1>1, <1>2, <1>3, ShedsKeep, Faults DEF RecoverStarts, DownShift

LEMMA DelayedRestartSheds == ASSUME Inv, NEW c \in Callers, DelayedRestart(c) PROVE Inv'
<1> DEFINE late == broker.fatal = "cancelled" /\ ~Alive(broker.handle)
<1>1. child' = child /\ UNCHANGED <<jobSlot, down, jobs, faults>>
    BY DEF DelayedRestart
<1>2. Sheds
    <2>1. CASE late
        <3>1. /\ broker' = [Dropped(broker) EXCEPT !.fatal = "none"] /\ "none" \in Fatals
              /\ ipc' = CloseSlot(broker.slot) /\ ~Alive(broker.handle)
            BY <2>1 DEF DelayedRestart, Fatals
        <3> QED
            BY <1>1, <3>1, DropSheds
    <2>2. CASE ~late
        <3>1. broker' = Reconciled /\ ipc' = ReconciledSlots
            BY <2>2 DEF DelayedRestart
        <3> QED
            BY <1>1, <3>1, ReconciledSheds
    <2> QED
        BY <2>1, <2>2
<1>3. \/ call' = [call EXCEPT ![c] = NoCall] /\ start' = start
      \/ call' = [call EXCEPT ![c].pc = "final_wait"] /\ StartJoined /\ ~broker'.quiesced
    BY Zenon DEF DelayedRestart
<1>4. CallsShift
    BY <1>3, CallLeaves, CallWalks DEF CallPcs
<1>5. StartShift
    BY <1>2, <1>3, Starting DEF StartShift, Sheds
<1> QED
    BY <1>1, <1>2, <1>4, <1>5, ShedsKeep, Faults DEF DownShift

LEMMA CancelSheds ==
    ASSUME Inv, NEW c \in Callers, Cancel(c) \/ CancelStartWait(c) PROVE Inv'
<1>1. UNCHANGED <<broker, jobSlot, start, child, ipc, down, jobs, faults>>
    BY DEF Cancel, CancelStartWait
<1>2. Sheds
    BY <1>1, FlagsShed, TypeParts DEF Inv
<1>3. CASE Cancel(c)
    <2> DEFINE next == [call[c] EXCEPT !.pc = "recover", !.why = "cancel"]
    <2>1. call[c] \in Calls
        BY TypeParts DEF Inv
    <2>2. /\ next \in Calls
          /\ next.thread = call[c].thread /\ next.job = call[c].job
          /\ next.pg = call[c].pg /\ next.rg = call[c].rg
          /\ next.out = call[c].out /\ next.answer = call[c].answer
        BY <2>1 DEF Calls
    <2>3. call' = [call EXCEPT ![c] = next]
        BY <1>3 DEF Cancel
    <2> HIDE DEF next
    <2>4. CallsShift
        BY <2>2, <2>3, CallMoves
    <2> QED
        BY <1>1, <1>2, <2>4, ShedsKeep, Faults DEF StartShift, DownShift
<1>4. CASE CancelStartWait(c)
    BY <1>1, <1>2, <1>4, CallLeaves, ShedsKeep, Faults DEF CancelStartWait, StartShift, DownShift
<1> QED
    BY <1>3, <1>4

\* The child dies, a status request reads pid or ready, the owner starts or
\* shuts down.
LEMMA ChildDiesSheds == ASSUME Inv, NEW g \in Gens, ChildDies(g) PROVE Inv'
<1>1. Sheds
    <2>1. g \in 0 .. MaxGen
        BY Bounds DEF Gens
    <2>2. child' = KillChild(g) /\ UNCHANGED <<broker, ipc>>
        BY DEF ChildDies
    <2>3. TypeOK /\ broker \in Brokers /\ ipc \in [Gens -> Slots] /\ broker.handle \in 0 .. MaxGen
        BY TypeParts DEF Inv, Brokers
    <2> QED
        BY <2>1, <2>2, <2>3, KilledChildren DEF Sheds
<1>2. faults' \in 0 .. MaxFaults
    BY Faults DEF ChildDies
<1> QED
    BY <1>1, <1>2, CallsStay, ShedsKeep DEF ChildDies, StartShift, DownShift

LEMMA ReadSheds == ASSUME Inv, ReadPid \/ ReadReady PROVE Inv'
<1>1. CASE ReadReady
    <2>1. Sheds
        BY <1>1, ReconciledSheds DEF ReadReady
    <2> QED
        BY <1>1, <2>1, CallsStay, ShedsKeep, Faults DEF ReadReady, StartShift, DownShift
<1>2. CASE ReadPid
    <2>1. Reconciled = broker
        <3>1. ASSUME Reconcilable PROVE Reconciled.handle = NoGen
            <4>1. Reconciled = [Dropped(broker) EXCEPT !.fatal = "none"] /\ "none" \in Fatals
                BY <3>1 DEF Reconciled, Fatals
            <4> QED
                BY <4>1, DroppedBroker DEF Inv
        <3> QED
            BY <1>2, <3>1 DEF ReadPid, Reconciled
    <2>2. CASE broker' = Dropped(broker)
        <3>1. child' = KillChild(broker.handle) /\ ipc' = CloseSlot(broker.slot) /\ UNCHANGED faults
            <4>1. broker.handle # NoGen
                BY <1>2, <2>1 DEF ReadPid
            <4>2. broker \in Brokers
                BY TypeParts DEF Inv
            <4>3. Dropped(broker) # broker
                BY <4>1, <4>2, BrokerFields
            <4> QED
                BY <1>2, <2>1, <2>2, <4>3 DEF ReadPid
        <3>2. Sheds
            BY <2>2, <3>1, BrokerFields, TypeParts, DropsShed DEF Inv
        <3> QED
            BY <1>2, <3>1, <3>2, CallsStay, ShedsKeep, Faults DEF ReadPid, StartShift, DownShift
    <2>3. CASE broker' # Dropped(broker)
        <3>1. /\ Alive(broker.handle) /\ child' = Signalled(broker.handle)
              /\ CanFail /\ Spend /\ UNCHANGED <<broker, ipc>>
            BY <1>2, <2>1, <2>3 DEF ReadPid
        <3>2. /\ child' \in [Gens -> Children]
              /\ \A g \in Gens : child'[g].pc = child[g].pc /\ child'[g].job = child[g].job
            BY <3>1, SignalledChildren, TypeParts DEF Inv, Alive
        <3>3. Sheds
            BY <3>1, <3>2, TypeParts DEF Inv, Sheds
        <3> QED
            BY <1>2, <3>1, <3>3, CallsStay, ShedsKeep, Faults DEF ReadPid, StartShift, DownShift
    <2> QED
        BY <2>2, <2>3
<1> QED
    BY <1>1, <1>2

LEMMA OwnerStartSheds == ASSUME Inv, OwnerStart PROVE Inv'
<1>1. Sheds
    BY FlagsShed, TypeParts DEF OwnerStart, Inv
<1> QED
    BY <1>1, CallsStay, ShedsKeep, Faults DEF OwnerStart, StartShift, DownShift

LEMMA ShutdownQuiesces == Inv /\ ShutdownBegins => broker'.quiesced
BY TypeParts, Zenon DEF Inv, ShutdownBegins, Brokers

LEMMA ShutdownSheds ==
    ASSUME Inv, ShutdownBegins \/ ShutdownStops \/ ShutdownLeavesThread PROVE
        /\ Sheds
        /\ faults' \in 0 .. MaxFaults
        /\ UNCHANGED <<jobSlot, start, call, jobs>>
<1>1. CASE ShutdownBegins
    <2>1. broker' = [broker EXCEPT !.quiesced = TRUE] /\ broker \in Brokers
        BY <1>1, TypeParts DEF ShutdownBegins, Inv
    <2>2. broker' \in Brokers
        BY <2>1, Zenon DEF Brokers
    <2>3. /\ broker'.handle = broker.handle /\ broker'.slot = broker.slot
          /\ broker'.gen = broker.gen /\ broker'.rgen = broker.rgen
        BY <2>1 DEF Brokers
    <2>4. broker'.quiesced = TRUE
        BY <2>1, Zenon DEF Brokers
    <2> QED
        BY <1>1, <2>2, <2>3, <2>4, FlagsShed, Faults DEF ShutdownBegins
<1>2. CASE ShutdownStops
    <2>1. CASE StopConfirmed
        BY <1>2, <2>1, StopConfirmedSheds, Faults DEF ShutdownStops, StopConfirmed
    <2>2. CASE \E reason \in {"shutdown_failed", "kill_refused"} : StopRefused(reason)
        <3>0. PICK reason \in {"shutdown_failed", "kill_refused"} : StopRefused(reason)
            BY <2>2
        <3> QED
            BY <1>2, <3>0, StopRefusedSheds, Faults DEF ShutdownStops, StopRefused, Fatals
    <2> QED
        BY <1>2, <2>1, <2>2 DEF ShutdownStops
<1>3. CASE ShutdownLeavesThread
    <2> DEFINE f == IF broker.fatal = "none" THEN "thread_alive" ELSE broker.fatal
    <2>1. f \in Fatals /\ broker' = [broker EXCEPT !.fatal = f]
        BY <1>3, TypeParts DEF ShutdownLeavesThread, Fatals, Inv, Brokers
    <2> HIDE DEF f
    <2> QED
        BY <1>3, <2>1, FatalTyped, FlagsShed, Faults DEF ShutdownLeavesThread
<1> QED
    BY <1>1, <1>2, <1>3

LEMMA ShutdownKeeps ==
    ASSUME Inv, ShutdownBegins \/ ShutdownStops \/ ShutdownLeavesThread PROVE Inv'
<1>1. DownShift
    BY ShutdownSheds, ShutdownQuiesces DEF ShutdownBegins, ShutdownStops, ShutdownLeavesThread,
                                           DownShift
<1> QED
    BY <1>1, ShutdownSheds, CallsStay, ShedsKeep DEF StartShift

LEMMA ShutdownJoinsKeeps == ASSUME Inv, ShutdownJoins PROVE Inv'
<1>1. CASE Alive(broker.handle)
    <2>1. Sheds
        BY <1>1, FlagsShed, TypeParts DEF ShutdownJoins, Inv
    <2> QED
        BY <1>1, <2>1, CallsStay, ShedsKeep, Faults DEF ShutdownJoins, StartShift, DownShift
<1>2. CASE ~Alive(broker.handle)
    <2> DEFINE f == IF broker.fatal = "shutdown_failed" THEN "none" ELSE broker.fatal
    <2>1. broker \in Brokers /\ Dropped(broker).fatal = broker.fatal
        BY TypeParts, BrokerFields DEF Inv
    <2>2. f \in Fatals
        BY <2>1 DEF Fatals, Brokers
    <2>3. broker' = [Dropped(broker) EXCEPT !.fatal = f]
        BY <1>2, <2>1 DEF ShutdownJoins
    <2> HIDE DEF f
    <2>4. broker'.handle = NoGen /\ broker'.slot = NoGen
        BY <2>2, <2>3, DroppedBroker DEF Inv
    <2>5. Sheds
        BY <1>2, <2>2, <2>3, DropSheds DEF ShutdownJoins
    <2>6. DownShift
        BY <1>2, <2>4 DEF ShutdownJoins, DownShift, ThreadsDone, LiveThread
    <2> QED
        BY <2>5, <2>6, CallsStay, ShedsKeep, Faults DEF ShutdownJoins, StartShift
<1> QED
    BY <1>1, <1>2

-----------------------------------------------------------------------------
(* The start task makes a slot and a child, and records them.                *)

LEMMA SpawnsKeep == ASSUME Inv, Spawns PROVE Inv'
<1> USE Bounds
<1>1. /\ start.gen \in Gens /\ start \in Starts /\ child \in [Gens -> Children]
      /\ broker \in Brokers
    BY TypeParts DEF Inv, StartInv, Spawns
<1> DEFINE s == [child[start.gen] EXCEPT !.pc = "boot"]
<1>2. s \in Children /\ s.job = child[start.gen].job
    BY <1>1 DEF Children
<1>3. child' = [child EXCEPT ![start.gen] = s]
    BY DEF Spawns
<1> HIDE DEF s
<1>4. /\ child' \in [Gens -> Children]
      /\ \A g \in Gens : g # start.gen => child'[g] = child[g]
      /\ \A g \in Gens : child'[g].job = child[g].job
    BY <1>1, <1>2, <1>3
<1>5. /\ start' \in Starts /\ start'.pc = "spawned" /\ start'.gen = start.gen
      /\ UNCHANGED <<broker, jobSlot, ipc, call, down, jobs, faults>> /\ start.pc = "spawn"
    BY <1>1 DEF Spawns, Starts
<1>6. TypeOK'
    BY <1>4, <1>5, TypeParts, TypePartsNext DEF Inv
<1>7. StartInv' /\ ThreadInv' /\ DownInv' /\ AnswersOwnJob'
    BY <1>5 DEF Inv, StartInv, ThreadInv, DownInv, AnswersOwnJob
<1>8. NoLostChild' /\ NoLeakedSlot'
    BY <1>4, <1>5 DEF Inv, NoLostChild, NoLeakedSlot, Alive
<1>9. MessageInv'
    <2>1. \A g \in Gens : \A m \in MessagesIn(g)' : Echo(g, m)
        BY <1>4, <1>5 DEF MessagesIn, Echo
    <2> QED
        BY <1>1, <1>5, <2>1, MessagesKept, CallsStay DEF Inv, MessageInv, Past
<1> QED
    BY <1>6, <1>7, <1>8, <1>9 DEF Inv

LEMMA SpawnFailsKeeps == ASSUME Inv, SpawnFails PROVE Inv'
<1> USE Bounds
<1>1. /\ start.gen \in Gens /\ start.gen \in 0 .. MaxGen /\ start.pc = "spawn"
      /\ UNCHANGED <<jobSlot, child, down, jobs>> /\ ipc' = CloseSlot(start.gen)
    BY DEF Inv, StartInv, SpawnFails, Gens
<1>2. /\ broker' \in Brokers /\ broker'.handle = broker.handle
      /\ broker'.slot = broker.slot /\ broker'.gen = broker.gen
      /\ broker'.rgen = broker.rgen /\ broker'.quiesced = broker.quiesced
    BY FatalTyped DEF SpawnFails, Fatals
<1>3. CallsShift /\ start' = [pc |-> "done", gen |-> NoGen]
    BY StartEndsCalls DEF SpawnFails, StartEnds
<1>4. /\ ipc' \in [Gens -> Slots]
      /\ \A g \in Gens : ipc'[g].open => ipc[g].open /\ g # start.gen
      /\ \A g \in Gens : /\ ipc'[g].req \in {ipc[g].req, NoMsg}
                         /\ ipc'[g].resp = ipc[g].resp \/ Dull(ipc'[g].resp)
    BY <1>1, ClosedSlots DEF Inv, MessageInv
<1>5. TypeOK'
    <2>1. start' \in Starts
        BY <1>3 DEF Starts, NoGen
    <2>2. faults' \in 0 .. MaxFaults
        BY Faults DEF SpawnFails
    <2> QED
        BY <1>1, <1>2, <1>3, <1>4, <2>1, <2>2, TypeParts, TypePartsNext DEF Inv, CallsShift
<1>6. StartInv' /\ DownInv'
    BY <1>1, <1>2, <1>3 DEF Inv, StartInv, DownInv
<1>7. ThreadInv' /\ AnswersOwnJob'
    BY <1>1, <1>3 DEF Inv, ThreadInv, AnswersOwnJob, CallsShift
<1>8. NoLostChild' /\ NoLeakedSlot'
    BY <1>1, <1>2, <1>3, <1>4 DEF Inv, NoLostChild, NoLeakedSlot, Alive
<1>9. MessageInv'
    <2>1. \A g \in Gens : \A m \in MessagesIn(g)' : Echo(g, m)
        BY <1>1, <1>4 DEF MessagesIn, Echo, Dull, NoMsg
    <2>2. \A g \in Gens : ipc'[g].resp.kind # "render"
        BY <1>4 DEF Inv, MessageInv, Dull
    <2> QED
        BY <1>2, <1>3, <2>1, <2>2, MessagesKept DEF Past
<1> QED
    BY <1>5, <1>6, <1>7, <1>8, <1>9 DEF Inv

LEMMA StartRecordsKeeps == ASSUME Inv, StartRecords PROVE Inv'
<1> USE Bounds
<1>1. /\ start.gen \in Gens /\ start.gen \in 0 .. MaxGen /\ start.pc = "spawned"
      /\ start \in Starts /\ broker \in Brokers
      /\ broker.handle = NoGen /\ broker.slot = NoGen /\ start.gen = broker.gen + 1
      /\ UNCHANGED <<jobSlot, child, ipc, call, down, jobs, faults>>
    BY TypeParts DEF Inv, StartInv, StartRecords, Gens
<1>2. start' \in Starts /\ start'.pc = "boot" /\ start'.gen = start.gen
    BY <1>1 DEF StartRecords, Starts
<1>3. broker' = [broker EXCEPT !.handle = start.gen, !.slot = start.gen,
                               !.ready = FALSE, !.gen = start.gen, !.rgen = 0]
    BY DEF StartRecords
<1>4. broker' \in Brokers
    BY <1>1, <1>3, Zenon DEF Brokers
<1>5. broker'.handle = start.gen /\ broker'.slot = start.gen /\ broker'.gen = start.gen
    BY <1>1, <1>3 DEF Brokers
<1>6. broker'.quiesced = broker.quiesced
    BY <1>1, <1>3, Zenon DEF Brokers
<1>7. TypeOK'
    BY <1>1, <1>2, <1>4, TypeParts, TypePartsNext DEF Inv
<1>8. StartInv' /\ ThreadInv' /\ AnswersOwnJob'
    BY <1>1, <1>2, <1>5 DEF Inv, StartInv, ThreadInv, AnswersOwnJob
<1>9. DownInv'
    BY <1>1, <1>2, <1>6 DEF Inv, DownInv
<1>10. NoLostChild' /\ NoLeakedSlot'
    BY <1>1, <1>2, <1>5 DEF Inv, NoLostChild, NoLeakedSlot, Alive, Gens, NoGen
<1>11. MessageInv'
    <2>1. \A g \in Gens : \A m \in MessagesIn(g)' : Echo(g, m)
        BY <1>1 DEF MessagesIn, Echo
    <2>2. \A pg \in 0 .. MaxGen, rg \in Nat : Past(pg, rg) => Past(pg, rg)'
        BY <1>1, <1>5 DEF Past, Brokers
    <2> QED
        BY <1>1, <1>4, <2>1, <2>2, MessagesKept, CallsStay DEF Inv, MessageInv
<1> QED
    BY <1>7, <1>8, <1>9, <1>10, <1>11 DEF Inv

LEMMA ClearedFields ==
    ASSUME NEW b \in Brokers, NEW next, next = [b EXCEPT !.handle = NoGen, !.slot = NoGen]
    PROVE  /\ next \in Brokers /\ next.handle = NoGen /\ next.slot = NoGen
           /\ next.gen = b.gen /\ next.rgen = b.rgen /\ next.quiesced = b.quiesced
<1>1. NoGen \in 0 .. MaxGen
    BY Bounds DEF NoGen
<1>2. next \in Brokers
    BY <1>1, Zenon DEF Brokers
<1>3. next.handle = NoGen /\ next.slot = NoGen /\ next.gen = b.gen /\ next.rgen = b.rgen
    BY DEF Brokers
<1>4. next.quiesced = b.quiesced
    BY Zenon DEF Brokers
<1> QED
    BY <1>2, <1>3, <1>4

LEMMA StartCreatesKeeps == ASSUME Inv, StartCreates PROVE Inv'
<1> USE Bounds
<1> DEFINE next == broker.gen + 1
           new == [open |-> TRUE, req |-> NoMsg, resp |-> NoMsg]
<1>1. /\ next \in Gens /\ next \in 0 .. MaxGen /\ start.pc = "create"
      /\ broker \in Brokers /\ broker.slot \in 0 .. MaxGen /\ TypeOK
      /\ UNCHANGED <<jobSlot, child, call, down, jobs, faults>>
    BY TypeParts DEF Inv, StartCreates, Gens, Brokers
<1>2. start' \in Starts /\ start'.pc = "spawn" /\ start'.gen = next
    BY <1>1 DEF StartCreates, Starts
<1>3. /\ Reconciled \in Brokers /\ Reconciled.gen = broker.gen
      /\ Reconciled.rgen = broker.rgen /\ Reconciled.quiesced = broker.quiesced
      /\ ~Alive(broker.handle)
    <2>1. CASE Reconcilable
        <3>1. Reconciled = [Dropped(broker) EXCEPT !.fatal = "none"] /\ "none" \in Fatals
            BY <2>1 DEF Reconciled, Fatals
        <3> QED
            BY <1>1, <2>1, <3>1, DroppedBroker DEF Reconcilable
    <2>2. CASE ~Reconcilable
        BY <1>1, <2>2 DEF Reconciled, StartCreates
    <2> QED
        BY <2>1, <2>2
<1>4. broker' = [Reconciled EXCEPT !.handle = NoGen, !.slot = NoGen]
    BY DEF StartCreates
<1>5. /\ broker' \in Brokers /\ broker'.handle = NoGen /\ broker'.slot = NoGen
      /\ broker'.gen = broker.gen /\ broker'.rgen = broker.rgen
      /\ broker'.quiesced = broker.quiesced
    BY <1>3, <1>4, ClearedFields
<1>6. ipc' = [CloseSlot(broker.slot) EXCEPT ![next] = new]
    BY DEF StartCreates
<1>7. new \in Slots /\ new.req = NoMsg /\ new.resp = NoMsg
    BY Empties
<1> HIDE DEF next, new
<1>8. /\ ipc' \in [Gens -> Slots]
      /\ \A g \in Gens : ipc'[g].open => g = next \/ (ipc[g].open /\ g # broker.slot)
      /\ \A g \in Gens : /\ ipc'[g].req \in {ipc[g].req, NoMsg}
                         /\ ipc'[g].resp = ipc[g].resp \/ Dull(ipc'[g].resp)
    <2>1. Dull(NoMsg)
        BY DEF Dull, NoMsg
    <2> QED
        BY <1>1, <1>6, <1>7, <2>1, ClosedSlots DEF Inv, MessageInv
<1>9. TypeOK'
    BY <1>1, <1>2, <1>5, <1>8, TypeParts, TypePartsNext
<1>10. StartInv' /\ ThreadInv' /\ AnswersOwnJob'
    <2>1. broker.gen \in Nat
        BY <1>1 DEF Brokers
    <2> QED
        BY <1>1, <1>2, <1>5, <2>1 DEF Inv, StartInv, ThreadInv, AnswersOwnJob, NoGen, next
<1>11. DownInv'
    BY <1>1, <1>2, <1>5 DEF Inv, DownInv
<1>12. NoLostChild' /\ NoLeakedSlot'
    BY <1>1, <1>2, <1>3, <1>8 DEF Inv, NoLostChild, NoLeakedSlot, Alive
<1>13. MessageInv'
    <2>1. \A g \in Gens : \A m \in MessagesIn(g)' : Echo(g, m)
        BY <1>1, <1>8 DEF MessagesIn, Echo, Dull, NoMsg
    <2>2. \A g \in Gens : ipc'[g].resp.kind # "render"
        BY <1>8 DEF Inv, MessageInv, Dull
    <2> QED
        BY <1>1, <1>5, <2>1, <2>2, MessagesKept, CallsStay DEF Past
<1> QED
    BY <1>9, <1>10, <1>11, <1>12, <1>13 DEF Inv

-----------------------------------------------------------------------------
(* The request threads: one at a time, that of the holder of the job slot.   *)

LEMMA ThreadStep ==
    ASSUME Inv, NEW c \in Callers, NEW next \in Calls, call' = [call EXCEPT ![c] = next],
           UNCHANGED <<start, child, down, faults>>,
           jobs' \in 0 .. MaxJobs, jobSlot' \in Callers \cup {NoCaller},
           broker' \in Brokers, broker'.handle = broker.handle, broker'.slot = broker.slot,
           broker'.gen = broker.gen, broker'.quiesced = broker.quiesced,
           ipc' \in [Gens -> Slots], \A g \in Gens : ipc'[g].open = ipc[g].open,
           \A d \in Callers \ {c} : call[d].thread = "none",
           next.thread # "none" => jobSlot' = c,
           next.out \in {"ok", "typed"} => next.answer = next.job,
           \A g \in Gens : ipc'[g].resp.kind # "render",
           \A g \in Gens : \A m \in MessagesIn(g)' : Past(m.pg, m.rg)',
           next.thread \in {"submit", "poll"} =>
             /\ down # "down" /\ next.pg \in Gens /\ Past(next.pg, next.rg)'
             /\ \A g \in Gens : \A m \in MessagesIn(g)' :
                  m.pg = next.pg /\ m.rg = next.rg => m.job = next.job
    PROVE  Inv'
<1> USE Bounds
<1>1. /\ call' \in [Callers -> Calls] /\ call'[c] = next
      /\ \A d \in Callers \ {c} : call'[d] = call[d]
    BY TypeParts DEF Inv
<1>2. TypeOK'
    BY <1>1, TypeParts, TypePartsNext DEF Inv
<1>3. StartInv' /\ NoLostChild' /\ NoLeakedSlot'
    BY DEF Inv, StartInv, NoLostChild, NoLeakedSlot, Alive
<1>4. ThreadInv' /\ AnswersOwnJob'
    BY <1>1 DEF Inv, ThreadInv, AnswersOwnJob
<1>5. DownInv'
    BY <1>1 DEF Inv, DownInv
<1>6. MessageInv'
    <2>1. ASSUME NEW d \in Callers, call'[d].thread \in {"submit", "poll"}
          PROVE  d = c
        BY <1>1, <2>1
    <2> QED
        BY <1>1, <2>1 DEF MessageInv
<1> QED
    BY <1>2, <1>3, <1>4, <1>5, <1>6 DEF Inv

\* The holder of the job slot is the only caller with a thread.
LEMMA OneThread ==
    ASSUME Inv, NEW c \in Callers, call[c].thread # "none"
    PROVE  /\ jobSlot = c /\ \A d \in Callers \ {c} : call[d].thread = "none"
           /\ call[c] \in Calls
BY TypeParts DEF Inv, ThreadInv

\* What a step that leaves slots and children alone needs of the messages.
LEMMA SameMessages ==
    ASSUME Inv, UNCHANGED <<child, ipc>>, broker' \in Brokers, broker'.gen = broker.gen,
           broker'.rgen >= broker.rgen
    PROVE  /\ ipc' \in [Gens -> Slots] /\ \A g \in Gens : ipc'[g].open = ipc[g].open
           /\ \A g \in Gens : ipc'[g].resp.kind # "render"
           /\ \A g \in Gens : MessagesIn(g)' = MessagesIn(g)
           /\ \A g \in Gens : \A m \in MessagesIn(g)' : Past(m.pg, m.rg)'
<1>1. \A g \in Gens : MessagesIn(g)' = MessagesIn(g)
    BY DEF MessagesIn
<1>2. broker \in Brokers
    BY TypeParts DEF Inv
<1>3. ASSUME NEW g \in Gens, NEW m \in MessagesIn(g) PROVE Past(m.pg, m.rg)'
    <2>1. Past(m.pg, m.rg) /\ m.pg \in 0 .. MaxGen /\ m.rg \in Nat
        BY MessageTypes DEF Inv, MessageInv
    <2> QED
        BY <1>2, <2>1 DEF Past, Brokers
<1> QED
    BY <1>1, <1>3, TypeParts DEF Inv, MessageInv

LEMMA BeginKeeps == ASSUME Inv, NEW c \in Callers, Begin(c) PROVE Inv'
<1> USE Bounds
<1>0. PICK next : next = [NoCall EXCEPT !.pc = "wait", !.thread = "begin", !.job = jobs + 1]
    OBVIOUS
<1>1. /\ jobs' \in 0 .. MaxJobs /\ jobs' = jobs + 1 /\ jobSlot' = c /\ jobSlot = NoCaller
      /\ UNCHANGED <<broker, start, child, ipc, down, faults>>
    BY TypeParts DEF Inv, Begin
<1>2. /\ next \in Calls /\ next.thread = "begin" /\ next.out = "none"
    BY <1>0, <1>1, NoCallFields DEF Calls, NoCall
<1>3. call' = [call EXCEPT ![c] = next]
    BY <1>0 DEF Begin
<1>4. \A d \in Callers \ {c} : call[d].thread = "none"
    BY <1>1 DEF Inv, ThreadInv
<1>5. broker \in Brokers
    BY TypeParts DEF Inv
<1>6. broker.rgen >= broker.rgen
    BY <1>5 DEF Brokers
<1> QED
    BY <1>1, <1>2, <1>3, <1>4, <1>5, <1>6, SameMessages, ThreadStep

\* Settle and Drain give the job slot back; the thread is done.
LEMMA SettleKeeps == ASSUME Inv, NEW c \in Callers, Settle(c) \/ Drain(c) PROVE Inv'
<1>1. /\ jobSlot' = NoCaller /\ call[c].thread = "done"
      /\ UNCHANGED <<broker, start, child, ipc, down, jobs, faults>>
    BY DEF Settle, Drain
<1>2. PICK n \in Calls : /\ call' = [call EXCEPT ![c] = n]
                         /\ n.thread = "none" /\ n.out = "none"
    <2>1. CASE Settle(c)
        <3> DEFINE why == IF call[c].out = "ipc" THEN "ipc_corrupt" ELSE "failed"
                   r == [NoCall EXCEPT !.pc = "recover", !.why = why]
        <3>1. /\ NoCall \in Calls /\ NoCall.thread = "none" /\ NoCall.out = "none"
              /\ r \in Calls /\ r.thread = "none" /\ r.out = "none"
            BY NoCallFields, Bounds DEF NoCall, Calls
        <3>2. call' = [call EXCEPT ![c] = NoCall] \/ call' = [call EXCEPT ![c] = r]
            BY <2>1 DEF Settle
        <3> QED
            BY <3>1, <3>2
    <2>2. CASE Drain(c)
        <3> DEFINE r == [NoCall EXCEPT !.pc = "delayed"]
        <3>1. r \in Calls /\ r.thread = "none" /\ r.out = "none"
            BY NoCallFields, Bounds DEF NoCall, Calls
        <3>2. call' = [call EXCEPT ![c] = r]
            BY <2>2 DEF Drain
        <3> QED
            BY <3>1, <3>2
    <2> QED
        BY <2>1, <2>2
<1>3. /\ \A d \in Callers \ {c} : call[d].thread = "none"
      /\ broker \in Brokers /\ jobs \in 0 .. MaxJobs
    BY <1>1, OneThread, TypeParts DEF Inv
<1>4. broker.rgen >= broker.rgen
    BY <1>3 DEF Brokers
<1> QED
    BY <1>1, <1>2, <1>3, <1>4, SameMessages, ThreadStep

LEMMA IdleBroker ==
    ASSUME Inv, broker' = [broker EXCEPT !.active = FALSE]
    PROVE  /\ broker' \in Brokers
           /\ broker'.handle = broker.handle /\ broker'.slot = broker.slot
           /\ broker'.gen = broker.gen /\ broker'.quiesced = broker.quiesced
           /\ broker'.rgen = broker.rgen /\ broker'.rgen >= broker.rgen
<1>1. broker \in Brokers
    BY TypeParts DEF Inv
<1>2. broker' \in Brokers
    BY <1>1, Zenon DEF Brokers
<1>3. /\ broker'.handle = broker.handle /\ broker'.slot = broker.slot
      /\ broker'.gen = broker.gen /\ broker'.rgen = broker.rgen /\ broker'.rgen >= broker.rgen
    BY <1>1 DEF Brokers
<1>4. broker'.quiesced = broker.quiesced
    BY <1>1, Zenon DEF Brokers
<1> QED
    BY <1>2, <1>3, <1>4

\* A thread that ends without an answer, slots and children as they were.
LEMMA ThreadFails ==
    ASSUME Inv, NEW c \in Callers, call[c].thread # "none",
           NEW out \in {"failed", "ipc"}, ThreadEnds(c, out, 0),
           UNCHANGED <<jobSlot, start, child, ipc, down, jobs, faults>>,
           broker' = broker \/ broker' = [broker EXCEPT !.active = FALSE]
    PROVE  Inv'
<1> USE Bounds
<1>0. PICK next : next = [call[c] EXCEPT !.thread = "done", !.out = out, !.answer = 0]
    OBVIOUS
<1>1. /\ jobSlot = c /\ \A d \in Callers \ {c} : call[d].thread = "none"
      /\ call[c] \in Calls
    BY OneThread
<1>2. next \in Calls /\ next.thread = "done" /\ next.out = out
    <2> DEFINE k == call[c]
    <2>1. /\ k \in Calls /\ next = [k EXCEPT !.thread = "done", !.out = out, !.answer = 0]
          /\ 0 \in 0 .. MaxJobs /\ out \in {"ok", "typed", "failed", "ipc", "ready"}
        BY <1>0, <1>1
    <2> HIDE DEF k
    <2> QED
        BY <2>1 DEF Calls
<1>3. call' = [call EXCEPT ![c] = next]
    BY <1>0 DEF ThreadEnds
<1>4. /\ broker' \in Brokers
      /\ broker'.handle = broker.handle /\ broker'.slot = broker.slot
      /\ broker'.gen = broker.gen /\ broker'.quiesced = broker.quiesced
      /\ broker'.rgen >= broker.rgen
    <2>1. broker \in Brokers /\ broker.rgen >= broker.rgen
        BY TypeParts DEF Inv, Brokers
    <2> QED
        BY <2>1, IdleBroker
<1>5. jobs \in 0 .. MaxJobs
    BY TypeParts DEF Inv
<1> QED
    BY <1>1, <1>2, <1>3, <1>4, <1>5, SameMessages, ThreadStep

LEMMA ThreadGivesUpKeeps == ASSUME Inv, NEW c \in Callers, ThreadGivesUp(c) PROVE Inv'
BY ThreadFails DEF ThreadGivesUp

LEMMA ThreadTakesKeeps == ASSUME Inv, NEW c \in Callers, ThreadTakes(c) PROVE Inv'
<1> USE Bounds
<1>1. CASE broker.fatal = "none" /\ broker.ready /\ Alive(broker.handle)
    <2>0. PICK next : next = [call[c] EXCEPT !.thread = "submit", !.pg = broker.gen,
                                             !.rg = broker.rgen + 1]
        OBVIOUS
    <2>1. /\ jobSlot = c /\ \A d \in Callers \ {c} : call[d].thread = "none"
          /\ call[c] \in Calls
        BY OneThread DEF ThreadTakes
    <2>2. /\ broker \in Brokers /\ broker.gen \in Gens /\ broker.rgen \in Nat /\ down # "down"
          /\ jobs \in 0 .. MaxJobs /\ broker.gen \in 0 .. MaxGen
        BY <1>1, TypeParts DEF Inv, StartInv, DownInv, Alive, Gens, Brokers, NoGen
    <2>3. /\ next \in Calls /\ next.thread = "submit" /\ next.pg = broker.gen
          /\ next.rg = broker.rgen + 1 /\ next.out = call[c].out
          /\ next.answer = call[c].answer /\ next.job = call[c].job
        <3> DEFINE k == call[c]
                   pg == broker.gen
                   rg == broker.rgen + 1
        <3>1. k \in Calls /\ pg \in 0 .. MaxGen /\ rg \in Nat
            BY <2>1, <2>2
        <3>2. next = [k EXCEPT !.thread = "submit", !.pg = pg, !.rg = rg]
            BY <2>0
        <3> HIDE DEF k, pg, rg
        <3>3. /\ next \in Calls /\ next.thread = "submit" /\ next.pg = pg /\ next.rg = rg
              /\ next.out = k.out /\ next.answer = k.answer /\ next.job = k.job
            BY <3>1, <3>2 DEF Calls
        <3> QED
            BY <3>3 DEF k, pg, rg
    <2>4. /\ call' = [call EXCEPT ![c] = next]
          /\ broker' = [broker EXCEPT !.rgen = broker.rgen + 1, !.active = TRUE]
          /\ UNCHANGED <<jobSlot, start, child, ipc, down, jobs, faults>>
        BY <1>1, <2>0 DEF ThreadTakes
    <2>5. broker' \in Brokers
        <3>1. broker.rgen + 1 \in Nat
            BY <2>2
        <3> QED
            BY <2>2, <2>4, <3>1, Zenon DEF Brokers
    <2>6. /\ broker'.handle = broker.handle /\ broker'.slot = broker.slot
          /\ broker'.gen = broker.gen /\ broker'.rgen = broker.rgen + 1
          /\ broker'.rgen >= broker.rgen
        BY <2>2, <2>4 DEF Brokers
    <2>7. broker'.quiesced = broker.quiesced
        BY <2>2, <2>4, Zenon DEF Brokers
    <2>8. Past(next.pg, next.rg)'
        BY <2>2, <2>3, <2>6 DEF Past
    <2>9. \A g \in Gens : \A m \in MessagesIn(g) : ~(m.pg = next.pg /\ m.rg = next.rg)
        BY <2>2, <2>3, MessageTypes DEF Inv, MessageInv, Past
    <2>10. next.out \in {"ok", "typed"} => next.answer = next.job
        BY <2>3 DEF Inv, AnswersOwnJob
    <2>11. /\ ipc' \in [Gens -> Slots] /\ \A g \in Gens : ipc'[g].open = ipc[g].open
           /\ \A g \in Gens : ipc'[g].resp.kind # "render"
           /\ \A g \in Gens : \A m \in MessagesIn(g)' : Past(m.pg, m.rg)'
           /\ \A g \in Gens : \A m \in MessagesIn(g)' :
                m.pg = next.pg /\ m.rg = next.rg => m.job = next.job
        BY <2>4, <2>5, <2>6, <2>9, SameMessages
    <2> QED
        BY <2>1, <2>2, <2>3, <2>4, <2>5, <2>6, <2>7, <2>8, <2>10, <2>11, ThreadStep
<1>2. CASE ~(broker.fatal = "none" /\ broker.ready /\ Alive(broker.handle))
    BY <1>2, ThreadFails DEF ThreadTakes
<1> QED
    BY <1>1, <1>2

LEMMA ThreadSubmitsKeeps == ASSUME Inv, NEW c \in Callers, ThreadSubmits(c) PROVE Inv'
<1> USE Bounds
<1>1. PICK g : g = call[c].pg
    OBVIOUS
<1>2. CASE ~ipc[g].open
    BY <1>1, <1>2, ThreadFails DEF ThreadSubmits
<1>3. CASE ipc[g].open
    <2>0. PICK next : next = [call[c] EXCEPT !.thread = "poll"]
        OBVIOUS
    <2>1. /\ jobSlot = c /\ \A d \in Callers \ {c} : call[d].thread = "none"
          /\ call[c] \in Calls /\ call[c].thread = "submit"
        BY OneThread DEF ThreadSubmits
    <2>2. /\ next \in Calls /\ next.thread = "poll" /\ next.out = call[c].out
          /\ next.answer = call[c].answer /\ next.job = call[c].job
          /\ next.pg = call[c].pg /\ next.rg = call[c].rg
        BY <2>0, <2>1 DEF Calls
    <2>3. /\ call' = [call EXCEPT ![c] = next]
          /\ ipc' = [ipc EXCEPT ![g].resp = NoMsg, ![g].req = Request(c)]
          /\ UNCHANGED <<broker, jobSlot, start, child, down, jobs, faults>>
        BY <1>1, <1>3, <2>0 DEF ThreadSubmits
    <2>4. /\ ipc \in [Gens -> Slots] /\ broker \in Brokers /\ jobs \in 0 .. MaxJobs
          /\ g \in Gens /\ down # "down" /\ Past(call[c].pg, call[c].rg)
        BY <1>1, <2>1, TypeParts DEF Inv, MessageInv, DownInv
    <2>5. /\ Request(c) \in Msgs /\ Request(c).pg = next.pg /\ Request(c).rg = next.rg
          /\ Request(c).job = next.job
        BY <2>1, <2>2 DEF Request, Calls, Msgs, Kinds
    <2> DEFINE s == [ipc[g] EXCEPT !.resp = NoMsg, !.req = Request(c)]
    <2>6. /\ s \in Slots /\ s.resp = NoMsg /\ s.req = Request(c)
        BY <2>4, <2>5, Empties DEF Slots
    <2>7. s.open = ipc[g].open
        BY <2>4, Zenon DEF Slots
    <2>8. ipc' = [ipc EXCEPT ![g] = s]
        BY <2>3, Zenon
    <2> HIDE DEF s
    <2>9. /\ ipc' \in [Gens -> Slots] /\ \A h \in Gens : ipc'[h].open = ipc[h].open
          /\ ipc'[g].resp = NoMsg /\ ipc'[g].req = Request(c)
          /\ \A h \in Gens : h # g => ipc'[h] = ipc[h]
        BY <2>4, <2>6, <2>7, <2>8
    <2>10. \A h \in Gens : \A m \in MessagesIn(h)' :
              m \in MessagesIn(h) \/ m = NoMsg \/ m = Request(c)
        BY <2>3, <2>4, <2>9 DEF MessagesIn
    <2>11. \A h \in Gens : ipc'[h].resp.kind # "render"
        BY <2>4, <2>9 DEF Inv, MessageInv, NoMsg
    <2>12. NoMsg.pg = 0 /\ NoMsg.rg = 0 /\ next.pg # 0
        BY <1>1, <2>2, <2>4 DEF NoMsg, Gens
    <2>13. ASSUME NEW h \in Gens, NEW m \in MessagesIn(h)'
           PROVE  /\ Past(m.pg, m.rg)
                  /\ m.pg = next.pg /\ m.rg = next.rg => m.job = next.job
        <3>1. CASE m \in MessagesIn(h)
            BY <2>1, <2>2, <3>1 DEF Inv, MessageInv
        <3>2. CASE m = NoMsg
            BY <2>4, <2>12, <3>2 DEF Past, Brokers
        <3>3. CASE m = Request(c)
            BY <2>2, <2>4, <2>5, <3>3
        <3> QED
            BY <2>10, <3>1, <3>2, <3>3
    <2>14. /\ \A h \in Gens : \A m \in MessagesIn(h)' : Past(m.pg, m.rg)'
           /\ Past(next.pg, next.rg)'
        BY <2>2, <2>3, <2>4, <2>13 DEF Past
    <2>15. next.out \in {"ok", "typed"} => next.answer = next.job
        BY <2>2 DEF Inv, AnswersOwnJob
    <2>16. /\ next.pg \in Gens /\ broker' \in Brokers /\ jobs' \in 0 .. MaxJobs
           /\ broker'.handle = broker.handle /\ broker'.slot = broker.slot
           /\ broker'.gen = broker.gen /\ broker'.quiesced = broker.quiesced
           /\ jobSlot' = c /\ jobSlot' \in Callers \cup {NoCaller} /\ down # "down"
           /\ \A d \in Callers \ {c} : call[d].thread = "none"
        BY <1>1, <2>1, <2>2, <2>3, <2>4
    <2>17. \A h \in Gens : \A m \in MessagesIn(h)' :
             m.pg = next.pg /\ m.rg = next.rg => m.job = next.job
        BY <2>13
    <2> QED
        BY <2>2, <2>3, <2>9, <2>11, <2>14, <2>15, <2>16, <2>17, ThreadStep
<1> QED
    BY <1>2, <1>3

LEMMA ThreadReceivesKeeps == ASSUME Inv, NEW c \in Callers, ThreadReceives(c) PROVE Inv'
<1> USE Bounds
<1>1. PICK g, m : g = call[c].pg /\ m = ipc[g].resp
    OBVIOUS
<1>2. CASE ~(ipc[g].open /\ Matches(c, m))
    BY <1>1, <1>2, ThreadFails DEF ThreadReceives
<1>3. CASE ipc[g].open /\ Matches(c, m)
    <2>0. PICK next : next = [call[c] EXCEPT !.thread = "done", !.out = m.kind, !.answer = m.job]
        OBVIOUS
    <2>1. /\ jobSlot = c /\ \A d \in Callers \ {c} : call[d].thread = "none"
          /\ call[c] \in Calls /\ call[c].thread = "poll" /\ m.kind # "none"
        BY <1>1, OneThread DEF ThreadReceives
    <2>2. /\ ipc \in [Gens -> Slots] /\ jobs \in 0 .. MaxJobs /\ g \in Gens
          /\ m \in Msgs /\ m.kind # "render"
        BY <1>1, <2>1, TypeParts DEF Inv, MessageInv, Slots
    <2>3. m.kind \in {"ok", "typed", "failed", "ready"} /\ m.job \in 0 .. MaxJobs
        BY <2>1, <2>2 DEF Msgs, Kinds
    <2>4. /\ next \in Calls /\ next.thread = "done"
          /\ next.answer = m.job /\ next.job = call[c].job
        BY <2>0, <2>1, <2>3 DEF Calls
    <2>5. m.job = call[c].job
        BY <1>1, <1>3, <2>1, <2>2 DEF Inv, MessageInv, MessagesIn, Matches
    <2>6. /\ call' = [call EXCEPT ![c] = next]
          /\ ipc' = [ipc EXCEPT ![g].resp = NoMsg]
          /\ broker' = [broker EXCEPT !.active = FALSE]
          /\ UNCHANGED <<jobSlot, start, child, down, jobs, faults>>
        BY <1>1, <1>3, <2>0 DEF ThreadReceives, ThreadEnds
    <2>7. /\ ipc' \in [Gens -> Slots] /\ \A h \in Gens : ipc'[h].open = ipc[h].open
          /\ \A h \in Gens : /\ ipc'[h].req = ipc[h].req
                             /\ ipc'[h].resp = ipc[h].resp \/ ipc'[h].resp = NoMsg
        <3> DEFINE s == [ipc[g] EXCEPT !.resp = NoMsg]
        <3>1. s \in Slots /\ s.resp = NoMsg /\ s.req = ipc[g].req
            BY <2>2, Empties DEF Slots
        <3>2. s.open = ipc[g].open
            BY <2>2, Zenon DEF Slots
        <3>3. ipc' = [ipc EXCEPT ![g] = s]
            BY <2>6, Zenon
        <3> HIDE DEF s
        <3> QED
            BY <2>2, <3>1, <3>2, <3>3
    <2>8. /\ broker \in Brokers /\ broker' \in Brokers
          /\ broker'.handle = broker.handle /\ broker'.slot = broker.slot
          /\ broker'.gen = broker.gen /\ broker'.quiesced = broker.quiesced
          /\ broker'.rgen = broker.rgen
        BY <2>6, IdleBroker, TypeParts DEF Inv
    <2>9. \A h \in Gens : ipc'[h].resp.kind # "render"
        BY <2>7 DEF Inv, MessageInv, NoMsg
    <2>10. ASSUME NEW h \in Gens, NEW n \in MessagesIn(h)' PROVE Past(n.pg, n.rg)'
        <3>1. n \in MessagesIn(h) \/ n = NoMsg
            BY <2>6, <2>7 DEF MessagesIn
        <3>2. Past(n.pg, n.rg)
            BY <2>8, <3>1 DEF Inv, MessageInv, Past, NoMsg, Brokers
        <3> QED
            BY <2>8, <3>2 DEF Past
    <2> QED
        BY <2>1, <2>2, <2>4, <2>5, <2>6, <2>7, <2>8, <2>9, <2>10, ThreadStep
<1> QED
    BY <1>2, <1>3

-----------------------------------------------------------------------------
(* The child: it answers the request it read, under its generations.         *)

LEMMA ChildStep ==
    ASSUME Inv, UNCHANGED <<broker, jobSlot, start, call, down, jobs, faults>>,
           child' \in [Gens -> Children], ipc' \in [Gens -> Slots],
           \A g \in Gens : child'[g].pc # "gone" => child[g].pc # "gone",
           \A g \in Gens : ipc'[g].open = ipc[g].open,
           \A g \in Gens : ipc'[g].resp.kind # "render",
           \A g \in Gens : \A m \in MessagesIn(g)' : Echo(g, m)
    PROVE  Inv'
<1>1. TypeOK'
    BY TypeParts, TypePartsNext DEF Inv
<1>2. StartInv' /\ NoLostChild' /\ NoLeakedSlot' /\ ThreadInv' /\ DownInv' /\ AnswersOwnJob'
    BY DEF Inv, StartInv, NoLostChild, NoLeakedSlot, ThreadInv, DownInv, AnswersOwnJob, Alive
<1>3. MessageInv'
    BY MessagesKept, CallsStay, TypeParts DEF Inv, Past
<1> QED
    BY <1>1, <1>2, <1>3 DEF Inv

LEMMA ChildKeeps == ASSUME Inv, NEW g \in Gens, Child(g) PROVE Inv'
<1> USE Bounds, Empties
<1>1. /\ child \in [Gens -> Children] /\ ipc \in [Gens -> Slots]
      /\ child[g] \in Children /\ ipc[g] \in Slots
      /\ child[g].job \in Msgs /\ ipc[g].req \in Msgs
    BY TypeParts DEF Inv, Children, Slots
<1>2. \A h \in Gens : ipc[h].resp.kind # "render"
    BY DEF Inv, MessageInv
<1>3. /\ UNCHANGED <<broker, jobSlot, start, call, down, jobs, faults>>
      /\ child[g].pc # "gone"
    BY DEF Child, ChildAnnounces, ChildReceives, ChildSends
<1>4. ASSUME NEW k \in Children, child' = [child EXCEPT ![g] = k],
             NEW s \in Slots, ipc' = [ipc EXCEPT ![g] = s],
             s.open = ipc[g].open, s.resp.kind # "render",
             Echo(g, k.job), Echo(g, s.req), Echo(g, s.resp)
      PROVE  Inv'
    <2>1. \A h \in Gens : \A m \in MessagesIn(h)' : Echo(h, m)
        <3>1. ASSUME NEW h \in Gens, h # g, NEW m \in MessagesIn(h)' PROVE Echo(h, m)
            BY <1>1, <1>4, <3>1 DEF MessagesIn, Echo
        <3>2. ASSUME NEW m \in MessagesIn(g)' PROVE Echo(g, m)
            BY <1>1, <1>4, <3>2 DEF MessagesIn
        <3> QED
            BY <3>1, <3>2
    <2> QED
        BY <1>1, <1>2, <1>3, <1>4, <2>1, ChildStep
<1>5. CASE ChildAnnounces(g)
    <2> DEFINE k == [child[g] EXCEPT !.pc = "idle"]
               ready == [NoMsg EXCEPT !.kind = "ready"]
               s == [ipc[g] EXCEPT !.resp = ready]
    <2>1. k \in Children /\ k.job = child[g].job
        BY <1>1 DEF Children
    <2>2. ready \in Msgs /\ ready.pg = 0 /\ ready.rg = 0 /\ ready.kind # "render"
        BY DEF NoMsg
    <2> HIDE DEF ready
    <2>3. s \in Slots /\ s.resp = ready /\ s.req = ipc[g].req
        BY <1>1, <2>2 DEF Slots
    <2>4. s.open = ipc[g].open
        BY <1>1, Zenon DEF Slots
    <2>5. child' = [child EXCEPT ![g] = k] /\ ipc' = [ipc EXCEPT ![g] = s]
        BY <1>5, Zenon DEF ChildAnnounces, ready
    <2> HIDE DEF k, s
    <2>6. Echo(g, k.job) /\ Echo(g, s.req) /\ Echo(g, s.resp)
        BY <2>1, <2>2, <2>3 DEF Echo, MessagesIn
    <2> QED
        BY <1>4, <2>1, <2>2, <2>3, <2>4, <2>5, <2>6
<1>6. CASE ChildReceives(g)
    <2> DEFINE k == [child[g] EXCEPT !.pc = "busy", !.job = ipc[g].req]
               s == [ipc[g] EXCEPT !.req = NoMsg]
    <2>1. k \in Children /\ k.job = ipc[g].req
        BY <1>1 DEF Children
    <2>2. s \in Slots /\ s.resp = ipc[g].resp /\ s.req = NoMsg
        BY <1>1 DEF Slots
    <2>3. s.open = ipc[g].open
        BY <1>1, Zenon DEF Slots
    <2>4. child' = [child EXCEPT ![g] = k] /\ ipc' = [ipc EXCEPT ![g] = s]
        BY <1>6, Zenon DEF ChildReceives
    <2> HIDE DEF k, s
    <2>5. Echo(g, k.job) /\ Echo(g, s.req) /\ Echo(g, s.resp)
        BY <2>1, <2>2 DEF Echo, MessagesIn, NoMsg
    <2> QED
        BY <1>2, <1>4, <2>1, <2>2, <2>3, <2>4, <2>5
<1>7. CASE ChildSends(g)
    <2>0. PICK kind \in Outcomes : ipc' = [ipc EXCEPT ![g].resp = Answer(g, kind)]
        BY <1>7 DEF ChildSends
    <2> DEFINE k == [child[g] EXCEPT !.pc = "idle", !.job = NoMsg]
               a == Answer(g, kind)
               s == [ipc[g] EXCEPT !.resp = a]
    <2>1. k \in Children /\ k.job = NoMsg
        BY <1>1 DEF Children
    <2>2. /\ a \in Msgs /\ a.kind # "render" /\ a.pg = child[g].job.pg
          /\ a.rg = child[g].job.rg /\ a.job = child[g].job.job
        BY <1>1 DEF Answer, Outcomes, Msgs, Kinds
    <2> HIDE DEF a
    <2>3. s \in Slots /\ s.resp = a /\ s.req = ipc[g].req
        BY <1>1, <2>2 DEF Slots
    <2>4. s.open = ipc[g].open
        BY <1>1, Zenon DEF Slots
    <2>5. child' = [child EXCEPT ![g] = k] /\ ipc' = [ipc EXCEPT ![g] = s]
        BY <1>7, <2>0, Zenon DEF ChildSends, a
    <2> HIDE DEF k, s
    <2>6. Echo(g, k.job) /\ Echo(g, s.req) /\ Echo(g, s.resp)
        BY <2>1, <2>2, <2>3 DEF Echo, MessagesIn, NoMsg
    <2> QED
        BY <1>4, <2>1, <2>2, <2>3, <2>4, <2>5, <2>6
<1> QED
    BY <1>5, <1>6, <1>7 DEF Child

-----------------------------------------------------------------------------

LEMMA NextHolds == Inv /\ [Next]_vars => Inv'
<1> SUFFICES ASSUME Inv, [Next]_vars PROVE Inv'
    OBVIOUS
<1>1. CASE StartTask \/ SpawnFails \/ StartInvalid
    BY <1>1, StartTaskSheds, SpawnsKeep, SpawnFailsKeeps, StartCreatesKeeps, StartRecordsKeeps
    DEF StartTask
<1>2. ASSUME NEW c \in Callers,
             \/ Begin(c) \/ Thread(c) \/ Settle(c) \/ Cancel(c) \/ Recovery(c)
             \/ RecoverKillErrors(c) \/ RecoverIncomplete(c) \/ CancelStartWait(c)
      PROVE  Inv'
    <2>1. CASE Thread(c)
        BY <2>1, ThreadTakesKeeps, ThreadSubmitsKeeps, ThreadReceivesKeeps, ThreadGivesUpKeeps
        DEF Thread
    <2>2. CASE Begin(c) \/ Settle(c) \/ Drain(c)
        BY <2>2, BeginKeeps, SettleKeeps
    <2>3. CASE RecoverStops(c) \/ RecoverKillErrors(c) \/ RecoverIncomplete(c)
        BY <2>3, RecoveryStopSheds
    <2>4. CASE RecoverStarts(c) \/ DelayedRestart(c) \/ Cancel(c) \/ CancelStartWait(c)
        BY <2>4, RecoverStartsSheds, DelayedRestartSheds, CancelSheds
    <2> QED
        BY <1>2, <2>1, <2>2, <2>3, <2>4 DEF Recovery
<1>3. ASSUME NEW g \in Gens, Child(g) \/ ChildDies(g) PROVE Inv'
    BY <1>3, ChildKeeps, ChildDiesSheds
<1>4. CASE OwnerStart \/ ReadPid \/ ReadReady
    BY <1>4, OwnerStartSheds, ReadSheds
<1>5. CASE ShutdownBegins \/ Shutdown \/ ShutdownLeavesThread
    BY <1>5, ShutdownKeeps, ShutdownJoinsKeeps DEF Shutdown
<1>6. CASE UNCHANGED vars
    <2>1. UNCHANGED <<broker, jobSlot, start, child, ipc, call, down, jobs, faults>>
        BY <1>6 DEF vars
    <2>2. Sheds
        BY <2>1, FlagsShed, TypeParts DEF Inv
    <2> QED
        BY <2>1, <2>2, CallsStay, ShedsKeep, Faults DEF StartShift, DownShift
<1> QED
    BY <1>1, <1>2, <1>3, <1>4, <1>5, <1>6 DEF Next

\* The inductive invariant holds of every behaviour.
THEOREM InvHolds == Spec => []Inv
<1>1. Init => Inv
    BY InitHolds
<1>2. Inv /\ [Next]_vars => Inv'
    BY NextHolds
<1> QED
    BY <1>1, <1>2, PTL DEF Spec

\* The broker keeps account of all it has made (attempt_worker.py _stop_sync,
\* _recover, _start_once): at most one live process, none lost, no slot leaked,
\* no request thread outside the job slot.
THEOREM BrokerInvHolds == Spec => []BrokerInv
<1>1. Inv => BrokerInv
    <2> SUFFICES ASSUME Inv PROVE BrokerInv
        OBVIOUS
    <2>1. OneChild
        <3> DEFINE live == {g \in Gens : Alive(g)}
        <3>1. broker.handle # NoGen => ~(start.pc = "spawned")
            BY DEF Inv, StartInv
        <3>2. PICK only : only = IF broker.handle # NoGen THEN broker.handle ELSE start.gen
            OBVIOUS
        <3>3. ASSUME NEW g \in live PROVE g = only
            <4>1. g \in Gens /\ g # NoGen
                BY DEF Gens, NoGen
            <4>2. g = broker.handle \/ (g = start.gen /\ start.pc = "spawned")
                BY <4>1 DEF Inv, NoLostChild
            <4> QED
                BY <3>1, <3>2, <4>1, <4>2
        <3> HIDE DEF live
        <3>4. live = {} \/ live = {only}
            BY <3>3
        <3>5. Cardinality({}) = 0 /\ Cardinality({only}) = 1
            BY FS_EmptySet, FS_Singleton
        <3>6. Cardinality(live) \in {0, 1}
            BY <3>4, <3>5
        <3> QED
            BY <3>6 DEF OneChild, live
    <2>2. ThreadUnderSlot
        BY DEF Inv, ThreadInv, ThreadUnderSlot, LiveThread
    <2> QED
        BY <2>1, <2>2 DEF Inv, BrokerInv
<1> QED
    BY <1>1, InvHolds, PTL

\* No caller is handed the picture of another job (attempt_worker.py
\* _request_sync, shared_ipc_slot.py recv_response).
THEOREM AnswersOwnJobHolds == Spec => []AnswersOwnJob
<1>1. Inv => AnswersOwnJob
    BY DEF Inv
<1> QED
    BY <1>1, InvHolds, PTL

\* A shutdown that reported success left no process, no shared memory and no
\* request thread, and nothing brings them back (attempt_worker.py shutdown).
THEOREM ShutdownIsFinalHolds == Spec => []ShutdownIsFinal
<1>1. Inv => ShutdownIsFinal
    BY DEF Inv, NoLostChild, NoLeakedSlot, DownInv, ShutdownIsFinal, Alive, Gens, NoGen
<1> QED
    BY <1>1, InvHolds, PTL

=============================================================================
