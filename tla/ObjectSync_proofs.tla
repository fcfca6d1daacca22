-------------------------- MODULE ObjectSync_proofs --------------------------
(***************************************************************************)
(* Proofs that SyncInv is an inductive invariant of ObjectSync, and of the *)
(* safety properties that follow from it.                                  *)
(***************************************************************************)
EXTENDS ObjectSync, Watch_proofs

USE DEF Numbers

-----------------------------------------------------------------------------
(* Facts the steps share.                                                  *)

\* The constants, and the objects an absent or new one is made of, are typed.
LEMMA ObjectTypes ==
  /\ NoConsumer \in ConsumerObject
  /\ NoProvider \in ProviderObject
  /\ \A n \in Numbers : NewConsumer(n) \in ConsumerObject
  /\ \A o \in ConsumerObject : CleanCopy(o) \in ProviderObject
  BY ConstantsAssumption DEF NoConsumer, NoProvider, NewConsumer, CleanCopy, Present,
     ConsumerObject, ProviderObject, AllStatuses

\* A patch leaves the status, the finalizer and the deletion of the upstream
\* object alone, and its result is typed.
LEMMA ApplyLemma ==
  ASSUME NEW up \in ProviderObject, NEW obj \in ConsumerObject
  PROVE  LET new == Apply(up, obj.spec, Sent(obj, up))
         IN /\ new \in ProviderObject
            /\ new.spec = obj.spec
            /\ new.alive = up.alive /\ new.status = up.status
            /\ new.held = up.held /\ new.deleting = up.deleting
  <1> DEFINE c == Sent(obj, up)
             content == [f \in FieldNames |-> IF c[f] = NoField /\ f \in up.created
                                              THEN up.content[f] ELSE c[f]]
             created == {f \in up.created : c[f] \in {NoField, up.content[f]}}
             applied == Present(c)
  <1>1. obj.spec \in Numbers /\ Content(obj.spec) \in [FieldNames -> Values]
    BY ConstantsAssumption DEF ConsumerObject
  <1>2. up.content \in [FieldNames -> Values] /\ up.created \subseteq FieldNames
    BY DEF ProviderObject
  <1>3. c \in [FieldNames -> Values]
    BY <1>1, <1>2 DEF Sent
  <1>4. content \in [FieldNames -> Values]
    BY <1>2, <1>3
  <1>5. created \subseteq FieldNames /\ applied \subseteq FieldNames
    BY <1>2 DEF Present
  <1>6. Apply(up, obj.spec, Sent(obj, up)) =
          [up EXCEPT !.spec = obj.spec, !.content = content, !.created = created,
                     !.applied = applied]
    BY DEF Apply
  <1> HIDE DEF content, created, applied
  <1>7. QED
    BY <1>1, <1>4, <1>5, <1>6 DEF ProviderObject

\* The typed parts of a state.
LEMMA StateTypes ==
  ASSUME TypeOK
  PROVE  /\ Live(consumer) \in ConsumerObject
         /\ Cached(consumer) \in ConsumerObject
         /\ Live(provider) \in ProviderObject
         /\ Cached(provider) \in ProviderObject
         /\ consumer.rv \in Nat /\ consumer.seen \in Nat
         /\ consumer.seen <= consumer.rv
         /\ provider.rv \in Nat /\ provider.seen \in Nat
         /\ provider.seen <= provider.rv
         /\ edits \in Nat
         /\ \A i \in Versions : consumer.log[i] \in ConsumerObject /\ i \in Nat
         /\ Live(consumer) = consumer.log[consumer.rv] /\ consumer.rv \in Versions
         /\ Cached(consumer) = consumer.log[consumer.seen] /\ consumer.seen \in Versions
  <1>1. /\ IsWatched(consumer, ConsumerObject)
        /\ IsWatched(provider, ProviderObject)
        /\ edits \in 0 .. MaxEdits
    BY DEF TypeOK
  <1>2. \A i \in Versions : consumer.log[i] \in ConsumerObject /\ i \in Nat
    BY <1>1 DEF IsWatched, Versions
  <1>3. QED
    BY <1>1, <1>2, ContentsLemma, ConstantsAssumption DEF Versions, Live, Cached

\* What a write of the consumer object does to a typed state.
LEMMA ConsumerWrite ==
  ASSUME TypeOK, NEW c \in ConsumerObject, consumer' = Write(consumer, c)
  PROVE  /\ IsWatched(consumer, ConsumerObject)'
         /\ Live(consumer)' = c
         /\ consumer'.rv = consumer.rv + 1
         /\ consumer'.seen = consumer.seen
         /\ \A i \in Versions' : \/ i \in Versions /\ consumer'.log[i] = consumer.log[i]
                                 \/ i = consumer.rv + 1 /\ consumer'.log[i] = c
  <1>1. IsWatched(consumer, ConsumerObject)
    BY DEF TypeOK
  <1>2. /\ IsWatched(consumer, ConsumerObject)'
        /\ Live(consumer)' = c
        /\ consumer'.rv = consumer.rv + 1
        /\ consumer'.seen = consumer.seen
        /\ \A i \in consumer.seen .. consumer.rv : consumer'.log[i] = consumer.log[i]
        /\ consumer'.log[consumer.rv + 1] = c
    BY <1>1, WriteLemma
  <1>3. QED
    BY <1>2, StateTypes DEF Versions

\* What a change of the provider object by a request comes to: nothing, or a
\* newer version.
ProviderMoves ==
  /\ IsWatched(provider, ProviderObject)'
  /\ \/ provider' = provider
     \/ provider'.rv = provider.rv + 1

\* Writes of the provider object.
LEMMA ProviderWriteLemma ==
  ASSUME TypeOK, NEW p \in ProviderObject, provider' = Write(provider, p)
  PROVE  /\ ProviderMoves
         /\ Live(provider)' = p
         /\ provider'.rv = provider.rv + 1
  <1>1. IsWatched(provider, ProviderObject)
    BY DEF TypeOK
  <1>2. QED
    BY <1>1, WriteLemma DEF ProviderMoves

\* A DELETE leaves an object that is gone, or the same one with its deletion
\* timestamp set.
LEMMA DeleteLemma ==
  ASSUME TypeOK, provider' = DeleteUpstream(provider)
  PROVE  /\ ProviderMoves
         /\ Live(provider)'.alive =>
              /\ Live(provider).alive
              /\ Live(provider)'.spec = Live(provider).spec
              /\ Live(provider)'.status = Live(provider).status
              /\ Live(provider)'.held = Live(provider).held
              /\ Live(provider)'.deleting
  <1> DEFINE p == [Live(provider) EXCEPT !.deleting = TRUE]
  <1>1. Live(provider) \in ProviderObject /\ IsWatched(provider, ProviderObject)
    BY StateTypes DEF TypeOK
  <1>2. p \in ProviderObject /\ NoProvider \in ProviderObject /\ ~NoProvider.alive
    BY <1>1, ObjectTypes DEF ProviderObject, NoProvider
  <1>3. /\ p.alive = Live(provider).alive
        /\ p.spec = Live(provider).spec
        /\ p.status = Live(provider).status
        /\ p.held = Live(provider).held
        /\ p.deleting
    BY <1>1 DEF ProviderObject
  <1> HIDE DEF p
  <1>4. \/ provider' = provider /\ (Live(provider).alive => Live(provider).deleting)
        \/ provider' = Write(provider, NoProvider)
        \/ provider' = Write(provider, p) /\ Live(provider).alive
    BY <1>1 DEF DeleteUpstream, p, ProviderObject
  <1>5. CASE provider' = provider /\ (Live(provider).alive => Live(provider).deleting)
    BY <1>1, <1>5 DEF ProviderMoves
  <1>6. CASE provider' = Write(provider, NoProvider)
    BY <1>2, <1>6, ProviderWriteLemma
  <1>7. CASE provider' = Write(provider, p) /\ Live(provider).alive
    BY <1>2, <1>3, <1>7, ProviderWriteLemma
  <1>8. QED
    BY <1>4, <1>5, <1>6, <1>7

-----------------------------------------------------------------------------
(* Changes of the consumer object, whoever makes them.                     *)

\* The parts of the invariant that do not speak of the workers.
StoreInv ==
  /\ HistoryInOrder
  /\ UpstreamInOrder
  /\ \A i \in Versions : Copyable(consumer.log[i]) => StillGuarded(consumer.log[i])
  /\ UpstreamIsGuarded

\* A write that keeps the identity and the finalizer of the consumer object.
LEMMA AliveWrite ==
  ASSUME SyncInv, NEW c \in ConsumerObject, consumer' = Write(consumer, c),
         UNCHANGED provider, edits' \in Nat, edits <= edits',
         Live(consumer).alive, c.alive, c.uid = Live(consumer).uid,
         Live(consumer).spec <= c.spec, c.spec <= edits',
         Live(consumer).fin => c.fin
  PROVE  /\ IsWatched(consumer, ConsumerObject)'
         /\ StoreInv'
         /\ UNCHANGED specW => SpecWorkerInv'
         /\ UNCHANGED statusW => StatusWorkerInv'
  <1>1. /\ TypeOK /\ HistoryInOrder /\ UpstreamInOrder /\ SpecWorkerInv /\ StatusWorkerInv
        /\ \A i \in Versions : Copyable(consumer.log[i]) => StillGuarded(consumer.log[i])
        /\ UpstreamIsGuarded
    BY DEF SyncInv
  <1>2. /\ IsWatched(consumer, ConsumerObject)'
        /\ Live(consumer)' = c
        /\ consumer'.rv = consumer.rv + 1
        /\ consumer'.seen = consumer.seen
        /\ \A i \in Versions' : \/ i \in Versions /\ consumer'.log[i] = consumer.log[i]
                                \/ i = consumer.rv + 1 /\ consumer'.log[i] = c
    BY <1>1, ConsumerWrite
  <1>3. \A i \in Versions : i <= consumer.rv
    BY <1>1, StateTypes DEF Versions
  <1>4. \A i \in Versions : consumer.log[i].alive =>
          consumer.log[i].spec <= Live(consumer).spec
    BY <1>1, <1>3, StateTypes DEF HistoryInOrder
  <1>5. HistoryInOrder'
    BY <1>1, <1>2, <1>3, <1>4, StateTypes DEF HistoryInOrder, ConsumerObject
  <1>6. UpstreamInOrder'
    BY <1>1, <1>2, StateTypes DEF UpstreamInOrder, ProviderObject, ConsumerObject
  <1>7. (\A i \in Versions : Copyable(consumer.log[i]) => StillGuarded(consumer.log[i]))'
    BY <1>1, <1>2 DEF Copyable, StillGuarded
  <1>8. UpstreamIsGuarded'
    BY <1>1, <1>2 DEF UpstreamIsGuarded, OfThisConsumer
  <1>9. ASSUME UNCHANGED specW PROVE SpecWorkerInv'
    BY <1>1, <1>2, <1>9, StateTypes
       DEF SpecWorkerInv, Copyable, StillGuarded, TypeOK, ConsumerObject
  <1>10. ASSUME UNCHANGED statusW PROVE StatusWorkerInv'
    BY <1>1, <1>2, <1>10, StateTypes DEF StatusWorkerInv, TypeOK
  <1>11. QED
    BY <1>2, <1>5, <1>6, <1>7, <1>8, <1>9, <1>10 DEF StoreInv

\* The removal of a consumer object of which no version with the finalizer on it
\* is left to read.
LEMMA GoneWrite ==
  ASSUME SyncInv, consumer' = Write(consumer, NoConsumer),
         UNCHANGED <<provider, edits>>,
         \A i \in Versions : ~Copyable(consumer.log[i])
  PROVE  /\ IsWatched(consumer, ConsumerObject)'
         /\ StoreInv'
         /\ UNCHANGED specW /\ ~Copyable(specW.obj) => SpecWorkerInv'
         /\ UNCHANGED statusW => StatusWorkerInv'
  <1>1. /\ TypeOK /\ HistoryInOrder /\ UpstreamInOrder /\ SpecWorkerInv /\ StatusWorkerInv
    BY DEF SyncInv
  <1>2. NoConsumer \in ConsumerObject /\ ~NoConsumer.alive
    BY ObjectTypes DEF NoConsumer
  <1>3. /\ IsWatched(consumer, ConsumerObject)'
        /\ Live(consumer)' = NoConsumer
        /\ consumer'.rv = consumer.rv + 1
        /\ consumer'.seen = consumer.seen
        /\ \A i \in Versions' : \/ i \in Versions /\ consumer'.log[i] = consumer.log[i]
                                \/ i = consumer.rv + 1 /\ consumer'.log[i] = NoConsumer
    BY <1>1, <1>2, ConsumerWrite
  <1>4. HistoryInOrder'
    BY <1>1, <1>2, <1>3 DEF HistoryInOrder
  <1>5. UpstreamInOrder'
    BY <1>1, <1>2, <1>3 DEF UpstreamInOrder
  <1>6. (\A i \in Versions : Copyable(consumer.log[i]) => StillGuarded(consumer.log[i]))'
    BY <1>2, <1>3 DEF Copyable
  <1>7. UpstreamIsGuarded'
    BY <1>2, <1>3 DEF UpstreamIsGuarded, OfThisConsumer
  <1>8. ASSUME UNCHANGED specW, ~Copyable(specW.obj) PROVE SpecWorkerInv'
    BY <1>1, <1>2, <1>3, <1>8, StateTypes DEF SpecWorkerInv, Copyable, TypeOK
  <1>9. ASSUME UNCHANGED statusW PROVE StatusWorkerInv'
    BY <1>1, <1>3, <1>9, StateTypes DEF StatusWorkerInv, TypeOK
  <1>10. QED
    BY <1>3, <1>4, <1>5, <1>6, <1>7, <1>8, <1>9 DEF StoreInv

-----------------------------------------------------------------------------
(* The user.                                                               *)

\* The user creates the object: no version read before has the finalizer, since
\* the object was gone.
LEMMA UserCreateStep ==
  ASSUME SyncInv, UserCreate
  PROVE  SyncInv'
  <1> DEFINE c == NewConsumer(edits + 1)
  <1>1. /\ TypeOK /\ HistoryInOrder /\ UpstreamInOrder /\ SpecWorkerInv /\ StatusWorkerInv
        /\ \A i \in Versions : Copyable(consumer.log[i]) => StillGuarded(consumer.log[i])
    BY DEF SyncInv
  <1>2. /\ consumer' = Write(consumer, c)
        /\ edits' = edits + 1
        /\ ~Live(consumer).alive
        /\ UNCHANGED <<provider, specW, statusW>>
    BY DEF UserCreate
  <1>3. edits \in Nat /\ edits + 1 \in Nat /\ edits + 1 \in Numbers
    BY <1>1, ConstantsAssumption DEF TypeOK, UserCreate
  <1>4. c \in ConsumerObject
    BY <1>3, ObjectTypes
  <1>5. /\ c.alive /\ c.uid = edits + 1 /\ c.spec = edits + 1 /\ ~c.fin
    BY DEF NewConsumer
  <1> HIDE DEF c
  <1>6. /\ IsWatched(consumer, ConsumerObject)'
        /\ Live(consumer)' = c
        /\ consumer'.rv = consumer.rv + 1
        /\ consumer'.seen = consumer.seen
        /\ \A i \in Versions' : \/ i \in Versions /\ consumer'.log[i] = consumer.log[i]
                                \/ i = consumer.rv + 1 /\ consumer'.log[i] = c
    BY <1>1, <1>2, <1>4, ConsumerWrite
  <1>7. \A i \in Versions : ~Copyable(consumer.log[i])
    BY <1>1, <1>2 DEF StillGuarded
  <1>8. TypeOK'
    BY <1>1, <1>6, ConstantsAssumption DEF TypeOK, UserCreate, namespaces
  <1>9. \A i \in Versions : i <= consumer.rv
    BY <1>1, StateTypes DEF Versions
  <1>10. HistoryInOrder'
    BY <1>1, <1>2, <1>3, <1>5, <1>6, <1>9, StateTypes DEF HistoryInOrder, ConsumerObject
  <1>11. UpstreamInOrder'
    BY <1>1, <1>2, <1>3, <1>5, <1>6, StateTypes DEF UpstreamInOrder, ProviderObject
  <1>12. (\A i \in Versions : Copyable(consumer.log[i]) => StillGuarded(consumer.log[i]))'
    BY <1>5, <1>7, <1>6 DEF Copyable
  <1>13. SpecWorkerInv'
    BY <1>1, <1>2, <1>3, <1>5, <1>6, StateTypes
       DEF SpecWorkerInv, Copyable, StillGuarded, TypeOK, ConsumerObject
  <1>14. StatusWorkerInv'
    BY <1>1, <1>2, <1>6, StateTypes DEF StatusWorkerInv, TypeOK
  <1>15. UpstreamIsGuarded'
    BY <1>1, <1>2, <1>3, <1>5, <1>6, StateTypes
       DEF UpstreamInOrder, UpstreamIsGuarded, OfThisConsumer, ProviderObject
  <1>16. QED
    BY <1>8, <1>10, <1>11, <1>12, <1>13, <1>14, <1>15 DEF SyncInv

\* The user writes a spec that is newer than any before it.
LEMMA UserEditStep ==
  ASSUME SyncInv, UserEdit
  PROVE  SyncInv'
  <1> DEFINE c == [Live(consumer) EXCEPT !.spec = edits + 1]
  <1>1. TypeOK /\ HistoryInOrder
    BY DEF SyncInv
  <1>2. /\ consumer' = Write(consumer, c)
        /\ edits' = edits + 1
        /\ Live(consumer).alive
        /\ UNCHANGED <<provider, specW, statusW>>
    BY DEF UserEdit
  <1>3. edits \in Nat /\ Live(consumer) \in ConsumerObject /\ edits + 1 \in Numbers
    BY <1>1, StateTypes, ConstantsAssumption DEF TypeOK, UserEdit
  <1>4. /\ c \in ConsumerObject
        /\ c.alive = Live(consumer).alive
        /\ c.uid = Live(consumer).uid
        /\ c.spec = edits + 1
        /\ c.fin = Live(consumer).fin
    BY <1>3 DEF ConsumerObject
  <1>5. Live(consumer).spec <= edits
    BY <1>1, <1>2, StateTypes DEF HistoryInOrder
  <1> HIDE DEF c
  <1>6. /\ IsWatched(consumer, ConsumerObject)'
        /\ StoreInv'
        /\ UNCHANGED specW => SpecWorkerInv'
        /\ UNCHANGED statusW => StatusWorkerInv'
    <2>1. edits' \in Nat /\ edits <= edits' /\ Live(consumer).spec <= c.spec /\ c.spec <= edits'
      BY <1>2, <1>3, <1>4, <1>5 DEF ConsumerObject
    <2>2. QED
      BY <1>2, <1>4, <2>1, AliveWrite
  <1>7. TypeOK'
    BY <1>1, <1>6, ConstantsAssumption DEF TypeOK, UserEdit, namespaces
  <1>8. QED
    BY <1>2, <1>6, <1>7 DEF SyncInv, StoreInv

\* The user deletes the object: with the finalizer it only begins to be deleted,
\* without it no version with the finalizer is left to read.
LEMMA UserDeleteStep ==
  ASSUME SyncInv, UserDelete
  PROVE  SyncInv'
  <1> DEFINE c == [Live(consumer) EXCEPT !.deleting = TRUE]
  <1>1. /\ TypeOK /\ HistoryInOrder /\ SpecWorkerInv
        /\ \A i \in Versions : Copyable(consumer.log[i]) => StillGuarded(consumer.log[i])
    BY DEF SyncInv
  <1>2. Live(consumer) \in ConsumerObject /\ edits \in Nat
    BY <1>1, StateTypes
  <1>3. /\ c \in ConsumerObject
        /\ c.alive = Live(consumer).alive
        /\ c.uid = Live(consumer).uid
        /\ c.spec = Live(consumer).spec
        /\ c.fin = Live(consumer).fin
    BY <1>2 DEF ConsumerObject
  <1>4. /\ Live(consumer).alive
        /\ UNCHANGED <<provider, specW, statusW, edits>>
        /\ consumer' = Write(consumer, IF Live(consumer).fin THEN c ELSE NoConsumer)
    BY DEF UserDelete, budgets
  <1>5. Live(consumer).spec <= edits /\ Live(consumer).spec \in Nat
    BY <1>1, <1>2, <1>4, StateTypes DEF HistoryInOrder, ConsumerObject
  <1> HIDE DEF c
  <1>6. CASE Live(consumer).fin
    <2>1. /\ IsWatched(consumer, ConsumerObject)'
          /\ StoreInv'
          /\ UNCHANGED specW => SpecWorkerInv'
          /\ UNCHANGED statusW => StatusWorkerInv'
      <3>1. /\ consumer' = Write(consumer, c)
            /\ edits' \in Nat /\ edits <= edits'
            /\ Live(consumer).spec <= c.spec /\ c.spec <= edits'
        BY <1>2, <1>3, <1>4, <1>5, <1>6
      <3>2. QED
        BY <1>3, <1>4, <3>1, AliveWrite
    <2>2. TypeOK'
      BY <1>1, <2>1 DEF TypeOK, UserDelete, namespaces, budgets
    <2>3. QED
      BY <1>4, <2>1, <2>2 DEF SyncInv, StoreInv
  <1>7. CASE ~Live(consumer).fin
    <2>1. \A i \in Versions : ~Copyable(consumer.log[i])
      BY <1>1, <1>7 DEF StillGuarded
    <2>2. /\ IsWatched(consumer, ConsumerObject)'
          /\ StoreInv'
          /\ UNCHANGED specW /\ ~Copyable(specW.obj) => SpecWorkerInv'
          /\ UNCHANGED statusW => StatusWorkerInv'
      BY <1>4, <1>7, <2>1, GoneWrite
    <2>3. SpecWorkerInv'
      <3>1. CASE specW.pc = "idle"
        BY <1>4, <3>1 DEF SpecWorkerInv
      <3>2. CASE specW.pc # "idle"
        BY <1>1, <1>4, <1>7, <2>2, <3>2 DEF SpecWorkerInv, StillGuarded
      <3>3. QED
        BY <3>1, <3>2
    <2>4. TypeOK'
      BY <1>1, <2>2 DEF TypeOK, UserDelete, namespaces, budgets
    <2>5. QED
      BY <1>4, <2>2, <2>3, <2>4 DEF SyncInv, StoreInv
  <1>8. QED
    BY <1>6, <1>7

-----------------------------------------------------------------------------
(* The provider and the backend.                                           *)

\* A change of the provider object that does not touch its spec, or removes it.
LEMMA ProviderChange ==
  ASSUME SyncInv, ProviderMoves, UNCHANGED <<consumer, edits>>,
         Live(provider)'.alive => /\ Live(provider).alive
                                  /\ Live(provider)'.spec = Live(provider).spec
  PROVE  /\ StoreInv'
         /\ UNCHANGED specW => SpecWorkerInv'
         /\ UNCHANGED statusW => StatusWorkerInv'
  <1>1. /\ TypeOK /\ HistoryInOrder /\ UpstreamInOrder /\ SpecWorkerInv /\ StatusWorkerInv
        /\ \A i \in Versions : Copyable(consumer.log[i]) => StillGuarded(consumer.log[i])
        /\ UpstreamIsGuarded
    BY DEF SyncInv
  <1>2. Versions' = Versions /\ Live(consumer)' = Live(consumer)
    BY DEF Versions
  <1>3. HistoryInOrder' /\ UpstreamInOrder'
    BY <1>1, <1>2 DEF HistoryInOrder, UpstreamInOrder
  <1>4. (\A i \in Versions : Copyable(consumer.log[i]) => StillGuarded(consumer.log[i]))'
    BY <1>1, <1>2 DEF StillGuarded
  <1>5. UpstreamIsGuarded'
    BY <1>1, <1>2 DEF UpstreamIsGuarded, OfThisConsumer
  <1>6. ASSUME UNCHANGED specW PROVE SpecWorkerInv'
    BY <1>1, <1>2, <1>6, StateTypes DEF SpecWorkerInv, StillGuarded, ProviderMoves, TypeOK
  <1>7. ASSUME UNCHANGED statusW PROVE StatusWorkerInv'
    BY <1>1, <1>2, <1>7 DEF StatusWorkerInv
  <1>8. QED
    BY <1>3, <1>4, <1>5, <1>6, <1>7 DEF StoreInv

\* The provider's own operations keep the spec of the upstream object.
LEMMA ProviderStep ==
  ASSUME SyncInv, ProviderStatus \/ ProviderHold \/ ProviderDelete \/ ProviderRelease
  PROVE  SyncInv'
  <1>1. TypeOK /\ Live(provider) \in ProviderObject
    BY StateTypes DEF SyncInv
  <1>2. /\ UNCHANGED <<consumer, edits, specW, statusW, sns, snsCache, specQ, statusQ, faults>>
        /\ providerOps' \in 0 .. MaxProviderOps
    <2>1. ASSUME NEW o, ProviderWrite(o)
          PROVE  <1>2!1 /\ <1>2!2
      BY <1>1, <2>1, ConstantsAssumption DEF TypeOK, ProviderWrite, namespaces
    <2>2. CASE ProviderRelease
      BY <1>1, <2>2 DEF TypeOK, ProviderRelease, namespaces, budgets
    <2>3. CASE ProviderStatus \/ ProviderHold \/ ProviderDelete
      <3>1. \E o : ProviderWrite(o)
        BY <2>3, Zenon DEF ProviderStatus, ProviderHold, ProviderDelete
      <3>2. QED
        BY <2>1, <3>1
    <2>4. QED
      BY <2>2, <2>3
  <1>3. /\ ProviderMoves
        /\ Live(provider)'.alive => /\ Live(provider).alive
                                    /\ Live(provider)'.spec = Live(provider).spec
    <2>1. CASE ProviderStatus
      <3>1. PICK s \in Statuses :
              /\ provider' = Write(provider, [Live(provider) EXCEPT !.status = s])
              /\ Live(provider).alive
        BY <2>1 DEF ProviderStatus, ProviderWrite
      <3>2. [Live(provider) EXCEPT !.status = s] \in ProviderObject
        BY <1>1 DEF ProviderObject, AllStatuses
      <3>3. [Live(provider) EXCEPT !.status = s].spec = Live(provider).spec
        BY <1>1 DEF ProviderObject
      <3>4. QED
        BY <1>1, <3>1, <3>2, <3>3, ProviderWriteLemma
    <2>2. CASE ProviderHold
      <3>1. /\ provider' = Write(provider, [Live(provider) EXCEPT !.held = TRUE])
            /\ Live(provider).alive
        BY <2>2 DEF ProviderHold, ProviderWrite
      <3>2. [Live(provider) EXCEPT !.held = TRUE] \in ProviderObject
        BY <1>1 DEF ProviderObject
      <3>3. [Live(provider) EXCEPT !.held = TRUE].spec = Live(provider).spec
        BY <1>1 DEF ProviderObject
      <3>4. QED
        BY <1>1, <3>1, <3>2, <3>3, ProviderWriteLemma
    <2>3. CASE ProviderDelete
      <3>1. provider' = DeleteUpstream(provider)
        BY <2>3 DEF ProviderDelete, ProviderWrite
      <3>2. QED
        BY <1>1, <3>1, DeleteLemma
    <2>4. CASE ProviderRelease
      <3>1. provider' = Write(provider, NoProvider) /\ ~NoProvider.alive
        BY <2>4 DEF ProviderRelease, NoProvider
      <3>2. QED
        BY <1>1, <3>1, ObjectTypes, ProviderWriteLemma
    <2>5. QED
      BY <2>1, <2>2, <2>3, <2>4
  <1>4. TypeOK'
    BY <1>1, <1>2, <1>3 DEF TypeOK, ProviderMoves
  <1>5. QED
    BY <1>2, <1>3, <1>4, ProviderChange DEF SyncInv, StoreInv

\* A step that leaves both objects alone.
LEMMA StoreUnchanged ==
  ASSUME SyncInv, UNCHANGED <<consumer, provider, edits>>
  PROVE  /\ StoreInv'
         /\ UNCHANGED specW => SpecWorkerInv'
         /\ UNCHANGED statusW => StatusWorkerInv'
  BY DEF SyncInv, StoreInv, HistoryInOrder, UpstreamInOrder, SpecWorkerInv,
         StatusWorkerInv, UpstreamIsGuarded, OfThisConsumer, StillGuarded, Versions

\* The backend makes the namespace: no object changes.
LEMMA BackendReadyStep ==
  ASSUME SyncInv, BackendReady
  PROVE  SyncInv'
  <1>1. UNCHANGED <<consumer, provider, specW, statusW, edits>>
    BY DEF BackendReady, objects, budgets
  <1>2. TypeOK'
    BY DEF SyncInv, TypeOK, BackendReady, objects, budgets
  <1>3. QED
    BY <1>1, <1>2, StoreUnchanged DEF SyncInv, StoreInv

-----------------------------------------------------------------------------
(* The informers.                                                          *)

\* The informer of the consumer object moves on: there is less left to read, and
\* nothing stored changes.
LEMMA ConsumerMovesOn ==
  ASSUME SyncInv, IsWatched(consumer, ConsumerObject)',
         UNCHANGED <<provider, edits>>,
         consumer'.rv = consumer.rv,
         Live(consumer)' = Live(consumer),
         consumer.seen <= consumer'.seen,
         \A i \in Versions' : i \in Versions /\ consumer'.log[i] = consumer.log[i]
  PROVE  /\ StoreInv'
         /\ UNCHANGED specW => SpecWorkerInv'
         /\ UNCHANGED statusW => StatusWorkerInv'
  <1>1. /\ TypeOK /\ HistoryInOrder /\ UpstreamInOrder /\ SpecWorkerInv /\ StatusWorkerInv
        /\ \A i \in Versions : Copyable(consumer.log[i]) => StillGuarded(consumer.log[i])
        /\ UpstreamIsGuarded
    BY DEF SyncInv
  <1>2. HistoryInOrder' /\ UpstreamInOrder'
    BY <1>1 DEF HistoryInOrder, UpstreamInOrder
  <1>3. (\A i \in Versions : Copyable(consumer.log[i]) => StillGuarded(consumer.log[i]))'
    BY <1>1 DEF StillGuarded
  <1>4. UpstreamIsGuarded'
    BY <1>1 DEF UpstreamIsGuarded, OfThisConsumer
  <1>5. ASSUME UNCHANGED specW PROVE SpecWorkerInv'
    <2>1. specW.at \in Nat /\ consumer.seen \in Nat /\ consumer'.seen \in Nat
      BY <1>1, StateTypes DEF TypeOK, IsWatched
    <2>2. specW.at <= consumer.seen => specW.at <= consumer'.seen
      BY <2>1
    <2>3. QED
      BY <1>1, <1>5, <2>2 DEF SpecWorkerInv, StillGuarded
  <1>6. ASSUME UNCHANGED statusW PROVE StatusWorkerInv'
    BY <1>1, <1>6 DEF StatusWorkerInv
  <1>7. QED
    BY <1>2, <1>3, <1>4, <1>5, <1>6 DEF StoreInv

\* The consumer's informer moves on: fewer versions are left to read.
LEMMA DeliverConsumerStep ==
  ASSUME SyncInv, DeliverConsumer
  PROVE  SyncInv'
  <1>1. TypeOK /\ IsWatched(consumer, ConsumerObject)
    BY DEF SyncInv, TypeOK
  <1>2. /\ Lagging(consumer)
        /\ consumer' = Deliver(consumer)
        /\ UNCHANGED <<provider, specW, statusW, edits>>
    BY DEF DeliverConsumer, budgets
  <1>3. /\ IsWatched(consumer, ConsumerObject)'
        /\ consumer'.rv = consumer.rv
        /\ consumer'.seen = consumer.seen + 1
        /\ Live(consumer)' = Live(consumer)
        /\ \A i \in (consumer.seen + 1) .. consumer.rv : consumer'.log[i] = consumer.log[i]
    BY <1>1, <1>2, DeliverLemma
  <1>4. /\ consumer.seen <= consumer'.seen
        /\ \A i \in Versions' : i \in Versions /\ consumer'.log[i] = consumer.log[i]
    BY <1>1, <1>3, StateTypes DEF Versions
  <1>5. TypeOK'
    BY <1>1, <1>3 DEF TypeOK, DeliverConsumer, SpecOnConsumer, StatusOnConsumer,
                      Translates, namespaces, budgets
  <1>6. QED
    BY <1>2, <1>3, <1>4, <1>5, ConsumerMovesOn DEF SyncInv, StoreInv

\* The provider's informer moves on: the stored object is the same.
LEMMA DeliverProviderStep ==
  ASSUME SyncInv, DeliverProvider
  PROVE  SyncInv'
  <1>1. TypeOK /\ IsWatched(provider, ProviderObject)
    BY DEF SyncInv, TypeOK
  <1>2. /\ Lagging(provider)
        /\ provider' = Deliver(provider)
        /\ UNCHANGED <<consumer, specW, statusW, edits>>
    BY DEF DeliverProvider, budgets
  <1>3. /\ IsWatched(provider, ProviderObject)'
        /\ provider'.rv = provider.rv
        /\ Live(provider)' = Live(provider)
    BY <1>1, <1>2, DeliverLemma
  <1>4. TypeOK'
    BY <1>1, <1>3 DEF TypeOK, DeliverProvider, SpecOnProvider, StatusOnProvider,
                      Translates, namespaces, budgets
  <1>5. QED
    BY <1>2, <1>3, <1>4
       DEF SyncInv, HistoryInOrder, UpstreamInOrder, SpecWorkerInv, StatusWorkerInv,
           UpstreamIsGuarded, OfThisConsumer, StillGuarded, Versions

\* The APIServiceNamespace's informer moves on: no object changes.
LEMMA DeliverServiceNamespaceStep ==
  ASSUME SyncInv, DeliverServiceNamespace
  PROVE  SyncInv'
  <1>1. UNCHANGED <<consumer, provider, specW, statusW, edits>>
    BY DEF DeliverServiceNamespace, objects, budgets
  <1>2. Cached(consumer) \in ConsumerObject /\ Cached(provider) \in ProviderObject
    BY StateTypes DEF SyncInv
  <1>3. TypeOK'
    BY <1>2 DEF SyncInv, TypeOK, DeliverServiceNamespace, SpecOnServiceNamespace,
                StatusOnServiceNamespace, objects, budgets, ConsumerObject, ProviderObject
  <1>4. QED
    BY <1>1, <1>3, StoreUnchanged DEF SyncInv, StoreInv

\* A resync only fills the queues.
LEMMA ResyncStep ==
  ASSUME SyncInv, Resync
  PROVE  SyncInv'
  <1>1. UNCHANGED <<consumer, provider, specW, statusW, edits>>
    BY DEF Resync, objects, budgets
  <1>2. TypeOK'
    BY DEF SyncInv, TypeOK, Resync, Translates, objects, namespaces, budgets
  <1>3. QED
    BY <1>1, <1>2, StoreUnchanged DEF SyncInv, StoreInv

-----------------------------------------------------------------------------
(* The spec worker.                                                        *)

\* A worker that is idle, or retries, holds nothing.
LEMMA SpecIdle ==
  ASSUME SpecDone \/ SpecRetry, specQ \in BOOLEAN
  PROVE  /\ specW'.pc = "idle"
         /\ specQ' \in BOOLEAN
         /\ specW' = IdleSpec
         /\ SpecWorkerInv'
  <1>1. specW' = IdleSpec /\ IdleSpec.pc = "idle"
    BY DEF SpecDone, SpecRetry, IdleSpec
  <1>2. specQ' \in BOOLEAN
    BY DEF SpecDone, SpecRetry
  <1>3. QED
    BY <1>1, <1>2 DEF SpecWorkerInv

\* The type of the spec worker.
SpecWorkerType ==
  [pc: {"idle", "namespace", "lookup", "finalize", "create",
        "patch", "delete", "unfinalize"},
   obj: ConsumerObject, at: Nat, up: ProviderObject, upAt: Nat]

\* The idle workers are typed.
LEMMA IdleTypes ==
  /\ IdleSpec \in SpecWorkerType
  /\ IdleStatus \in [pc: {"idle", "lookup", "update", "delete"},
                     up: ProviderObject, down: ConsumerObject, at: Nat]
  BY ObjectTypes DEF IdleSpec, IdleStatus, SpecWorkerType

\* The spec worker reads a version that the invariant speaks of.
LEMMA SpecGetStep ==
  ASSUME SyncInv, SpecGet
  PROVE  SyncInv'
  <1>1. /\ TypeOK /\ HistoryInOrder /\ UpstreamInOrder
        /\ \A i \in Versions : Copyable(consumer.log[i]) => StillGuarded(consumer.log[i])
    BY DEF SyncInv
  <1>2. UNCHANGED <<consumer, provider, edits, statusW>>
    BY DEF SpecGet, objects, SpecUnchanged
  <1>3. Cached(consumer) \in ConsumerObject /\ consumer.seen \in Nat
    BY <1>1, StateTypes
  <1>4. CASE ~Cached(consumer).alive
    <2>1. specW' = IdleSpec
      BY <1>4 DEF SpecGet
    <2>2. TypeOK'
      BY <1>1, <2>1, IdleTypes
         DEF TypeOK, SpecGet, SpecUnchanged, objects, namespaces, SpecWorkerType
    <2>3. SpecWorkerInv'
      BY <2>1 DEF SpecWorkerInv, IdleSpec
    <2>4. QED
      BY <1>2, <2>2, <2>3, StoreUnchanged DEF SyncInv, StoreInv
  <1>5. CASE Cached(consumer).alive
    <2>1. /\ specW' \in SpecWorkerType
          /\ specW'.pc = "namespace"
          /\ specW'.obj = Cached(consumer)
          /\ specW'.at = consumer.seen
      BY <1>3, <1>5, IdleTypes DEF SpecGet, SpecWorkerType, IdleSpec
    <2>2. TypeOK'
      BY <1>1, <2>1 DEF TypeOK, SpecGet, SpecUnchanged, objects, namespaces, SpecWorkerType
    <2>3. \A i \in Versions : consumer.seen <= i
      BY <1>1, StateTypes DEF Versions
    <2>4. SpecWorkerInv'
      BY <1>1, <1>2, <1>3, <1>5, <2>1, <2>3, StateTypes
         DEF SpecWorkerInv, HistoryInOrder, UpstreamInOrder, StillGuarded, Versions
    <2>5. QED
      BY <1>2, <2>2, <2>4, StoreUnchanged DEF SyncInv, StoreInv
  <1>6. QED
    BY <1>4, <1>5

\* What SpecCall leaves in the worker.
LEMMA SpecCallLemma ==
  ASSUME NEW pc \in {"lookup", "finalize", "create", "patch", "delete", "unfinalize"},
         NEW obj \in ConsumerObject, NEW at \in Nat,
         NEW up \in ProviderObject, NEW upAt \in Nat,
         SpecCall(pc, obj, at, up, upAt)
  PROVE  /\ specW' \in SpecWorkerType
         /\ specW'.pc = pc /\ specW'.obj = obj /\ specW'.at = at
         /\ specW'.up = up /\ specW'.upAt = upAt
         /\ specQ' = specQ
  BY DEF SpecCall, SpecWorkerType

\* The spec worker passes the namespace with the object it holds.
LEMMA SpecServiceNamespaceStep ==
  ASSUME SyncInv, SpecServiceNamespace
  PROVE  SyncInv'
  <1>1. TypeOK /\ SpecWorkerInv /\ specW \in SpecWorkerType /\ specW.pc = "namespace"
    BY DEF SyncInv, TypeOK, SpecServiceNamespace, SpecWorkerType
  <1>2. UNCHANGED <<consumer, provider, edits, statusW, snsCache, statusQ, providerOps, faults>>
    BY DEF SpecServiceNamespace, objects, SpecUnchanged
  <1>3. sns' \in 0 .. 2 /\ snsCache' \in 0 .. sns'
    BY <1>1, <1>2 DEF SpecServiceNamespace, TypeOK
  <1>4. specW' \in SpecWorkerType /\ specQ' \in BOOLEAN /\ SpecWorkerInv'
    <2>1. CASE Translates
      <3>1. SpecCall("lookup", specW.obj, specW.at, NoProvider, 0)
        BY <2>1 DEF SpecServiceNamespace
      <3>2. specW.obj \in ConsumerObject /\ specW.at \in Nat
        BY <1>1 DEF SpecWorkerType
      <3>3. /\ specW' \in SpecWorkerType
            /\ specW'.pc = "lookup" /\ specW'.obj = specW.obj /\ specW'.at = specW.at
            /\ specQ' = specQ
        BY <3>1, <3>2, ObjectTypes, SpecCallLemma
      <3>4. SpecWorkerInv'
        BY <1>1, <1>2, <3>3 DEF SpecWorkerInv, StillGuarded, Versions
      <3>5. QED
        BY <1>1, <3>3, <3>4 DEF TypeOK
    <2>2. CASE ~Translates
      BY <1>1, <2>2, SpecIdle, IdleTypes DEF SpecServiceNamespace, TypeOK
    <2>3. QED
      BY <2>1, <2>2
  <1>5. TypeOK'
    BY <1>1, <1>2, <1>3, <1>4 DEF TypeOK, SpecWorkerType
  <1>6. QED
    BY <1>2, <1>4, <1>5, StoreUnchanged DEF SyncInv, StoreInv

\* The worker invariant survives a step from the lookup of the same object.
LEMMA SpecLookupStep ==
  ASSUME SyncInv, SpecLookup
  PROVE  SyncInv'
  <1> DEFINE obj == specW.obj
             up  == Cached(provider)
             Go(pc) == SpecCall(pc, obj, specW.at, up, provider.seen)
  <1>1. TypeOK /\ SpecWorkerInv /\ specW \in SpecWorkerType /\ specW.pc = "lookup"
    BY DEF SyncInv, TypeOK, SpecLookup, SpecWorkerType
  <1>2. UNCHANGED <<consumer, provider, edits, statusW, sns, snsCache, statusQ,
                    providerOps, faults>>
    BY DEF SpecLookup, objects, namespaces, SpecUnchanged
  <1>3. /\ obj \in ConsumerObject /\ specW.at \in Nat
        /\ up \in ProviderObject /\ provider.seen \in Nat /\ provider.rv \in Nat
        /\ provider.seen <= provider.rv
        /\ provider.seen = provider.rv => up = Live(provider)
    BY <1>1, StateTypes DEF SpecWorkerType, Live, Cached
  <1>4. \/ SpecDone
        \/ obj.deleting /\ Go("unfinalize")
        \/ ~obj.deleting /\ Go("finalize")
        \/ ~obj.deleting /\ obj.fin /\ Go("create")
        \/ obj.deleting /\ Go("delete")
        \/ ~obj.deleting /\ obj.fin /\ up.alive /\ Go("patch")
    BY <1>3 DEF SpecLookup, SpecCompare, ConsumerObject, ProviderObject
  <1>5. specW' \in SpecWorkerType /\ specQ' \in BOOLEAN /\ SpecWorkerInv'
    <2>1. CASE SpecDone
      BY <1>1, <2>1, SpecIdle, IdleTypes DEF TypeOK
    <2>2. ASSUME NEW pc \in {"finalize", "create", "patch", "delete", "unfinalize"}, Go(pc),
                 pc \in {"create", "patch"} => obj.fin /\ ~obj.deleting,
                 pc = "finalize" => ~obj.deleting,
                 pc \in {"delete", "unfinalize"} => obj.deleting,
                 pc = "patch" => up.alive
          PROVE  specW' \in SpecWorkerType /\ specQ' \in BOOLEAN /\ SpecWorkerInv'
      <3>1. /\ specW' \in SpecWorkerType
            /\ specW'.pc = pc /\ specW'.obj = obj /\ specW'.at = specW.at
            /\ specW'.up = up /\ specW'.upAt = provider.seen
            /\ specQ' = specQ
        BY <1>3, <2>2, SpecCallLemma
      <3>2. SpecWorkerInv'
        BY <1>1, <1>2, <1>3, <2>2, <3>1 DEF SpecWorkerInv, StillGuarded, Versions, Copyable
      <3>3. QED
        BY <1>1, <3>1, <3>2 DEF TypeOK
    <2> HIDE DEF Go, obj, up
    <2>3. QED
      BY <1>4, <2>1, <2>2
  <1>6. TypeOK'
    BY <1>1, <1>2, <1>5 DEF TypeOK, SpecWorkerType
  <1>7. QED
    BY <1>2, <1>5, <1>6, StoreUnchanged DEF SyncInv, StoreInv

\* The finalizer is put on the stored object, or there is a conflict.
LEMMA SpecFinalizeStep ==
  ASSUME SyncInv, SpecFinalize
  PROVE  SyncInv'
  <1> DEFINE obj == [specW.obj EXCEPT !.fin = TRUE]
             at  == consumer.rv + 1
  <1>1. /\ TypeOK /\ SpecWorkerInv /\ specW \in SpecWorkerType /\ specW.pc = "finalize"
        /\ HistoryInOrder /\ UpstreamInOrder
    BY DEF SyncInv, TypeOK, SpecFinalize, SpecWorkerType
  <1>2. UNCHANGED <<provider, edits, statusW, sns, snsCache, statusQ, providerOps, faults>>
    BY DEF SpecFinalize, namespaces, SpecUnchanged
  <1>3. /\ specW.obj \in ConsumerObject /\ at \in Nat /\ consumer.rv \in Nat
        /\ specW.up \in ProviderObject /\ specW.upAt \in Nat
    BY <1>1, StateTypes DEF SpecWorkerType
  <1>4. /\ obj \in ConsumerObject
        /\ obj.alive = specW.obj.alive /\ obj.uid = specW.obj.uid
        /\ obj.spec = specW.obj.spec /\ obj.deleting = specW.obj.deleting
        /\ obj.fin
    BY <1>3 DEF ConsumerObject
  <1>5. CASE specW.at # consumer.rv
    <2>1. consumer' = consumer /\ SpecRetry
      BY <1>5 DEF SpecFinalize
    <2>2. specQ' \in BOOLEAN /\ specW' = IdleSpec /\ SpecWorkerInv'
      BY <1>1, <2>1, SpecIdle DEF TypeOK
    <2>3. TypeOK'
      BY <1>1, <1>2, <2>1, <2>2, IdleTypes DEF TypeOK, SpecWorkerType
    <2>4. QED
      BY <1>2, <2>1, <2>2, <2>3, StoreUnchanged DEF SyncInv, StoreInv
  <1>6. CASE specW.at = consumer.rv
    <2>1. consumer' = Write(consumer, obj)
      BY <1>6 DEF SpecFinalize
    <2>2. specW.obj = Live(consumer) /\ Live(consumer).alive /\ ~obj.deleting
      BY <1>1, <1>4, <1>6 DEF SpecWorkerInv
    <2>3. Live(consumer).spec <= edits /\ edits \in Nat /\ Live(consumer).spec \in Nat
      BY <1>1, <1>3, <2>2, StateTypes DEF SpecWorkerInv, ConsumerObject
    <2>4. IsWatched(consumer, ConsumerObject)' /\ StoreInv' /\ StatusWorkerInv'
      <3>1. /\ edits' \in Nat /\ edits <= edits'
            /\ Live(consumer).spec <= obj.spec /\ obj.spec <= edits'
        BY <1>2, <1>4, <2>2, <2>3
      <3> HIDE DEF obj
      <3>2. QED
        BY <1>2, <1>4, <2>1, <2>2, <3>1, AliveWrite
    <2>5. /\ Live(consumer)' = obj
          /\ consumer'.rv = consumer.rv + 1
          /\ consumer'.seen = consumer.seen
          /\ \A i \in Versions' : \/ i \in Versions /\ consumer'.log[i] = consumer.log[i]
                                  \/ i = consumer.rv + 1 /\ consumer'.log[i] = obj
      <3> HIDE DEF obj
      <3>1. QED
        BY <1>1, <1>4, <2>1, ConsumerWrite
    <2>6. \/ SpecDone
          \/ SpecCall("create", obj, at, specW.up, specW.upAt)
          \/ SpecCall("patch", obj, at, specW.up, specW.upAt) /\ specW.up.alive
      BY <1>3, <1>6 DEF SpecFinalize, SpecCompare, ProviderObject
    <2>7. specW' \in SpecWorkerType /\ specQ' \in BOOLEAN /\ SpecWorkerInv'
      <3>1. CASE SpecDone
        BY <1>1, <3>1, SpecIdle, IdleTypes DEF TypeOK
      <3>2. ASSUME NEW pc \in {"create", "patch"},
                   SpecCall(pc, obj, at, specW.up, specW.upAt),
                   pc = "patch" => specW.up.alive
            PROVE  specW' \in SpecWorkerType /\ specQ' \in BOOLEAN /\ SpecWorkerInv'
        <4>1. /\ specW' \in SpecWorkerType
              /\ specW'.pc = pc /\ specW'.obj = obj /\ specW'.at = at
              /\ specW'.up = specW.up /\ specW'.upAt = specW.upAt
              /\ specQ' = specQ
          BY <1>3, <1>4, <3>2, SpecCallLemma
        <4> HIDE DEF obj
        <4>2. obj.spec <= obj.spec
          BY <1>4 DEF ConsumerObject
        <4>3. SpecWorkerInv'
          BY <1>1, <1>2, <1>3, <1>4, <2>2, <2>5, <3>2, <4>1, <4>2
             DEF SpecWorkerInv, Copyable, StillGuarded
        <4>4. QED
          BY <1>1, <4>1, <4>3 DEF TypeOK
      <3> HIDE DEF obj, at
      <3>3. QED
        BY <2>6, <3>1, <3>2
    <2>8. TypeOK'
      BY <1>1, <1>2, <2>4, <2>7 DEF TypeOK, SpecWorkerType
    <2>9. QED
      BY <2>4, <2>7, <2>8 DEF SyncInv, StoreInv
  <1>7. QED
    BY <1>5, <1>6

\* The spec worker's object goes upstream, and the worker is done.
LEMMA Copied ==
  ASSUME SyncInv, ProviderMoves, UNCHANGED <<consumer, edits, statusW>>,
         specW.pc \in {"create", "patch"},
         Live(provider)'.spec = specW.obj.spec
  PROVE  StoreInv' /\ StatusWorkerInv'
  <1>1. /\ TypeOK /\ HistoryInOrder /\ SpecWorkerInv /\ StatusWorkerInv
        /\ \A i \in Versions : Copyable(consumer.log[i]) => StillGuarded(consumer.log[i])
        /\ specW.pc # "idle"
    BY DEF SyncInv
  <1>2. Versions' = Versions /\ Live(consumer)' = Live(consumer)
    BY DEF Versions
  <1>3. HistoryInOrder' /\ UpstreamInOrder'
    BY <1>1, <1>2 DEF HistoryInOrder, UpstreamInOrder, SpecWorkerInv
  <1>4. (\A i \in Versions : Copyable(consumer.log[i]) => StillGuarded(consumer.log[i]))'
    BY <1>1, <1>2 DEF StillGuarded
  <1>5. UpstreamIsGuarded'
    BY <1>1, <1>2 DEF UpstreamIsGuarded, OfThisConsumer, SpecWorkerInv, StillGuarded
  <1>6. StatusWorkerInv'
    BY <1>1, <1>2 DEF StatusWorkerInv
  <1>7. QED
    BY <1>3, <1>4, <1>5, <1>6 DEF StoreInv

\* Upstream gets the spec of a consumer object that is still guarded.
LEMMA SpecCreateStep ==
  ASSUME SyncInv, SpecCreate
  PROVE  SyncInv'
  <1>1. TypeOK /\ specW \in SpecWorkerType /\ specW.pc = "create"
    BY DEF SyncInv, TypeOK, SpecCreate, SpecWorkerType
  <1>2. UNCHANGED <<consumer, edits, statusW, sns, snsCache, statusQ, providerOps, faults>>
    BY DEF SpecCreate, namespaces, SpecUnchanged
  <1>3. specQ' \in BOOLEAN /\ specW' = IdleSpec /\ SpecWorkerInv'
    BY <1>1, SpecIdle DEF SpecCreate, TypeOK
  <1>4. ProviderMoves /\ StoreInv' /\ StatusWorkerInv'
    <2>1. CASE Live(provider).alive
      <3>1. provider' = provider
        BY <2>1 DEF SpecCreate
      <3>2. QED
        BY <1>1, <1>2, <3>1, StoreUnchanged DEF ProviderMoves, TypeOK
    <2>2. CASE ~Live(provider).alive
      <3>1. provider' = Write(provider, CleanCopy(specW.obj))
        BY <2>2 DEF SpecCreate
      <3>2. CleanCopy(specW.obj) \in ProviderObject
        BY <1>1, ObjectTypes DEF SpecWorkerType
      <3>3. CleanCopy(specW.obj).spec = specW.obj.spec
        BY DEF CleanCopy
      <3>4. ProviderMoves /\ Live(provider)'.spec = specW.obj.spec
        BY <1>1, <3>1, <3>2, <3>3, ProviderWriteLemma
      <3>5. QED
        BY <1>1, <1>2, <3>4, Copied
    <2>3. QED
      BY <2>1, <2>2
  <1>5. TypeOK'
    BY <1>1, <1>2, <1>3, <1>4, IdleTypes DEF TypeOK, SpecWorkerType, ProviderMoves
  <1>6. QED
    BY <1>3, <1>4, <1>5 DEF SyncInv, StoreInv

\* A patch that is not in conflict changes the spec of the stored object, or
\* nothing at all.
LEMMA SpecPatchStep ==
  ASSUME SyncInv, SpecPatch
  PROVE  SyncInv'
  <1> DEFINE p == Apply(specW.up, specW.obj.spec, Sent(specW.obj, specW.up))
  <1>1. TypeOK /\ specW \in SpecWorkerType /\ specW.pc = "patch"
    BY DEF SyncInv, TypeOK, SpecPatch, SpecWorkerType
  <1>2. UNCHANGED <<consumer, edits, statusW, sns, snsCache, statusQ, providerOps, faults>>
    BY DEF SpecPatch, namespaces, SpecUnchanged
  <1>3. specQ' \in BOOLEAN /\ specW' = IdleSpec /\ SpecWorkerInv'
    BY <1>1, SpecIdle DEF SpecPatch, TypeOK
  <1>4. p \in ProviderObject /\ p.spec = specW.obj.spec
    BY <1>1, ApplyLemma DEF SpecWorkerType
  <1>5. provider' = provider \/ provider' = Write(provider, p)
    BY DEF SpecPatch, Patched
  <1> HIDE DEF p
  <1>6. ProviderMoves /\ StoreInv' /\ StatusWorkerInv'
    <2>1. CASE provider' = provider
      BY <1>1, <1>2, <2>1, StoreUnchanged DEF ProviderMoves, TypeOK
    <2>2. CASE provider' = Write(provider, p)
      <3>1. ProviderMoves /\ Live(provider)'.spec = specW.obj.spec
        BY <1>1, <1>4, <2>2, ProviderWriteLemma
      <3>2. QED
        BY <1>1, <1>2, <3>1, Copied
    <2>3. QED
      BY <1>5, <2>1, <2>2
  <1>7. TypeOK'
    BY <1>1, <1>2, <1>3, <1>6, IdleTypes DEF TypeOK, SpecWorkerType, ProviderMoves
  <1>8. QED
    BY <1>3, <1>6, <1>7 DEF SyncInv, StoreInv

\* The spec worker deletes upstream: the object it holds is deleting.
LEMMA SpecDeleteStep ==
  ASSUME SyncInv, SpecDelete
  PROVE  SyncInv'
  <1>1. TypeOK /\ SpecWorkerInv /\ specW \in SpecWorkerType /\ specW.pc = "delete"
    BY DEF SyncInv, TypeOK, SpecDelete, SpecWorkerType
  <1>2. UNCHANGED <<consumer, edits, statusW, sns, snsCache, statusQ, providerOps, faults>>
    BY DEF SpecDelete, namespaces, SpecUnchanged
  <1>3. /\ ProviderMoves
        /\ Live(provider)'.alive => /\ Live(provider).alive
                                    /\ Live(provider)'.spec = Live(provider).spec
    BY <1>1, DeleteLemma DEF SpecDelete
  <1>4. StoreInv' /\ StatusWorkerInv'
    BY <1>2, <1>3, ProviderChange
  <1>5. specW' \in SpecWorkerType /\ specQ' \in BOOLEAN /\ SpecWorkerInv'
    <2>1. CASE specW.obj.fin
      <3>1. SpecCall("unfinalize", specW.obj, specW.at, specW.up, specW.upAt)
        BY <2>1 DEF SpecDelete
      <3>2. /\ specW.obj \in ConsumerObject /\ specW.at \in Nat
            /\ specW.up \in ProviderObject /\ specW.upAt \in Nat
        BY <1>1 DEF SpecWorkerType
      <3>3. /\ specW' \in SpecWorkerType
            /\ specW'.pc = "unfinalize" /\ specW'.obj = specW.obj /\ specW'.at = specW.at
            /\ specQ' = specQ
        BY <3>1, <3>2, SpecCallLemma
      <3>4. SpecWorkerInv'
        BY <1>1, <1>2, <1>3, <3>3 DEF SpecWorkerInv, StillGuarded, Versions
      <3>5. QED
        BY <1>1, <3>3, <3>4 DEF TypeOK
    <2>2. CASE ~specW.obj.fin
      BY <1>1, <2>2, SpecIdle, IdleTypes DEF SpecDelete, TypeOK
    <2>3. QED
      BY <2>1, <2>2
  <1>6. TypeOK'
    BY <1>1, <1>2, <1>3, <1>5 DEF TypeOK, SpecWorkerType, ProviderMoves
  <1>7. QED
    BY <1>4, <1>5, <1>6 DEF SyncInv, StoreInv

\* The finalizer goes: no version that would be copied is left to read, because the
\* worker's object is deleting, was read from the cache and is still stored.
LEMMA SpecUnfinalizeStep ==
  ASSUME SyncInv, SpecUnfinalize
  PROVE  SyncInv'
  <1>1. TypeOK /\ SpecWorkerInv /\ specW \in SpecWorkerType /\ specW.pc = "unfinalize"
    BY DEF SyncInv, TypeOK, SpecUnfinalize, SpecWorkerType
  <1>2. UNCHANGED <<provider, edits, statusW, sns, snsCache, statusQ, providerOps, faults>>
    BY DEF SpecUnfinalize, namespaces, SpecUnchanged
  <1>3. specQ' \in BOOLEAN /\ specW' = IdleSpec /\ SpecWorkerInv'
    BY <1>1, SpecIdle DEF SpecUnfinalize, TypeOK
  <1>4. IsWatched(consumer, ConsumerObject)' /\ StoreInv' /\ StatusWorkerInv'
    <2>1. CASE specW.at # consumer.rv
      <3>1. consumer' = consumer
        BY <2>1 DEF SpecUnfinalize
      <3>2. QED
        BY <1>1, <1>2, <3>1, StoreUnchanged DEF TypeOK
    <2>2. CASE specW.at = consumer.rv
      <3>1. consumer' = Write(consumer, NoConsumer)
        BY <2>2 DEF SpecUnfinalize
      <3>2. specW.obj = Live(consumer) /\ specW.obj.deleting /\ consumer.rv <= consumer.seen
        BY <1>1, <2>2 DEF SpecWorkerInv
      <3>3. \A i \in Versions : consumer.log[i] = Live(consumer)
        BY <1>1, <3>2, StateTypes DEF Versions, Live
      <3>4. \A i \in Versions : ~Copyable(consumer.log[i])
        BY <3>2, <3>3 DEF Copyable
      <3>5. QED
        BY <1>2, <3>1, <3>4, GoneWrite
    <2>3. QED
      BY <2>1, <2>2
  <1>5. TypeOK'
    BY <1>1, <1>2, <1>3, <1>4, IdleTypes DEF TypeOK, SpecWorkerType
  <1>6. QED
    BY <1>3, <1>4, <1>5 DEF SyncInv, StoreInv

\* A failed request of the spec worker leaves the objects alone.
LEMMA SpecErrorStep ==
  ASSUME SyncInv, SpecError
  PROVE  SyncInv'
  <1>1. TypeOK
    BY DEF SyncInv
  <1>2. UNCHANGED <<consumer, provider, sns, snsCache, statusQ, statusW, edits, providerOps>>
    BY DEF SpecError, objects, namespaces
  <1>3. specQ' \in BOOLEAN /\ specW' = IdleSpec /\ SpecWorkerInv'
    BY <1>1, SpecIdle DEF SpecError, TypeOK
  <1>4. faults' \in 0 .. MaxFaults
    BY <1>1, ConstantsAssumption DEF TypeOK, SpecError
  <1>5. TypeOK'
    BY <1>1, <1>2, <1>3, <1>4, IdleTypes DEF TypeOK, SpecWorkerType
  <1>6. QED
    BY <1>2, <1>3, <1>5, StoreUnchanged DEF SyncInv, StoreInv

-----------------------------------------------------------------------------
(* The status worker.                                                      *)

StatusWorkerType ==
  [pc: {"idle", "lookup", "update", "delete"},
   up: ProviderObject, down: ConsumerObject, at: Nat]

\* A status worker that lets go of its object keeps the invariant.
LEMMA StatusIdle ==
  ASSUME StatusDone \/ StatusRetry, statusQ \in BOOLEAN
  PROVE  /\ statusQ' \in BOOLEAN
         /\ statusW' = IdleStatus
         /\ statusW' \in StatusWorkerType
         /\ StatusWorkerInv'
  <1>1. statusW' = IdleStatus /\ IdleStatus.pc = "idle"
    BY DEF StatusDone, StatusRetry, IdleStatus
  <1>2. statusQ' \in BOOLEAN
    BY DEF StatusDone, StatusRetry
  <1>3. QED
    BY <1>1, <1>2, IdleTypes DEF StatusWorkerInv, StatusWorkerType

\* The status worker reads the upstream object.
LEMMA StatusGetStep ==
  ASSUME SyncInv, StatusGet
  PROVE  SyncInv'
  <1>1. TypeOK /\ Cached(provider) \in ProviderObject
    BY StateTypes DEF SyncInv
  <1>2. UNCHANGED <<consumer, provider, edits, specW, sns, snsCache, specQ, providerOps, faults>>
    BY DEF StatusGet, objects, namespaces, StatusUnchanged
  <1>3. statusW' \in StatusWorkerType /\ statusW'.pc \in {"idle", "lookup"} /\ statusQ' \in BOOLEAN
    BY <1>1, IdleTypes DEF StatusGet, StatusWorkerType, IdleStatus
  <1>4. StatusWorkerInv'
    BY <1>3 DEF StatusWorkerInv
  <1>5. TypeOK'
    BY <1>1, <1>2, <1>3 DEF TypeOK, StatusWorkerType
  <1>6. QED
    BY <1>2, <1>4, <1>5, StoreUnchanged DEF SyncInv, StoreInv

\* The status worker reads the downstream object at the version of the cache.
LEMMA StatusLookupStep ==
  ASSUME SyncInv, StatusLookup
  PROVE  SyncInv'
  <1> DEFINE Go(pc) == /\ statusW' = [statusW EXCEPT !.pc = pc, !.down = Cached(consumer),
                                                     !.at = consumer.seen]
                       /\ statusQ' = statusQ
  <1>1. TypeOK /\ statusW \in StatusWorkerType
    BY DEF SyncInv, TypeOK, StatusWorkerType
  <1>2. UNCHANGED <<consumer, provider, edits, specW, sns, snsCache, specQ, providerOps, faults>>
    BY DEF StatusLookup, objects, namespaces, StatusUnchanged
  <1>3. \/ Go("delete")
        \/ Cached(consumer).alive /\ Go("update")
        \/ StatusDone
    BY DEF StatusLookup
  <1>4. statusW' \in StatusWorkerType /\ statusQ' \in BOOLEAN /\ StatusWorkerInv'
    <2>1. ASSUME NEW pc \in {"update", "delete"}, Go(pc), pc = "update" => Cached(consumer).alive
          PROVE  <1>4
      <3>1. /\ statusW' \in StatusWorkerType
            /\ statusW'.pc = pc /\ statusW'.down = Cached(consumer) /\ statusW'.at = consumer.seen
        BY <1>1, <2>1, StateTypes DEF StatusWorkerType
      <3>2. StatusWorkerInv'
        BY <1>1, <1>2, <2>1, <3>1, StateTypes DEF StatusWorkerInv
      <3>3. statusQ' \in BOOLEAN
        BY <1>1, <2>1 DEF TypeOK
      <3>4. QED
        BY <3>1, <3>2, <3>3
    <2>2. CASE StatusDone
      BY <1>1, <2>2, StatusIdle DEF TypeOK
    <2> HIDE DEF Go
    <2>3. QED
      BY <1>3, <2>1, <2>2
  <1>5. TypeOK'
    BY <1>1, <1>2, <1>4 DEF TypeOK, StatusWorkerType
  <1>6. QED
    BY <1>2, <1>4, <1>5, StoreUnchanged DEF SyncInv, StoreInv

\* The status is written to the stored object, or there is a conflict.
LEMMA StatusUpdateStep ==
  ASSUME SyncInv, StatusUpdate
  PROVE  SyncInv'
  <1> DEFINE c == [statusW.down EXCEPT !.status = statusW.up.status]
  <1>1. /\ TypeOK /\ StatusWorkerInv /\ HistoryInOrder
        /\ statusW \in StatusWorkerType /\ statusW.pc = "update"
    BY DEF SyncInv, TypeOK, StatusUpdate, StatusWorkerType
  <1>2. UNCHANGED <<provider, edits, specW, sns, snsCache, specQ, providerOps, faults>>
    BY DEF StatusUpdate, namespaces, StatusUnchanged
  <1>3. statusQ' \in BOOLEAN /\ statusW' \in StatusWorkerType /\ StatusWorkerInv'
    BY <1>1, StatusIdle DEF StatusUpdate, TypeOK
  <1>4. /\ c \in ConsumerObject
        /\ c.alive = statusW.down.alive /\ c.uid = statusW.down.uid
        /\ c.spec = statusW.down.spec /\ c.fin = statusW.down.fin
    BY <1>1 DEF StatusWorkerType, ConsumerObject, ProviderObject
  <1>5. IsWatched(consumer, ConsumerObject)' /\ StoreInv' /\ SpecWorkerInv'
    <2>1. CASE statusW.at # consumer.rv
      <3>1. consumer' = consumer
        BY <2>1 DEF StatusUpdate
      <3>2. QED
        BY <1>1, <1>2, <3>1, StoreUnchanged DEF TypeOK
    <2>2. CASE statusW.at = consumer.rv
      <3>1. consumer' = Write(consumer, c)
        BY <2>2 DEF StatusUpdate
      <3>2. statusW.down = Live(consumer) /\ Live(consumer).alive
        BY <1>1, <2>2 DEF StatusWorkerInv
      <3> HIDE DEF c
      <3>3. /\ edits' \in Nat /\ edits <= edits'
            /\ Live(consumer).spec <= c.spec /\ c.spec <= edits'
        BY <1>1, <1>2, <1>4, <3>2, StateTypes DEF HistoryInOrder, ConsumerObject
      <3>4. QED
        BY <1>2, <1>4, <3>1, <3>2, <3>3, AliveWrite
    <2>3. QED
      BY <2>1, <2>2
  <1>6. TypeOK'
    BY <1>1, <1>2, <1>3, <1>5 DEF TypeOK, StatusWorkerType
  <1>7. QED
    BY <1>3, <1>5, <1>6 DEF SyncInv, StoreInv

\* The status worker deletes upstream: nothing is claimed of an absent one.
LEMMA StatusDeleteStep ==
  ASSUME SyncInv, StatusDelete
  PROVE  SyncInv'
  <1>1. TypeOK
    BY DEF SyncInv
  <1>2. UNCHANGED <<consumer, edits, specW, sns, snsCache, specQ, providerOps, faults>>
    BY DEF StatusDelete, namespaces, StatusUnchanged
  <1>3. statusQ' \in BOOLEAN /\ statusW' \in StatusWorkerType /\ StatusWorkerInv'
    BY <1>1, StatusIdle DEF StatusDelete, TypeOK
  <1>4. /\ ProviderMoves
        /\ Live(provider)'.alive => /\ Live(provider).alive
                                    /\ Live(provider)'.spec = Live(provider).spec
    BY <1>1, DeleteLemma DEF StatusDelete
  <1>5. TypeOK'
    BY <1>1, <1>2, <1>3, <1>4 DEF TypeOK, StatusWorkerType, ProviderMoves
  <1>6. QED
    BY <1>2, <1>3, <1>4, <1>5, ProviderChange DEF SyncInv, StoreInv

\* A failed request of the status worker leaves the objects alone.
LEMMA StatusErrorStep ==
  ASSUME SyncInv, StatusError
  PROVE  SyncInv'
  <1>1. TypeOK
    BY DEF SyncInv
  <1>2. UNCHANGED <<consumer, provider, sns, snsCache, specQ, specW, edits, providerOps>>
    BY DEF StatusError, objects, namespaces
  <1>3. statusQ' \in BOOLEAN /\ statusW' \in StatusWorkerType /\ StatusWorkerInv'
    BY <1>1, StatusIdle DEF StatusError, TypeOK
  <1>4. faults' \in 0 .. MaxFaults
    BY <1>1, ConstantsAssumption DEF TypeOK, StatusError
  <1>5. TypeOK'
    BY <1>1, <1>2, <1>3, <1>4 DEF TypeOK, StatusWorkerType
  <1>6. QED
    BY <1>2, <1>3, <1>5, StoreUnchanged DEF SyncInv, StoreInv

-----------------------------------------------------------------------------
(* A restart: the workers hold nothing and the caches are in sync.         *)

\* A restart makes both workers idle and brings the caches up to date.
LEMMA RestartStep ==
  ASSUME SyncInv, Restart
  PROVE  SyncInv'
  <1>1. /\ TypeOK
        /\ IsWatched(consumer, ConsumerObject) /\ IsWatched(provider, ProviderObject)
    BY DEF SyncInv, TypeOK
  <1>2. /\ specW' = IdleSpec /\ statusW' = IdleStatus
        /\ consumer' = Relist(consumer) /\ provider' = Relist(provider)
        /\ UNCHANGED <<sns, edits, providerOps>>
    BY DEF Restart
  <1>3. /\ IsWatched(consumer, ConsumerObject)'
        /\ consumer'.rv = consumer.rv /\ consumer'.seen = consumer.rv
        /\ Live(consumer)' = Live(consumer)
        /\ consumer'.log[consumer.rv] = consumer.log[consumer.rv]
    BY <1>1, <1>2, RelistLemma
  <1>4. IsWatched(provider, ProviderObject)' /\ Live(provider)' = Live(provider)
    BY <1>1, <1>2, RelistLemma
  <1>5. \A i \in Versions' : i \in Versions /\ consumer'.log[i] = consumer.log[i]
    BY <1>1, <1>3, StateTypes DEF Versions
  <1>6. SpecWorkerInv' /\ StatusWorkerInv'
    BY <1>2 DEF SpecWorkerInv, StatusWorkerInv, IdleSpec, IdleStatus
  <1>7. HistoryInOrder' /\ UpstreamInOrder'
    BY <1>2, <1>4, <1>5 DEF SyncInv, HistoryInOrder, UpstreamInOrder
  <1>8. (\A i \in Versions : Copyable(consumer.log[i]) => StillGuarded(consumer.log[i]))'
    BY <1>3, <1>5 DEF SyncInv, StillGuarded
  <1>9. UpstreamIsGuarded'
    BY <1>3, <1>4 DEF SyncInv, UpstreamIsGuarded, OfThisConsumer
  <1>10. TypeOK'
    <2>1. specQ' \in BOOLEAN /\ statusQ' \in BOOLEAN
      BY DEF Restart
    <2>2. faults' \in 0 .. MaxFaults /\ snsCache' \in 0 .. sns'
      BY <1>1, ConstantsAssumption DEF Restart, TypeOK
    <2>3. QED
      BY <1>1, <1>2, <1>3, <1>4, <2>1, <2>2, IdleTypes DEF TypeOK, SpecWorkerType
  <1>11. QED
    BY <1>6, <1>7, <1>8, <1>9, <1>10 DEF SyncInv

-----------------------------------------------------------------------------
(* The theorems.                                                           *)

\* The invariant holds before anything happens.
LEMMA SyncInvInit == Init => SyncInv
  <1> SUFFICES ASSUME Init PROVE SyncInv
    OBVIOUS
  <1>1. /\ IsWatched(consumer, ConsumerObject) /\ Live(consumer) = NoConsumer
        /\ IsWatched(provider, ProviderObject) /\ Live(provider) = NoProvider
    BY ObjectTypes, FreshLemma DEF Init
  <1>2. ~NoConsumer.alive /\ ~NoProvider.alive
    BY DEF NoConsumer, NoProvider
  <1>3. Versions = {0} /\ consumer.log[0] = NoConsumer
    BY DEF Init, Fresh, Versions
  <1>4. TypeOK
    <2>1. /\ sns \in 0 .. 2 /\ snsCache = sns
          /\ edits \in 0 .. MaxEdits /\ providerOps \in 0 .. MaxProviderOps
          /\ faults \in 0 .. MaxFaults
      BY ConstantsAssumption DEF Init
    <2>2. specQ \in BOOLEAN /\ statusQ \in BOOLEAN
      BY DEF Init
    <2>3. specW = IdleSpec /\ statusW = IdleStatus
      BY DEF Init
    <2>4. snsCache \in 0 .. sns
      BY <2>1
    <2>5. QED
      BY <1>1, <2>1, <2>2, <2>3, <2>4, IdleTypes DEF TypeOK, SpecWorkerType
  <1>5. QED
    BY <1>1, <1>2, <1>3, <1>4
       DEF Init, SyncInv, HistoryInOrder, UpstreamInOrder, SpecWorkerInv, StatusWorkerInv,
           UpstreamIsGuarded, OfThisConsumer, Copyable, IdleSpec, IdleStatus

\* Every step of the specification keeps the invariant.
LEMMA SyncInvStep == SyncInv /\ [Next]_vars => SyncInv'
  <1> SUFFICES ASSUME SyncInv, [Next]_vars PROVE SyncInv'
    OBVIOUS
  <1>1. CASE UNCHANGED vars
    BY <1>1 DEF vars, SyncInv, TypeOK, HistoryInOrder, UpstreamInOrder, SpecWorkerInv,
       StatusWorkerInv, UpstreamIsGuarded, OfThisConsumer, StillGuarded, Versions
  <1>2. CASE Next
    BY <1>2, UserCreateStep, UserEditStep, UserDeleteStep, ProviderStep, BackendReadyStep,
       DeliverConsumerStep, DeliverProviderStep, DeliverServiceNamespaceStep, ResyncStep,
       SpecGetStep, SpecServiceNamespaceStep, SpecLookupStep, SpecFinalizeStep,
       SpecCreateStep, SpecPatchStep, SpecDeleteStep, SpecUnfinalizeStep, SpecErrorStep,
       StatusGetStep, StatusLookupStep, StatusUpdateStep, StatusDeleteStep,
       StatusErrorStep, RestartStep
       DEF Next, SpecStep, StatusStep
  <1>3. QED
    BY <1>1, <1>2

\* The invariant that relates the workers, the caches and the stored objects.
THEOREM SyncInvariant == Spec => []SyncInv
  BY SyncInvInit, SyncInvStep, PTL DEF Spec

\* The state is always well typed.
THEOREM TypeCorrect == Spec => []TypeOK
  <1>1. SyncInv => TypeOK
    BY DEF SyncInv
  <1>2. QED
    BY <1>1, SyncInvariant, PTL

\* Whatever the caches showed, a consumer object whose spec is upstream has the
\* finalizer.
THEOREM Guarded == Spec => []UpstreamIsGuarded
  <1>1. SyncInv => UpstreamIsGuarded
    BY DEF SyncInv
  <1>2. QED
    BY <1>1, SyncInvariant, PTL

-----------------------------------------------------------------------------
(* The action properties.                                                  *)

\* A step that leaves the stored provider object as it is.
ProviderKept == Live(provider)' = Live(provider)

\* A step by which the provider object is deleted, or begins to be.
ProviderDeleted ==
  Live(provider)'.alive =>
    /\ Live(provider).alive
    /\ Live(provider)'.spec = Live(provider).spec
    /\ Live(provider)'.status = Live(provider).status
    /\ Live(provider)'.held = Live(provider).held
    /\ Live(provider)'.deleting

\* A step of someone other than the konnector on an existing provider object.
ProviderOperated ==
  /\ providerOps' # providerOps
  /\ Live(provider).alive
  /\ Live(provider)'.alive => Live(provider)'.spec = Live(provider).spec

\* The spec worker creates the provider object.
ProviderCreated ==
  /\ specW.pc = "create"
  /\ Live(provider)' = CleanCopy(specW.obj)
  /\ ~Live(provider).alive
  /\ UNCHANGED consumer

\* The spec worker patches the provider object.
ProviderPatched ==
  /\ specW.pc = "patch"
  /\ Live(provider).alive
  /\ Live(provider)' = Apply(Live(provider), specW.obj.spec, Sent(specW.obj, Live(provider)))

\* Nothing else happens to a provider object.
LEMMA ProviderCases ==
  ASSUME SyncInv, [Next]_vars
  PROVE  ProviderKept \/ ProviderDeleted \/ ProviderOperated \/ ProviderCreated
           \/ ProviderPatched
  <1>1. TypeOK /\ SpecWorkerInv
    BY DEF SyncInv
  <1>2. /\ IsWatched(provider, ProviderObject) /\ Live(provider) \in ProviderObject
        /\ specW \in SpecWorkerType /\ providerOps \in Nat
    BY <1>1, StateTypes, ConstantsAssumption DEF TypeOK, SpecWorkerType
  <1>3. ASSUME UNCHANGED provider PROVE ProviderKept
    BY <1>3 DEF ProviderKept
  <1>4. CASE UNCHANGED vars
    BY <1>3, <1>4 DEF vars
  <1>5. CASE UserCreate \/ UserEdit \/ UserDelete \/ BackendReady
    BY <1>3, <1>5 DEF UserCreate, UserEdit, UserDelete, BackendReady, objects
  <1>6. CASE ProviderStatus \/ ProviderHold
    <2>1. PICK p \in ProviderObject :
            /\ provider' = Write(provider, p)
            /\ p.spec = Live(provider).spec
            /\ Live(provider).alive
            /\ providerOps' = providerOps + 1
      BY <1>2, <1>6 DEF ProviderStatus, ProviderHold, ProviderWrite, ProviderObject, AllStatuses
    <2>2. QED
      BY <1>1, <1>2, <2>1, ProviderWriteLemma DEF ProviderOperated
  <1>7. CASE ProviderDelete
    BY <1>1, <1>7, DeleteLemma DEF ProviderDelete, ProviderWrite, ProviderDeleted
  <1>8. CASE ProviderRelease
    <2>1. NoProvider \in ProviderObject /\ ~NoProvider.alive
      BY ObjectTypes DEF NoProvider
    <2>2. QED
      BY <1>1, <1>8, <2>1, ProviderWriteLemma DEF ProviderRelease, ProviderDeleted
  <1>9. CASE DeliverConsumer \/ DeliverServiceNamespace \/ Resync
    BY <1>3, <1>9 DEF DeliverConsumer, DeliverServiceNamespace, Resync, objects
  <1>10. CASE DeliverProvider
    BY <1>2, <1>10, DeliverLemma DEF DeliverProvider, ProviderKept
  <1>11. CASE \/ SpecGet \/ SpecServiceNamespace \/ SpecLookup \/ SpecFinalize
              \/ SpecUnfinalize \/ SpecError
    BY <1>3, <1>11 DEF SpecGet, SpecServiceNamespace, SpecLookup, SpecFinalize,
       SpecUnfinalize, SpecError, objects
  <1>12. CASE SpecCreate
    <2>1. specW.obj \in ConsumerObject /\ UNCHANGED consumer /\ specW.pc = "create"
      BY <1>2, <1>12 DEF SpecCreate, SpecWorkerType
    <2>2. CASE UNCHANGED provider
      BY <1>3, <2>2
    <2>3. CASE ~Live(provider).alive /\ provider' = Write(provider, CleanCopy(specW.obj))
      BY <1>1, <2>1, <2>3, ObjectTypes, ProviderWriteLemma DEF ProviderCreated
    <2>4. QED
      BY <1>12, <2>2, <2>3 DEF SpecCreate
  <1>13. CASE SpecPatch
    <2> DEFINE p == Apply(specW.up, specW.obj.spec, Sent(specW.obj, specW.up))
    <2>1. CASE UNCHANGED provider
      BY <1>3, <2>1
    <2>2. CASE specW.upAt = provider.rv /\ provider' = Write(provider, p)
      <3>1. specW.pc = "patch" /\ specW.up \in ProviderObject /\ specW.obj \in ConsumerObject
        BY <1>2, <1>13 DEF SpecPatch, SpecWorkerType
      <3>2. specW.up = Live(provider) /\ specW.up.alive
        BY <1>1, <2>2, <3>1 DEF SpecWorkerInv
      <3>3. p \in ProviderObject
        BY <3>1, ApplyLemma
      <3> HIDE DEF p
      <3>4. Live(provider)' = p
        BY <1>1, <2>2, <3>3, ProviderWriteLemma
      <3>5. QED
        BY <3>1, <3>2, <3>4 DEF ProviderPatched, p
    <2>3. QED
      BY <1>13, <2>1, <2>2 DEF SpecPatch, Patched
  <1>14. CASE SpecDelete
    BY <1>1, <1>14, DeleteLemma DEF SpecDelete, ProviderDeleted
  <1>15. CASE StatusGet \/ StatusLookup \/ StatusUpdate \/ StatusError
    BY <1>3, <1>15 DEF StatusGet, StatusLookup, StatusUpdate, StatusError, objects
  <1>16. CASE StatusDelete
    BY <1>1, <1>16, DeleteLemma DEF StatusDelete, ProviderDeleted
  <1>17. CASE Restart
    BY <1>2, <1>17, RelistLemma DEF Restart, ProviderKept
  <1>18. QED
    BY <1>4, <1>5, <1>6, <1>7, <1>8, <1>9, <1>10, <1>11, <1>12, <1>13, <1>14, <1>15,
       <1>16, <1>17 DEF Next, SpecStep, StatusStep

\* The spec of an upstream object never goes back to an earlier write of the
\* user: the spec worker's object is at least as new as what is upstream.
THEOREM SpecMonotone == Spec => SpecNeverRegresses
  <1>1. ASSUME SyncInv, [Next]_vars, Live(provider).alive, Live(provider)'.alive
        PROVE  Live(provider)'.spec >= Live(provider).spec
    <2>1. Live(provider) \in ProviderObject /\ specW \in SpecWorkerType /\ SpecWorkerInv
      BY <1>1, StateTypes DEF SyncInv, TypeOK, SpecWorkerType
    <2>2. CASE ProviderKept \/ ProviderDeleted \/ ProviderOperated
      BY <1>1, <2>1, <2>2 DEF ProviderKept, ProviderDeleted, ProviderOperated, ProviderObject
    <2>3. CASE ProviderCreated
      BY <1>1, <2>3 DEF ProviderCreated
    <2>4. CASE ProviderPatched
      <3>1. specW.obj \in ConsumerObject
        BY <2>1 DEF SpecWorkerType
      <3>2. Live(provider)'.spec = specW.obj.spec
        BY <2>1, <2>4, <3>1, ApplyLemma DEF ProviderPatched
      <3>3. QED
        BY <1>1, <2>1, <2>4, <3>1, <3>2
           DEF ProviderPatched, SpecWorkerInv, ProviderObject, ConsumerObject
    <2>5. QED
      BY <1>1, <2>2, <2>3, <2>4, ProviderCases
  <1>2. SyncInv /\ [Next]_vars =>
          [(Live(provider).alive /\ Live(provider)'.alive) =>
             Live(provider)'.spec >= Live(provider).spec]_vars
    BY <1>1
  <1>3. QED
    BY <1>2, SyncInvariant, PTL DEF Spec, SpecNeverRegresses

\* No patch of the konnector undoes what the provider wrote: one that goes
\* through starts from the stored object.
THEOREM ProviderWritesKept == Spec => NoLostProviderWrite
  <1> DEFINE Kept == /\ Live(provider)'.status = Live(provider).status
                     /\ Live(provider)'.held = Live(provider).held
                     /\ Live(provider).deleting => Live(provider)'.deleting
  <1>1. ASSUME SyncInv, [Next]_vars,
               Live(provider).alive, Live(provider)'.alive, providerOps' = providerOps
        PROVE  Kept
    <2>1. Live(provider) \in ProviderObject /\ specW.obj \in ConsumerObject
      BY <1>1, StateTypes DEF SyncInv, TypeOK
    <2>2. CASE ProviderKept \/ ProviderDeleted \/ ProviderOperated \/ ProviderCreated
      BY <1>1, <2>2 DEF ProviderKept, ProviderDeleted, ProviderOperated, ProviderCreated
    <2>3. CASE ProviderPatched
      BY <2>1, <2>3, ApplyLemma DEF ProviderPatched
    <2>4. QED
      BY <1>1, <2>2, <2>3, ProviderCases
  <1>2. SyncInv /\ [Next]_vars =>
          [(Live(provider).alive /\ Live(provider)'.alive /\ providerOps' = providerOps)
             => Kept]_vars
    BY <1>1
  <1>3. QED
    BY <1>2, SyncInvariant, PTL DEF Spec, NoLostProviderWrite

\* Upstream is created only for the consumer object that is there, and that has
\* the finalizer: the copy the worker made is of the stored object's uid.
THEOREM CreatedForLive == Spec => CreatedForLiveConsumer
  <1>1. ASSUME SyncInv, [Next]_vars, ~Live(provider).alive, Live(provider)'.alive
        PROVE  OfThisConsumer' /\ Live(consumer).fin
    <2>1. SpecWorkerInv
      BY <1>1 DEF SyncInv
    <2>2. CASE ProviderKept \/ ProviderDeleted \/ ProviderOperated \/ ProviderPatched
      BY <1>1, <2>2 DEF ProviderKept, ProviderDeleted, ProviderOperated, ProviderPatched
    <2>3. CASE ProviderCreated
      <3>1. StillGuarded(specW.obj) /\ specW.obj.uid <= specW.obj.spec
        BY <2>1, <2>3 DEF ProviderCreated, SpecWorkerInv
      <3>2. Live(provider)'.spec = specW.obj.spec /\ Live(consumer)' = Live(consumer)
        BY <2>3 DEF ProviderCreated, CleanCopy
      <3>3. specW.obj.uid \in Nat /\ specW.obj.spec \in Nat
        BY <1>1 DEF SyncInv, TypeOK, ConsumerObject
      <3>4. QED
        BY <1>1, <3>1, <3>2, <3>3 DEF OfThisConsumer, StillGuarded
    <2>4. QED
      BY <1>1, <2>2, <2>3, ProviderCases
  <1>2. SyncInv /\ [Next]_vars =>
          [(~Live(provider).alive /\ Live(provider)'.alive) =>
             (OfThisConsumer' /\ Live(consumer).fin)]_vars
    BY <1>1
  <1>3. QED
    BY <1>2, SyncInvariant, PTL DEF Spec, CreatedForLiveConsumer

\* The stored consumer object keeps the spec, the identity, the deletion and the
\* finalizer it has.
ConsumerKept ==
  /\ Live(consumer)'.spec = Live(consumer).spec
  /\ Live(consumer)'.uid = Live(consumer).uid
  /\ Live(consumer).deleting => Live(consumer)'.deleting
  /\ Live(consumer).fin => Live(consumer)'.fin

\* No update by the konnector undoes what the user did to the consumer object:
\* one that goes through starts from the stored object.
THEOREM UserWritesKept == Spec => NoLostEdit
  <1>1. ASSUME SyncInv, [Next]_vars,
               Live(consumer).alive, Live(consumer)'.alive, edits' = edits
        PROVE  ConsumerKept
    <2>1. TypeOK /\ SpecWorkerInv /\ StatusWorkerInv
      BY <1>1 DEF SyncInv
    <2>2. /\ IsWatched(consumer, ConsumerObject) /\ Live(consumer) \in ConsumerObject
          /\ edits \in Nat /\ NoConsumer \in ConsumerObject /\ ~NoConsumer.alive
      BY <2>1, StateTypes, ObjectTypes DEF TypeOK, NoConsumer
    <2>3. ASSUME Live(consumer)' = Live(consumer) PROVE ConsumerKept
      BY <2>3 DEF ConsumerKept
    <2>4. ASSUME NEW c \in ConsumerObject, consumer' = Write(consumer, c),
                 c.spec = Live(consumer).spec, c.uid = Live(consumer).uid,
                 Live(consumer).deleting => c.deleting, Live(consumer).fin => c.fin
          PROVE  ConsumerKept
      BY <2>1, <2>4, ConsumerWrite DEF ConsumerKept
    <2>5. consumer' # Write(consumer, NoConsumer)
      BY <1>1, <2>1, <2>2, ConsumerWrite
    <2>6. CASE UNCHANGED consumer
      BY <2>3, <2>6
    <2>7. CASE UserCreate \/ UserEdit
      BY <1>1, <2>2, <2>7 DEF UserCreate, UserEdit
    <2>8. CASE UserDelete
      <3> DEFINE c == [Live(consumer) EXCEPT !.deleting = TRUE]
      <3>1. consumer' = Write(consumer, c)
        BY <2>5, <2>8 DEF UserDelete
      <3>2. /\ c \in ConsumerObject /\ c.spec = Live(consumer).spec
            /\ c.uid = Live(consumer).uid /\ c.deleting /\ c.fin = Live(consumer).fin
        BY <2>2 DEF ConsumerObject
      <3>3. QED
        BY <2>4, <3>1, <3>2
    <2>9. CASE DeliverConsumer
      BY <2>2, <2>3, <2>9, DeliverLemma DEF DeliverConsumer
    <2>10. CASE Restart
      BY <2>2, <2>3, <2>10, RelistLemma DEF Restart
    <2>11. CASE SpecFinalize /\ specW.at = consumer.rv
      <3> DEFINE c == [Live(consumer) EXCEPT !.fin = TRUE]
      <3>1. specW.obj = Live(consumer)
        BY <2>1, <2>11 DEF SpecFinalize, SpecWorkerInv
      <3>2. consumer' = Write(consumer, c)
        BY <2>11, <3>1 DEF SpecFinalize
      <3>3. /\ c \in ConsumerObject /\ c.spec = Live(consumer).spec
            /\ c.uid = Live(consumer).uid /\ c.deleting = Live(consumer).deleting /\ c.fin
        BY <2>2 DEF ConsumerObject
      <3>4. QED
        BY <2>4, <3>2, <3>3
    <2>12. CASE StatusUpdate /\ statusW.at = consumer.rv
      <3> DEFINE c == [Live(consumer) EXCEPT !.status = statusW.up.status]
      <3>1. statusW.down = Live(consumer) /\ statusW.up.status \in AllStatuses
        BY <2>1, <2>12 DEF StatusUpdate, StatusWorkerInv, TypeOK, ProviderObject
      <3>2. consumer' = Write(consumer, c)
        BY <2>12, <3>1 DEF StatusUpdate
      <3>3. /\ c \in ConsumerObject /\ c.spec = Live(consumer).spec
            /\ c.uid = Live(consumer).uid /\ c.deleting = Live(consumer).deleting
            /\ c.fin = Live(consumer).fin
        BY <2>2, <3>1 DEF ConsumerObject
      <3>4. QED
        BY <2>4, <3>2, <3>3
    <2>13. CASE SpecUnfinalize
      BY <2>5, <2>6, <2>13 DEF SpecUnfinalize
    <2>14. CASE SpecFinalize \/ StatusUpdate
      BY <2>6, <2>11, <2>12, <2>14 DEF SpecFinalize, StatusUpdate
    <2>15. CASE \/ ProviderStatus \/ ProviderHold \/ ProviderDelete \/ ProviderRelease
                \/ BackendReady \/ DeliverProvider \/ DeliverServiceNamespace \/ Resync
      BY <2>6, <2>15 DEF ProviderStatus, ProviderHold, ProviderDelete, ProviderWrite,
         ProviderRelease, BackendReady, DeliverProvider, DeliverServiceNamespace, Resync, objects
    <2>16. CASE \/ SpecGet \/ SpecServiceNamespace \/ SpecLookup \/ SpecCreate
                \/ SpecPatch \/ SpecDelete \/ SpecError
                \/ StatusGet \/ StatusLookup \/ StatusDelete \/ StatusError
      BY <2>6, <2>16 DEF SpecGet, SpecServiceNamespace, SpecLookup, SpecCreate, SpecPatch,
         SpecDelete, SpecError, StatusGet, StatusLookup, StatusDelete, StatusError, objects
    <2>17. CASE UNCHANGED vars
      BY <2>6, <2>17 DEF vars
    <2>18. QED
      BY <1>1, <2>7, <2>8, <2>9, <2>10, <2>13, <2>14, <2>15, <2>16, <2>17
         DEF Next, SpecStep, StatusStep
  <1>2. SyncInv /\ [Next]_vars =>
          [(Live(consumer).alive /\ Live(consumer)'.alive /\ edits' = edits)
             => ConsumerKept]_vars
    BY <1>1
  <1>3. QED
    BY <1>2, SyncInvariant, PTL DEF Spec, NoLostEdit, ConsumerKept

-----------------------------------------------------------------------------
(* ObjectSync implements Mirror.                                           *)

\* The variables of Mirror.
Born == IF Live(consumer).alive THEN Live(consumer).uid ELSE 0
Copy == IF Live(provider).alive THEN Live(provider).spec ELSE 0

\* A step by which the object goes, and one by which the user writes it.
BornGoes == Born # 0 /\ Born' = 0 /\ edits' = edits /\ UNCHANGED provider
BornWritten ==
  /\ edits < MaxEdits
  /\ edits' = edits + 1
  /\ Born' = IF Born = 0 THEN edits + 1 ELSE Born
  /\ UNCHANGED provider

\* The object is there exactly if it has a number.
LEMMA BornLemma ==
  ASSUME SyncInv
  PROVE  /\ Born \in Nat /\ Copy \in Nat /\ edits \in Nat
         /\ Live(consumer).alive <=> Born # 0
         /\ Copy <= edits
  <1>1. /\ Live(consumer) \in ConsumerObject /\ Live(provider) \in ProviderObject
        /\ edits \in Nat /\ Live(consumer) = consumer.log[consumer.rv]
        /\ consumer.rv \in Versions
    BY StateTypes DEF SyncInv
  <1>2. Live(consumer).uid \in Nat /\ Live(provider).spec \in Nat
    BY <1>1 DEF ConsumerObject, ProviderObject
  <1>3. Live(consumer).alive => 1 <= Live(consumer).uid
    BY <1>1 DEF SyncInv, HistoryInOrder
  <1>4. Live(provider).alive => Live(provider).spec <= edits
    BY DEF SyncInv, UpstreamInOrder
  <1>5. Live(consumer).alive \in BOOLEAN
    BY <1>1 DEF ConsumerObject
  <1>6. QED
    BY <1>1, <1>2, <1>3, <1>4, <1>5 DEF Born, Copy

\* What can happen to the consumer's object, seen from outside.
LEMMA ConsumerCases ==
  ASSUME SyncInv, [Next]_vars
  PROVE  (Born' = Born /\ edits' = edits) \/ BornGoes \/ BornWritten
  <1>1. TypeOK /\ SpecWorkerInv /\ StatusWorkerInv
    BY DEF SyncInv
  <1>2. /\ IsWatched(consumer, ConsumerObject) /\ Live(consumer) \in ConsumerObject
        /\ NoConsumer \in ConsumerObject /\ ~NoConsumer.alive
        /\ edits \in Nat
    BY <1>1, StateTypes, ObjectTypes DEF TypeOK, NoConsumer
  <1>3. ASSUME Live(consumer)' = Live(consumer) PROVE Born' = Born
    BY <1>3 DEF Born
  <1>4. ASSUME NEW c \in ConsumerObject, consumer' = Write(consumer, c),
               c.alive = Live(consumer).alive, c.uid = Live(consumer).uid
        PROVE  Born' = Born
    <2>1. Live(consumer)' = c
      BY <1>1, <1>4, ConsumerWrite
    <2>2. QED
      BY <1>4, <2>1 DEF Born
  <1>5. ASSUME consumer' = Write(consumer, NoConsumer) PROVE Born' = 0
    <2>1. Live(consumer)' = NoConsumer
      BY <1>1, <1>2, <1>5, ConsumerWrite
    <2>2. QED
      BY <1>2, <2>1 DEF Born
  <1>6. CASE UserCreate
    <2>1. NewConsumer(edits + 1) \in ConsumerObject /\ edits < MaxEdits
      BY <1>2, <1>6, ConstantsAssumption, ObjectTypes DEF UserCreate
    <2>2. Live(consumer)' = NewConsumer(edits + 1)
      BY <1>1, <1>6, <2>1, ConsumerWrite DEF UserCreate
    <2>3. Born = 0 /\ Born' = edits + 1
      BY <1>6, <2>2 DEF UserCreate, Born, NewConsumer
    <2>4. QED
      BY <1>6, <2>1, <2>3 DEF UserCreate, BornWritten
  <1>7. CASE UserEdit
    <2> DEFINE c == [Live(consumer) EXCEPT !.spec = edits + 1]
    <2>1. edits < MaxEdits /\ edits' = edits + 1 /\ UNCHANGED provider
          /\ consumer' = Write(consumer, c) /\ Live(consumer).alive
      BY <1>7 DEF UserEdit
    <2>2. c \in ConsumerObject /\ c.alive = Live(consumer).alive /\ c.uid = Live(consumer).uid
      <3>1. edits + 1 \in 0 .. MaxEdits
        BY <1>2, <2>1, ConstantsAssumption
      <3>2. QED
        BY <1>2, <3>1 DEF ConsumerObject
    <2>3. Born' = Born
      BY <1>4, <2>1, <2>2
    <2>4. Born # 0
      BY <2>1, BornLemma
    <2>5. QED
      BY <2>1, <2>3, <2>4 DEF BornWritten
  <1>8. CASE UserDelete
    <2>1. Live(consumer).alive /\ edits' = edits /\ UNCHANGED provider
      BY <1>8 DEF UserDelete, budgets
    <2>2. CASE consumer' = Write(consumer, [Live(consumer) EXCEPT !.deleting = TRUE])
      <3> DEFINE c == [Live(consumer) EXCEPT !.deleting = TRUE]
      <3>1. c \in ConsumerObject /\ c.alive = Live(consumer).alive /\ c.uid = Live(consumer).uid
        BY <1>2 DEF ConsumerObject
      <3>2. QED
        BY <1>4, <2>1, <2>2, <3>1
    <2>3. CASE consumer' = Write(consumer, NoConsumer)
      BY <1>5, <2>1, <2>3, BornLemma DEF BornGoes
    <2>4. QED
      BY <1>8, <2>2, <2>3 DEF UserDelete
  <1>9. CASE DeliverConsumer
    BY <1>2, <1>3, <1>9, DeliverLemma DEF DeliverConsumer, budgets
  <1>10. CASE Restart
    BY <1>2, <1>3, <1>10, RelistLemma DEF Restart
  <1>11. CASE SpecFinalize /\ specW.at = consumer.rv
    <2> DEFINE c == [Live(consumer) EXCEPT !.fin = TRUE]
    <2>1. specW.obj = Live(consumer)
      BY <1>1, <1>11 DEF SpecFinalize, SpecWorkerInv
    <2>2. consumer' = Write(consumer, c) /\ edits' = edits
      BY <1>11, <2>1 DEF SpecFinalize, SpecUnchanged
    <2>3. c \in ConsumerObject /\ c.alive = Live(consumer).alive /\ c.uid = Live(consumer).uid
      BY <1>2 DEF ConsumerObject
    <2>4. QED
      BY <1>4, <2>2, <2>3
  <1>12. CASE StatusUpdate /\ statusW.at = consumer.rv
    <2> DEFINE c == [Live(consumer) EXCEPT !.status = statusW.up.status]
    <2>1. statusW.down = Live(consumer) /\ statusW.up.status \in AllStatuses
      BY <1>1, <1>12 DEF StatusUpdate, StatusWorkerInv, TypeOK, ProviderObject
    <2>2. consumer' = Write(consumer, c) /\ edits' = edits
      BY <1>12, <2>1 DEF StatusUpdate, StatusUnchanged
    <2>3. c \in ConsumerObject /\ c.alive = Live(consumer).alive /\ c.uid = Live(consumer).uid
      BY <1>2, <2>1 DEF ConsumerObject
    <2>4. QED
      BY <1>4, <2>2, <2>3
  <1>13. CASE SpecUnfinalize /\ specW.at = consumer.rv
    <2>1. Live(consumer).alive
      BY <1>1, <1>13 DEF SpecUnfinalize, SpecWorkerInv
    <2>2. consumer' = Write(consumer, NoConsumer) /\ UNCHANGED provider /\ edits' = edits
      BY <1>13 DEF SpecUnfinalize, SpecUnchanged
    <2>3. QED
      BY <1>5, <2>1, <2>2, BornLemma DEF BornGoes
  <1>14. CASE (SpecFinalize \/ SpecUnfinalize) /\ specW.at # consumer.rv
    BY <1>3, <1>14 DEF SpecFinalize, SpecUnfinalize, SpecUnchanged
  <1>15. CASE StatusUpdate /\ statusW.at # consumer.rv
    BY <1>3, <1>15 DEF StatusUpdate, StatusUnchanged
  <1>16. CASE \/ ProviderStatus \/ ProviderHold \/ ProviderDelete \/ ProviderRelease
              \/ BackendReady \/ DeliverProvider \/ DeliverServiceNamespace \/ Resync
    BY <1>3, <1>16 DEF ProviderStatus, ProviderHold, ProviderDelete, ProviderWrite, budgets,
       ProviderRelease, BackendReady, DeliverProvider, DeliverServiceNamespace, Resync, objects
  <1>17. CASE \/ SpecGet \/ SpecServiceNamespace \/ SpecLookup \/ SpecCreate
              \/ SpecPatch \/ SpecDelete \/ SpecError
    BY <1>3, <1>17 DEF SpecGet, SpecServiceNamespace, SpecLookup, SpecCreate, SpecPatch,
       SpecDelete, SpecError, SpecUnchanged, objects
  <1>18. CASE StatusGet \/ StatusLookup \/ StatusDelete \/ StatusError
    BY <1>3, <1>18 DEF StatusGet, StatusLookup, StatusDelete, StatusError, StatusUnchanged,
       objects
  <1>19. CASE UNCHANGED vars
    BY <1>3, <1>19 DEF vars
  <1>20. QED
    BY <1>6, <1>7, <1>8, <1>9, <1>10, <1>11, <1>12, <1>13, <1>14, <1>15, <1>16, <1>17,
       <1>18, <1>19 DEF Next, SpecStep, StatusStep

\* What can happen to the provider's object, seen from outside: the spec worker's
\* object is of the consumer's object that is there, and not older than the copy.
LEMMA CopyCases ==
  ASSUME SyncInv, [Next]_vars
  PROVE  \/ Copy' \in {0, Copy}
         \/ Copy = 0 /\ Born # 0 /\ Copy' \in Born .. edits
         \/ Copy # 0 /\ Copy' \in Copy + 1 .. edits
  <1>1. /\ SpecWorkerInv /\ specW.obj \in ConsumerObject
        /\ Live(provider) \in ProviderObject
    BY StateTypes DEF SyncInv, TypeOK
  <1>2. CASE ProviderKept \/ ProviderDeleted \/ ProviderOperated
    BY <1>2 DEF ProviderKept, ProviderDeleted, ProviderOperated, Copy
  <1>3. ASSUME specW.pc \in {"create", "patch"},
               Copy' = specW.obj.spec,
               Copy <= specW.obj.spec
        PROVE  \/ Copy' \in {0, Copy}
               \/ Copy = 0 /\ Born # 0 /\ Copy' \in Born .. edits
               \/ Copy # 0 /\ Copy' \in Copy + 1 .. edits
    <2>1. /\ StillGuarded(specW.obj) /\ specW.obj.uid <= specW.obj.spec
          /\ specW.obj.spec <= edits
      BY <1>1, <1>3 DEF SpecWorkerInv
    <2>2. Born = specW.obj.uid /\ Born # 0
      BY <2>1, BornLemma DEF StillGuarded, Born
    <2>3. specW.obj.spec \in Nat /\ specW.obj.uid \in Nat
      BY <1>1 DEF ConsumerObject
    <2>4. QED
      BY <1>3, <2>1, <2>2, <2>3, BornLemma
  <1>4. CASE ProviderCreated
    <2>1. Copy = 0 /\ Copy' = specW.obj.spec
      BY <1>4 DEF ProviderCreated, CleanCopy, Copy
    <2>2. specW.obj.spec \in Nat
      BY <1>1 DEF ConsumerObject
    <2>3. QED
      BY <1>3, <1>4, <2>1, <2>2 DEF ProviderCreated
  <1>5. CASE ProviderPatched
    <2>1. Live(provider)'.spec = specW.obj.spec /\ Live(provider)'.alive
      <3> DEFINE up == Live(provider)
                 new == Apply(up, specW.obj.spec, Sent(specW.obj, up))
      <3>1. new.spec = specW.obj.spec /\ new.alive = up.alive
        BY <1>1, ApplyLemma
      <3> HIDE DEF new
      <3>2. Live(provider)' = new /\ up.alive
        BY <1>5 DEF ProviderPatched, new
      <3>3. QED
        BY <3>1, <3>2
    <2>2. Copy' = specW.obj.spec /\ Copy = Live(provider).spec
      BY <1>5, <2>1 DEF ProviderPatched, Copy
    <2>3. Live(provider).spec <= specW.obj.spec
      BY <1>1, <1>5 DEF ProviderPatched, SpecWorkerInv
    <2>4. QED
      BY <1>3, <1>5, <2>2, <2>3 DEF ProviderPatched
  <1>6. QED
    BY <1>2, <1>4, <1>5, ProviderCases

\* Every step is one of Mirror's, or changes nothing that Mirror sees.
LEMMA MirrorStep ==
  ASSUME SyncInv, [Next]_vars
  PROVE  [Abstract!Next]_(Abstract!vars)
  <1>1. Born \in Nat /\ Copy \in Nat /\ edits \in Nat
    BY BornLemma
  <1>2. CASE BornGoes
    <2>1. Copy' = Copy
      BY <1>2 DEF BornGoes, Copy
    <2>2. Abstract!ObjectGoes
      BY <1>2, <2>1 DEF BornGoes, Abstract!ObjectGoes, Born, Copy
    <2>3. QED
      BY <2>2 DEF Abstract!Next
  <1>3. CASE BornWritten
    <2>1. Copy' = Copy
      BY <1>3 DEF BornWritten, Copy
    <2>2. Abstract!UserWrites
      BY <1>3, <2>1 DEF BornWritten, Abstract!UserWrites, Born, Copy
    <2>3. QED
      BY <2>2 DEF Abstract!Next
  <1>4. CASE Born' = Born /\ edits' = edits
    <2>1. CASE Copy' = Copy
      BY <1>4, <2>1 DEF Abstract!vars, Born, Copy
    <2>2. CASE Copy' = 0 /\ Copy # 0
      <3>1. Abstract!CopyGoes
        BY <1>4, <2>2 DEF Abstract!CopyGoes, Born, Copy
      <3>2. QED
        BY <3>1 DEF Abstract!Next
    <2>3. CASE Copy = 0 /\ Born # 0 /\ Copy' \in Born .. edits
      <3>1. Abstract!CopyIsMade
        BY <1>4, <2>3 DEF Abstract!CopyIsMade, Born, Copy
      <3>2. QED
        BY <3>1 DEF Abstract!Next
    <2>4. CASE Copy # 0 /\ Copy' \in Copy + 1 .. edits
      <3>1. Abstract!CopyMovesOn
        BY <1>4, <2>4 DEF Abstract!CopyMovesOn, Born, Copy
      <3>2. QED
        BY <3>1 DEF Abstract!Next
    <2>5. QED
      BY <2>1, <2>2, <2>3, <2>4, CopyCases
  <1>5. QED
    BY <1>2, <1>3, <1>4, ConsumerCases

\* The two sync controllers implement the safety part of Mirror: for any contents
\* and bounds, stale caches, conflicts, failed requests and restarts never show in
\* the provider's cluster as anything but a copy of the user's object that is made
\* while the object is there and moves on with its writes.
THEOREM ImplementsMirror == Spec => Abstract!Safe
  <1>1. Init => Abstract!Init
    BY DEF Init, Fresh, Live, NoConsumer, NoProvider, Abstract!Init
  <1>2. SyncInv /\ [Next]_vars => [Abstract!Next]_(Abstract!vars)
    BY MirrorStep
  <1>3. QED
    BY <1>1, <1>2, SyncInvariant, PTL DEF Spec, Abstract!Safe
=============================================================================
