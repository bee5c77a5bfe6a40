------------------------ MODULE ResponseStream_proofs -------------------------
(***************************************************************************)
(* The inside of a streamed turn, for every script of the upstream, every  *)
(* menu of events, any number of rounds and any size of the channel.       *)
(*                                                                         *)
(* RoundIngestion: identity in the accumulator.  The invariant adds to the *)
(* coherence of the two maps only that slots are slots and that their      *)
(* indexes are indexes.                                                    *)
(*                                                                         *)
(* ResponseStream: the invariant (StreamInv) says of each item, by the     *)
(* step the worker is at, which events were sent of it so far (Content)    *)
(* and which are held back (Held).  What was sent is what the client has   *)
(* seen, what is in the channel and what the worker is about to send, in   *)
(* this order, so the client's steps leave it alone.  An item's events are *)
(* the fold Of; what a step adds to them is computed from the lemmas on    *)
(* folds, on sorting by index and on the boundary, which only passes over  *)
(* an item that advances.                                                  *)
(*                                                                         *)
(* The history is stored from what the loop recorded (newInput) and what   *)
(* is read back of the output.  HistoryInv says what is recorded of which  *)
(* items (RecordsOf) and that places tell items apart (Apart); recorded    *)
(* is then the border between the items of the loop and those before it.   *)
(***************************************************************************)
EXTENDS RoundIngestion, ResponseStream, SequenceTheorems, FiniteSetTheorems, TLAPS

ItemTypes == {"added", "part", "delta", "part_done", "done"}

IsSlot(slot) ==
    slot = [id |-> slot.id, item |-> slot.item, done |-> slot.done,
            buffer |-> slot.buffer, parts |-> slot.parts]

HasFields(a) ==
    a = [strict |-> a.strict, response |-> a.response, lifecycle |-> a.lifecycle,
         status |-> a.status, slots |-> a.slots, ids |-> a.ids, calls |-> a.calls,
         output |-> a.output]

IsAcc(a) ==
    /\ HasFields(a)
    /\ DOMAIN a.slots \subseteq Indexes
    /\ \A i \in DOMAIN a.slots : IsSlot(a.slots[i])

Paired(a) ==
    /\ \A id \in DOMAIN a.ids : a.ids[id] \in DOMAIN a.slots /\ a.slots[a.ids[id]].id = id
    /\ \A i \in DOMAIN a.slots :
        a.slots[i].id # "" => a.slots[i].id \in DOMAIN a.ids /\ a.ids[a.slots[i].id] = i

Coherent(a) == IsAcc(a) /\ Paired(a) /\ "" \notin DOMAIN a.ids

\* What was done in a is as it was in b.
Final(a, b) ==
    \A i \in DOMAIN a.slots :
        a.slots[i].done /\ i \in DOMAIN b.slots => b.slots[i].item = a.slots[i].item

-----------------------------------------------------------------------------
(* The operators of SlotMap.                                               *)

\* The maps of an accumulator are replaced.
With(a, s, t) == [a EXCEPT !.slots = s, !.ids = t]

\* Replacing the two maps keeps the fields of an accumulator.
LEMMA Fields ==
  ASSUME NEW a, HasFields(a), NEW s, NEW t
  PROVE  HasFields(With(a, s, t)) /\ With(a, s, t).slots = s /\ With(a, s, t).ids = t
<1> SUFFICES ASSUME NEW b, b = With(a, s, t)
             PROVE  HasFields(b) /\ b.slots = s /\ b.ids = t
  OBVIOUS
<1>1. b = [strict |-> a.strict, response |-> a.response, lifecycle |-> a.lifecycle,
           status |-> a.status, slots |-> s, ids |-> t, calls |-> a.calls, output |-> a.output]
  BY DEF HasFields, With
<1> QED BY <1>1 DEF HasFields

\* So does replacing the slots.
LEMMA SlotsField ==
  ASSUME NEW a, HasFields(a), NEW slots, NEW b, b = [a EXCEPT !.slots = slots]
  PROVE  HasFields(b) /\ b.slots = slots /\ b.ids = a.ids
<1>1. b = [strict |-> a.strict, response |-> a.response, lifecycle |-> a.lifecycle,
           status |-> a.status, slots |-> slots, ids |-> a.ids, calls |-> a.calls, output |-> a.output]
  BY DEF HasFields
<1> QED BY <1>1 DEF HasFields

\* Put changes one slot and nothing else.
LEMMA PutFacts ==
  ASSUME NEW a, IsAcc(a), NEW i \in Indexes, NEW slot, IsSlot(slot)
  PROVE  /\ IsAcc(Put(a, i, slot))
         /\ Put(a, i, slot).ids = a.ids
         /\ DOMAIN Put(a, i, slot).slots = DOMAIN a.slots \cup {i}
         /\ Put(a, i, slot).slots[i] = slot
         /\ \A j \in DOMAIN a.slots : j # i => Put(a, i, slot).slots[j] = a.slots[j]
<1> DEFINE slots == [j \in DOMAIN a.slots \cup {i} |-> IF j = i THEN slot ELSE a.slots[j]]
<1>1. Put(a, i, slot) = [a EXCEPT !.slots = slots]
  BY DEF Put
<1>2. /\ DOMAIN slots = DOMAIN a.slots \cup {i} /\ slots[i] = slot
      /\ \A j \in DOMAIN a.slots : j # i => slots[j] = a.slots[j]
  OBVIOUS
<1> HIDE DEF slots
<1>3. Put(a, i, slot).slots = slots /\ Put(a, i, slot).ids = a.ids /\ HasFields(Put(a, i, slot))
  <2>1. HasFields(a)
    BY DEF IsAcc
  <2> QED BY <1>1, <2>1, SlotsField
<1>4. DOMAIN slots \subseteq Indexes /\ \A j \in DOMAIN slots : IsSlot(slots[j])
  BY <1>2 DEF IsAcc
<1> QED BY <1>2, <1>3, <1>4 DEF IsAcc

\* A slot gets its id.
LEMMA Named ==
  ASSUME NEW slot, IsSlot(slot), NEW id
  PROVE  /\ IsSlot([slot EXCEPT !.id = id]) /\ [slot EXCEPT !.id = id].id = id
         /\ [slot EXCEPT !.id = id].item = slot.item /\ [slot EXCEPT !.id = id].done = slot.done
  BY DEF IsSlot

\* Slot i may be given the id.
Free(a, i, id) == i \in DOMAIN a.slots /\ (a.slots[i].id = "" => id \notin DOMAIN a.ids)

\* Bind gives an id that no slot has to a slot that has none.
LEMMA BindFacts ==
  ASSUME NEW a, Coherent(a), NEW i, NEW id, Free(a, i, id)
  PROVE  /\ Coherent(Bind(a, i, id))
         /\ DOMAIN Bind(a, i, id).slots = DOMAIN a.slots
         /\ \A j \in DOMAIN a.slots : /\ Bind(a, i, id).slots[j].item = a.slots[j].item
                                      /\ Bind(a, i, id).slots[j].done = a.slots[j].done
<1>1. CASE id = "" \/ a.slots[i].id # ""
  BY <1>1 DEF Bind
<1>2. CASE id # "" /\ a.slots[i].id = ""
  <2> DEFINE named == [a.slots[i] EXCEPT !.id = id]
             slots == [a.slots EXCEPT ![i] = named]
             ids == [k \in DOMAIN a.ids \cup {id} |-> IF k = id THEN i ELSE a.ids[k]]
  <2>1. Bind(a, i, id) = With(a, slots, ids)
    BY <1>2 DEF Bind, With
  <2>2. /\ DOMAIN slots = DOMAIN a.slots /\ slots[i] = named
        /\ \A j \in DOMAIN a.slots : j # i => slots[j] = a.slots[j]
    <3> HIDE DEF named
    <3> QED BY DEF Free
  <2>3. /\ DOMAIN ids = DOMAIN a.ids \cup {id} /\ ids[id] = i
        /\ \A k \in DOMAIN a.ids : k # id => ids[k] = a.ids[k]
    OBVIOUS
  <2>4. DOMAIN a.slots \subseteq Indexes /\ \A j \in DOMAIN a.slots : IsSlot(a.slots[j])
    BY DEF Coherent, IsAcc
  <2>5. named.id = id /\ named.item = a.slots[i].item /\ named.done = a.slots[i].done /\ IsSlot(named)
    BY <2>4, Named DEF Free
  <2> HIDE DEF named, slots, ids
  <2>6. DOMAIN slots \subseteq Indexes /\ \A j \in DOMAIN slots : IsSlot(slots[j])
    BY <2>2, <2>4, <2>5
  <2>7. /\ Bind(a, i, id).slots = slots /\ Bind(a, i, id).ids = ids /\ IsAcc(Bind(a, i, id))
    <3>1. HasFields(a)
      BY DEF Coherent, IsAcc
    <3>2. /\ Bind(a, i, id).slots = slots /\ Bind(a, i, id).ids = ids /\ HasFields(Bind(a, i, id))
      BY <2>1, <3>1, Fields
    <3> QED BY <2>6, <3>2 DEF IsAcc
  <2>12. /\ \A k \in DOMAIN a.ids : k # "" /\ a.ids[k] \in DOMAIN a.slots /\ a.slots[a.ids[k]].id = k
         /\ \A j \in DOMAIN a.slots :
                a.slots[j].id # "" => a.slots[j].id \in DOMAIN a.ids /\ a.ids[a.slots[j].id] = j
         /\ id \notin DOMAIN a.ids
    BY <1>2 DEF Coherent, Paired, Free
  <2>8. ASSUME NEW k \in DOMAIN ids PROVE ids[k] \in DOMAIN slots /\ slots[ids[k]].id = k
    <3>1. CASE k = id
      BY <2>2, <2>3, <2>5, <3>1 DEF Free
    <3>2. CASE k # id
      <4>1. k \in DOMAIN a.ids /\ ids[k] = a.ids[k]
        BY <2>3, <3>2
      <4>2. a.ids[k] \in DOMAIN a.slots /\ a.slots[a.ids[k]].id = k /\ k # ""
        BY <2>12, <4>1
      <4>3. a.ids[k] # i
        BY <1>2, <4>2
      <4> QED BY <2>2, <4>1, <4>2, <4>3
    <3> QED BY <3>1, <3>2
  <2>9. \A j \in DOMAIN slots : slots[j].id # "" => slots[j].id \in DOMAIN ids /\ ids[slots[j].id] = j
    <3> SUFFICES ASSUME NEW j \in DOMAIN slots, slots[j].id # ""
                 PROVE  slots[j].id \in DOMAIN ids /\ ids[slots[j].id] = j
      OBVIOUS
    <3>1. CASE j = i
      BY <2>2, <2>3, <2>5, <3>1
    <3>2. CASE j # i
      <4>1. j \in DOMAIN a.slots /\ slots[j] = a.slots[j]
        BY <2>2, <3>2
      <4>2. a.slots[j].id \in DOMAIN a.ids /\ a.ids[a.slots[j].id] = j
        BY <2>12, <4>1
      <4> QED BY <2>3, <2>12, <4>1, <4>2
    <3> QED BY <3>1, <3>2
  <2>10. \A j \in DOMAIN a.slots : slots[j].item = a.slots[j].item /\ slots[j].done = a.slots[j].done
    BY <2>2, <2>5
  <2>11. "" \notin DOMAIN ids
    BY <1>2, <2>3 DEF Coherent
  <2> QED BY <2>2, <2>7, <2>8, <2>9, <2>10, <2>11 DEF Coherent, Paired
<1> QED BY <1>1, <1>2

\* The slot may be written at i for an event with the id.
Writes(a, i, id, slot) ==
    /\ i \in Indexes /\ IsSlot(slot)
    /\ slot.id = IF i \in DOMAIN a.slots THEN a.slots[i].id ELSE ""
    /\ id \in DOMAIN a.ids => a.ids[id] = i

\* Whether what is done is left alone.
Keeps(a, i, slot) == i \in DOMAIN a.slots /\ a.slots[i].done => slot.item = a.slots[i].item

\* Put and Bind keep the maps coherent.
LEMMA WriteFacts ==
  ASSUME NEW a, Coherent(a), NEW i, NEW id, NEW slot, Writes(a, i, id, slot)
  PROVE  /\ Coherent(Bind(Put(a, i, slot), i, id))
         /\ Keeps(a, i, slot) => Final(a, Bind(Put(a, i, slot), i, id))
         /\ i \in DOMAIN Bind(Put(a, i, slot), i, id).slots
<1> DEFINE b == Put(a, i, slot)
<1>1. /\ IsAcc(b) /\ b.ids = a.ids /\ DOMAIN b.slots = DOMAIN a.slots \cup {i} /\ b.slots[i] = slot
      /\ \A j \in DOMAIN a.slots : j # i => b.slots[j] = a.slots[j]
  <2>1. IsAcc(a) /\ i \in Indexes /\ IsSlot(slot)
    BY DEF Coherent, Writes
  <2> QED BY <2>1, PutFacts
<1> HIDE DEF b
<1>2. /\ \A k \in DOMAIN a.ids : k # "" /\ a.ids[k] \in DOMAIN a.slots /\ a.slots[a.ids[k]].id = k
      /\ \A j \in DOMAIN a.slots :
            a.slots[j].id # "" => a.slots[j].id \in DOMAIN a.ids /\ a.ids[a.slots[j].id] = j
  BY DEF Coherent, Paired
<1>3. \A j \in DOMAIN a.slots : j \in DOMAIN b.slots /\ b.slots[j].id = a.slots[j].id
  BY <1>1 DEF Writes
<1>4. \A j \in DOMAIN b.slots : j \notin DOMAIN a.slots => j = i /\ b.slots[j].id = ""
  BY <1>1 DEF Writes
<1>8. Coherent(b)
  <2>1. "" \notin DOMAIN b.ids
    BY <1>1, <1>2
  <2>2. ASSUME NEW k \in DOMAIN b.ids PROVE b.ids[k] \in DOMAIN b.slots /\ b.slots[b.ids[k]].id = k
    <3>1. k \in DOMAIN a.ids /\ b.ids[k] = a.ids[k]
      BY <1>1
    <3>2. a.ids[k] \in DOMAIN a.slots /\ a.slots[a.ids[k]].id = k
      BY <1>2, <3>1
    <3> QED BY <1>3, <3>1, <3>2
  <2>3. ASSUME NEW j \in DOMAIN b.slots, b.slots[j].id # ""
        PROVE  b.slots[j].id \in DOMAIN b.ids /\ b.ids[b.slots[j].id] = j
    BY <1>1, <1>2, <1>3, <1>4, <2>3
  <2> QED BY <1>1, <2>1, <2>2, <2>3 DEF Coherent, Paired
<1>5. Free(b, i, id)
  <2>1. ASSUME b.slots[i].id = "", id \in DOMAIN a.ids PROVE FALSE
    <3>1. a.ids[id] = i
      BY <2>1 DEF Writes
    <3>2. i \in DOMAIN a.slots /\ a.slots[i].id = id /\ id # ""
      BY <1>2, <2>1, <3>1
    <3> QED BY <1>3, <2>1, <3>2
  <2> QED BY <1>1, <2>1 DEF Free
<1>6. /\ Coherent(Bind(b, i, id)) /\ DOMAIN Bind(b, i, id).slots = DOMAIN b.slots
      /\ \A j \in DOMAIN b.slots : Bind(b, i, id).slots[j].item = b.slots[j].item
  BY <1>5, <1>8, BindFacts
<1>7. Keeps(a, i, slot) => Final(a, Bind(b, i, id))
  <2> SUFFICES ASSUME Keeps(a, i, slot), NEW j \in DOMAIN a.slots, a.slots[j].done
               PROVE  Bind(b, i, id).slots[j].item = a.slots[j].item
    BY DEF Final
  <2>1. j \in DOMAIN b.slots /\ b.slots[j].item = a.slots[j].item
    BY <1>1 DEF Keeps
  <2> QED BY <1>6, <2>1
<1> QED BY <1>1, <1>6, <1>7 DEF b

\* An event that is not about another item names the slot it goes to.
LEMMA TargetFacts ==
  ASSUME NEW a, Coherent(a), NEW f, ~Elsewhere(a, f), Target(a, f, "open") \in Indexes,
         NEW action \in {"open", "mutate", "complete"}
  PROVE  /\ Target(a, f, action) \in Indexes \/ (action = "mutate" /\ Target(a, f, action) = NoIndex)
         /\ f.id \in DOMAIN a.ids => a.ids[f.id] = Target(a, f, action)
<1>1. \A id \in DOMAIN a.ids : a.ids[id] \in Indexes
  BY DEF Coherent, Paired, IsAcc
<1>2. NoIndex \notin Indexes
  BY IndexesAssumption DEF NoIndex
<1>3. CASE f.index # NoIndex
  BY <1>1, <1>2, <1>3 DEF Target, ById, Elsewhere
<1>4. CASE f.index = NoIndex /\ ById(a, f) # NoIndex
  BY <1>1, <1>2, <1>4 DEF Target, ById
<1>5. CASE f.index = NoIndex /\ ById(a, f) = NoIndex
  <2>1. f.id \notin DOMAIN a.ids
    BY <1>1, <1>2, <1>5 DEF ById
  <2> QED BY <1>5, <2>1 DEF Target
<1> QED BY <1>3, <1>4, <1>5

\* What a slot may become when an event is applied to it.
Kept(slot, new) == IsSlot(new) /\ new.id = slot.id /\ new.done = slot.done

\* An event changes neither the id of a slot nor, once it is done, its item.
LEMMA ApplyFacts ==
  ASSUME NEW slot, IsSlot(slot), NEW f
  PROVE  Kept(slot, ApplyEvent(slot, f))
<1>1. Kept(slot, ApplyArguments(slot, f))
  BY DEF ApplyArguments, Kept, IsSlot
<1>2. Kept(slot, ApplyCommand(slot, f))
  BY DEF ApplyCommand, Kept, IsSlot
<1>3. Kept(slot, slot)
  BY DEF Kept
<1>4. ASSUME NEW new, new = [slot EXCEPT !.buffer = @ \o f.text]
      PROVE  Kept(slot, new)
  <2>1. new = [id |-> slot.id, item |-> slot.item, done |-> slot.done,
               buffer |-> slot.buffer \o f.text, parts |-> slot.parts]
    BY <1>4 DEF IsSlot
  <2> QED BY <2>1 DEF Kept, IsSlot
<1>5. ASSUME NEW new, new = [slot EXCEPT !.item.text = @ \o f.text]
      PROVE  Kept(slot, new)
  <2>1. new = [id |-> slot.id, item |-> [slot.item EXCEPT !.text = @ \o f.text], done |-> slot.done,
               buffer |-> slot.buffer, parts |-> slot.parts]
    BY <1>5 DEF IsSlot
  <2> QED BY <2>1 DEF Kept, IsSlot
<1> QED BY <1>1, <1>2, <1>3, <1>4, <1>5 DEF ApplyEvent

\* What an accepted event makes of the accumulator.
Taken(a, r) ==
    /\ Coherent(r.acc) /\ Final(a, r.acc)

\* SlotMap::open keeps the maps coherent and what is done.
LEMMA OpenStep ==
  ASSUME NEW a, Coherent(a), NEW f, Target(a, f, "open") \in Indexes, Open(a, f).ok
  PROVE  Taken(a, Open(a, f))
<1> DEFINE i == Target(a, f, "open")
           new == Slot([ItemOf(f, i) EXCEPT !.text = <<>>, !.status = "in_progress"], FALSE)
<1>1. ~Rejected(a, f, "open")
  BY DEF Open, Fail
<1>2. i \notin DOMAIN a.slots /\ ~Elsewhere(a, f)
  BY <1>1 DEF Rejected
<1>3. IsSlot(new) /\ new.id = ""
  BY DEF IsSlot, Slot
<1>4. i \in Indexes /\ (f.id \in DOMAIN a.ids => a.ids[f.id] = i)
  BY <1>2, TargetFacts
<1>5. CASE ~Opens(f)
  BY <1>1, <1>5 DEF Open, Skip, Taken, Final
<1>6. CASE Opens(f)
  <2>1. Open(a, f).acc = Bind(Put(a, i, new), i, f.id)
    BY <1>1, <1>6 DEF Open, Emit
  <2>2. Writes(a, i, f.id, new) /\ Keeps(a, i, new)
    BY <1>2, <1>3, <1>4 DEF Writes, Keeps
  <2> HIDE DEF i, new
  <2> QED BY <2>1, <2>2, WriteFacts DEF Taken
<1> QED BY <1>5, <1>6

\* So does applying an event to a slot.
LEMMA ApplyStep ==
  ASSUME NEW a, Coherent(a), NEW f, Target(a, f, "open") \in Indexes, Apply(a, f).ok
  PROVE  Taken(a, Apply(a, f))
<1> DEFINE i == Target(a, f, "mutate")
           new == ApplyEvent(a.slots[i], f)
<1>1. ~Rejected(a, f, "mutate")
  BY DEF Apply, Fail
<1>2. CASE Ignored(a, f, "mutate")
  BY <1>1, <1>2 DEF Apply, Skip, Taken, Final
<1>3. CASE ~Ignored(a, f, "mutate")
  <2>1. i \in DOMAIN a.slots /\ ~a.slots[i].done /\ ~Elsewhere(a, f) /\ i # NoIndex
    BY <1>1, <1>3 DEF Rejected, Ignored
  <2>2. i \in Indexes /\ (f.id \in DOMAIN a.ids => a.ids[f.id] = i)
    BY <2>1, TargetFacts
  <2>3. IsSlot(a.slots[i])
    BY <2>1 DEF Coherent, IsAcc
  <2>4. Kept(a.slots[i], new)
    BY <2>3, ApplyFacts
  <2>5. Apply(a, f).acc = Bind(Put(a, i, new), i, f.id)
    BY <1>1, <1>3 DEF Apply, Emit, Fail
  <2> HIDE DEF i, new
  <2>6. Writes(a, i, f.id, new) /\ Keeps(a, i, new)
    BY <2>1, <2>2, <2>4 DEF Writes, Keeps, Kept
  <2> QED BY <2>5, <2>6, WriteFacts DEF Taken
<1> QED BY <1>2, <1>3

\* A completion says what is done, or it is the first.
LEMMA CompleteStep ==
  ASSUME NEW a, Coherent(a), NEW f, Target(a, f, "open") \in Indexes, Complete(a, f).ok
  PROVE  Taken(a, Complete(a, f))
<1> DEFINE i == Target(a, f, "complete")
           slot == a.slots[i]
<1>1. ~Rejected(a, f, "complete")
  BY DEF Complete, Fail
<1>2. ~Elsewhere(a, f)
  BY <1>1 DEF Rejected
<1>3. i \in Indexes /\ (f.id \in DOMAIN a.ids => a.ids[f.id] = i)
  BY <1>2, TargetFacts
<1>4. CASE Complete(a, f).acc = a
  BY <1>4 DEF Taken, Final
<1>5. CASE i \notin DOMAIN a.slots
  <2> DEFINE new == Slot(ItemOf(f, i), TRUE)
  <2>1. CASE Complete(a, f).acc = Bind(Put(a, i, new), i, f.id)
    <3>1. IsSlot(new) /\ new.id = ""
      BY DEF IsSlot, Slot
    <3> HIDE DEF i, new
    <3>2. Writes(a, i, f.id, new) /\ Keeps(a, i, new)
      BY <1>3, <1>5, <3>1 DEF Writes, Keeps
    <3> QED BY <2>1, <3>2, WriteFacts DEF Taken
  <2>2. Complete(a, f).acc \in {a, Bind(Put(a, i, new), i, f.id)}
    BY <1>1, <1>5 DEF Complete, Emit, Skip
  <2> QED BY <1>4, <2>1, <2>2
<1>6. CASE i \in DOMAIN a.slots
  <2>1. IsSlot(slot)
    BY <1>6 DEF Coherent, IsAcc
  <2>2. Free(a, i, f.id)
    <3>1. f.id \in DOMAIN a.ids => a.slots[i].id = f.id /\ f.id # ""
      BY <1>3 DEF Coherent, Paired
    <3> HIDE DEF i
    <3> QED BY <1>6, <3>1 DEF Free
  <2>3. CASE slot.done /\ Complete(a, f).acc = Bind(a, i, f.id)
    <3> HIDE DEF i
    <3> QED BY <2>2, <2>3, BindFacts DEF Taken, Final
  <2>4. CASE ~slot.done /\ Complete(a, f).acc = Settle(a, i, f).acc
    <3> DEFINE new == [slot EXCEPT !.item = Candidate(slot, f), !.done = TRUE, !.buffer = <<>>]
    <3>1. Complete(a, f).acc = Bind(Put(a, i, new), i, f.id)
      BY <2>4 DEF Settle, Emit
    <3>2. IsSlot(new) /\ new.id = slot.id
      <4> DEFINE item == Candidate(slot, f)
      <4> HIDE DEF item, slot
      <4>1. new = [slot EXCEPT !.item = item, !.done = TRUE, !.buffer = <<>>]
        BY DEF item
      <4> HIDE DEF new
      <4>2. new = [id |-> slot.id, item |-> item, done |-> TRUE, buffer |-> <<>>, parts |-> slot.parts]
        BY <2>1, <4>1 DEF IsSlot
      <4> QED BY <4>2 DEF IsSlot
    <3> HIDE DEF new
    <3>3. Writes(a, i, f.id, new) /\ Keeps(a, i, new)
      BY <1>3, <1>6, <2>4, <3>2 DEF Writes, Keeps
    <3> HIDE DEF i
    <3> QED BY <3>1, <3>3, WriteFacts DEF Taken
  <2>5. \/ Complete(a, f).acc = a
        \/ slot.done /\ Complete(a, f).acc = Bind(a, i, f.id)
        \/ ~slot.done /\ Complete(a, f).acc = Settle(a, i, f).acc
    <3>1. CASE slot.done
      BY <1>1, <1>6, <3>1 DEF Complete, Resettle, Skip, Fail
    <3>2. CASE ~slot.done
      BY <1>1, <1>6, <3>2 DEF Complete, Skip, Fail
    <3> QED BY <3>1, <3>2
  <2> QED BY <1>4, <2>3, <2>4, <2>5
<1> QED BY <1>5, <1>6

-----------------------------------------------------------------------------
(* The steps.                                                              *)

\* Every event the accumulator accepts.
LEMMA ItemStep ==
  ASSUME NEW a, Coherent(a), NEW f, Target(a, f, "open") \in Indexes, ItemEvent(a, f).ok
  PROVE  Taken(a, ItemEvent(a, f))
<1>1. ItemEvent(a, f) \in {Open(a, f), Complete(a, f), Apply(a, f)}
  BY DEF ItemEvent
<1> QED BY <1>1, OpenStep, CompleteStep, ApplyStep

\* The fields that are not the maps do not matter.
LEMMA SameMaps ==
  ASSUME NEW a, Coherent(a), NEW b, HasFields(b), b.slots = a.slots, b.ids = a.ids
  PROVE  Coherent(b) /\ Final(a, b)
  BY DEF Coherent, IsAcc, Paired, Final

\* An accumulator without slots.
LEMMA NoSlots ==
  ASSUME NEW a, NEW b, HasFields(b), b.slots = <<>>, b.ids = <<>>
  PROVE  Coherent(b) /\ Final(a, b)
<1>1. DOMAIN b.slots = {} /\ DOMAIN b.ids = {}
  OBVIOUS
<1> QED BY <1>1 DEF Coherent, IsAcc, Paired, Final

\* A new accumulator has no slots.
LEMMA NewFacts ==
  ASSUME NEW strict
  PROVE  /\ HasFields(Accumulator(strict)) /\ Accumulator(strict).slots = <<>>
         /\ Accumulator(strict).ids = <<>>
  BY DEF Accumulator, HasFields

\* process_event keeps the maps coherent and what is done, whatever the event.
LEMMA ProcessStep ==
  ASSUME NEW a, Coherent(a), NEW f,
         f.type \in ItemTypes => Target(a, f, "open") \in Indexes,
         f.type \in ItemTypes \cup Lifecycle \cup {"other"},
         ProcessEvent(a, f).ok
  PROVE  Taken(a, ProcessEvent(a, f))
<1>1. HasFields(a)
  BY DEF Coherent, IsAcc
<1>2. CASE f.type = "created"
  <2> SUFFICES ASSUME NEW b, b = [a EXCEPT !.response = f.id, !.lifecycle = "created"]
               PROVE  Coherent(b) /\ Final(a, b)
    BY <1>2 DEF ProcessEvent, Emit, Taken, Terminals
  <2>1. b = [strict |-> a.strict, response |-> f.id, lifecycle |-> "created", status |-> a.status,
             slots |-> a.slots, ids |-> a.ids, calls |-> a.calls, output |-> a.output]
    BY <1>1 DEF HasFields
  <2>2. HasFields(b) /\ b.slots = a.slots /\ b.ids = a.ids
    BY <2>1 DEF HasFields
  <2> QED BY <2>2, SameMaps
<1>3. CASE f.type = "in_progress"
  <2> SUFFICES ASSUME NEW b, b = [a EXCEPT !.lifecycle = "in_progress"]
               PROVE  Coherent(b) /\ Final(a, b)
    BY <1>3 DEF ProcessEvent, Emit, Taken, Terminals
  <2>1. b = [strict |-> a.strict, response |-> a.response, lifecycle |-> "in_progress",
             status |-> a.status, slots |-> a.slots, ids |-> a.ids, calls |-> a.calls,
             output |-> a.output]
    BY <1>1 DEF HasFields
  <2>2. HasFields(b) /\ b.slots = a.slots /\ b.ids = a.ids
    BY <2>1 DEF HasFields
  <2> QED BY <2>2, SameMaps
<1>4. CASE f.type \in Terminals
  <2>1. ProcessEvent(a, f).acc = FinishResponse(a, f)
    BY <1>4 DEF ProcessEvent, Emit, Terminals
  <2> SUFFICES ASSUME NEW b, b = FinishResponse(a, f)
               PROVE  Coherent(b) /\ Final(a, b)
    BY <2>1 DEF Taken
  <2>2. b = [strict |-> a.strict, response |-> a.response, lifecycle |-> "terminal",
             status |-> b.status, slots |-> <<>>, ids |-> <<>>, calls |-> a.calls,
             output |-> b.output]
    BY <1>1 DEF HasFields, FinishResponse, FinalizeAll
  <2>3. HasFields(b) /\ b.slots = <<>> /\ b.ids = <<>>
    BY <2>2 DEF HasFields
  <2> QED BY <2>3, NoSlots
<1>5. CASE f.type = "other"
  BY <1>5 DEF ProcessEvent, Emit, Taken, Final, Terminals
<1>6. CASE f.type \in ItemTypes
  <2> DEFINE r == ItemEvent(a, f)
             seen == Observe(r.acc, r.index, CallNamed(r, f))
  <2>1. \/ ProcessEvent(a, f) = r
        \/ r.ok /\ ProcessEvent(a, f).acc = seen /\ ProcessEvent(a, f) = [r EXCEPT !.acc = seen]
    BY <1>6 DEF ProcessEvent, ItemTypes, Terminals
  <2>2. r.ok
    BY <2>1
  <2>3. Coherent(r.acc) /\ Final(a, r.acc)
    BY <1>6, <2>2, ItemStep DEF Taken
  <2>4. Coherent(seen) /\ Final(a, seen)
    <3> DEFINE c == r.acc
    <3> HIDE DEF r, c
    <3>1. HasFields(c) /\ Coherent(c) /\ Final(a, c)
      BY <2>3 DEF Coherent, IsAcc, c
    <3> SUFFICES ASSUME NEW b, b = Observe(c, r.index, CallNamed(r, f))
                 PROVE  Coherent(b) /\ Final(a, b)
      BY DEF c
    <3>2. b = [strict |-> c.strict, response |-> c.response, lifecycle |-> c.lifecycle,
               status |-> c.status, slots |-> c.slots, ids |-> c.ids, calls |-> b.calls,
               output |-> c.output]
      BY <3>1 DEF HasFields, Observe
    <3>3. HasFields(b) /\ b.slots = c.slots /\ b.ids = c.ids
      BY <3>2 DEF HasFields
    <3>4. Coherent(b)
      BY <3>1, <3>3, SameMaps
    <3>5. Final(a, b)
      BY <3>1, <3>3 DEF Final
    <3> QED BY <3>4, <3>5
  <2> QED BY <2>1, <2>3, <2>4 DEF Taken
<1> QED BY <1>2, <1>3, <1>4, <1>5, <1>6 DEF Lifecycle

\* A line is about the response, about nothing, or about an item that fits.
LEMMA LineFacts ==
  ASSUME menu \in Menus, NEW f \in Lines
  PROVE  LET g == Normalize(f)
         IN  /\ g.type \in ItemTypes => Target(acc, g, "open") \in Indexes
             /\ g.type \in ItemTypes \cup Lifecycle \cup {"other", "ignore", "malformed", "bad_index"}
<1> DEFINE Others == {"other", "ignore", "malformed", "bad_index"}
<1>1. CASE f \in UNION {ItemLines(k) : k \in menu.kinds} /\ Fits(f)
  <2>1. PICK k \in menu.kinds : f \in ItemLines(k)
    BY <1>1
  <2>2. f.type \in ItemTypes
    <3> DEFINE at(t, p) == [Line(t) EXCEPT !.index = p[1], !.id = p[2], !.kind = k]
               added(p, n, c) == [at("added", p) EXCEPT !.name = n, !.call = c, !.status = "in_progress"]
               part(p, j) == [at("part", p) EXCEPT !.part = j]
               delta(p, u, j) == [at("delta", p) EXCEPT !.text = <<u>>, !.part = j]
               partDone(p, x, n, j) == [at("part_done", p) EXCEPT !.text = x, !.name = n, !.part = j]
               done(p, x, n, c, s, o) ==
                 [at("done", p) EXCEPT !.text = x, !.name = n, !.call = c, !.status = s, !.ok = o]
               named == IF IsCallOf(k) THEN Names(k) \ {"none"} ELSE {"none"}
    <3>1. ItemLines(k) =
            {added(p, n, c) : p \in menu.places, n \in Names(k), c \in Calls(k)}
            \cup {part(p, j) : p \in {q \in menu.places : k = "shell_call"}, j \in Parts(k)}
            \cup {delta(p, u, j) :
                    p \in {q \in menu.places : k # "tool_search_call"}, u \in menu.tokens, j \in Parts(k)}
            \cup {partDone(p, x, n, j) :
                    p \in {q \in menu.places : k \in CallKinds \ {"tool_search_call"}},
                    x \in menu.texts \cup {<<>>}, n \in named, j \in Parts(k)}
            \cup {done(p, x, n, c, s, o) :
                    p \in menu.places, x \in menu.texts \cup {<<>>}, n \in named, c \in Calls(k),
                    s \in menu.statuses, o \in menu.oks}
      BY DEF ItemLines
    <3>2. /\ \A p, n, c : added(p, n, c).type = "added"
          /\ \A p, j : part(p, j).type = "part"
          /\ \A p, u, j : delta(p, u, j).type = "delta"
          /\ \A p, x, n, j : partDone(p, x, n, j).type = "part_done"
          /\ \A p, x, n, c, s, o : done(p, x, n, c, s, o).type = "done"
      BY DEF Line
    <3> HIDE DEF at, added, part, delta, partDone, done, named
    <3>3. \/ \E p, n, c : f = added(p, n, c)
          \/ \E p, j : f = part(p, j)
          \/ \E p, u, j : f = delta(p, u, j)
          \/ \E p, x, n, j : f = partDone(p, x, n, j)
          \/ \E p, x, n, c, s, o : f = done(p, x, n, c, s, o)
      BY <2>1, <3>1
    <3> QED BY <3>2, <3>3 DEF ItemTypes
  <2>3. Normalize(f) = f
    BY <2>2 DEF Normalize, ItemTypes
  <2> QED BY <1>1, <2>2, <2>3 DEF Fits
<1>2. CASE f \in ResponseLines
  <2>0. PICK t \in {"created", "in_progress"} \cup Terminals, r \in menu.responses, o \in Snapshots,
             s \in {"none", "incomplete"} :
          f = [Line(t) EXCEPT !.id = r, !.items = o, !.status = s]
    <3> DEFINE line(t, r, o, s) == [Line(t) EXCEPT !.id = r, !.items = o, !.status = s]
    <3>1. ResponseLines = {line(t, r, o, s) : t \in {"created", "in_progress"} \cup Terminals, r \in menu.responses, o \in Snapshots, s \in {"none", "incomplete"}}
      BY DEF ResponseLines
    <3> HIDE DEF line
    <3>2. \E t \in {"created", "in_progress"} \cup Terminals, r \in menu.responses, o \in Snapshots,
             s \in {"none", "incomplete"} : f = line(t, r, o, s)
      BY <1>2, <3>1
    <3> QED BY <3>2 DEF line
  <2>1. f.type \in Lifecycle
    BY <2>0 DEF Line, Lifecycle
  <2>2. Normalize(f).type \in {f.type, "incomplete"}
    BY <2>0 DEF Normalize, Line
  <2>3. Normalize(f).type \in Lifecycle
    BY <2>1, <2>2 DEF Lifecycle, Terminals
  <2> QED BY <2>3 DEF Lifecycle, Terminals, ItemTypes
<1>3. CASE f \in OtherLines
  <2>0. PICK t \in menu.others : f = Line(t)
    BY <1>3, Zenon DEF OtherLines
  <2>1. f.type \in Others
    BY <2>0, MenusAssumption DEF Line
  <2>2. Normalize(f) = f
    BY <2>1 DEF Normalize
  <2> QED BY <2>1, <2>2 DEF ItemTypes
<1> QED BY <1>1, <1>2, <1>3 DEF Lines

Inv == menu \in Menus /\ Coherent(acc)

\* The invariant holds at the start.
LEMMA Initial == Init => Inv
<1> SUFFICES ASSUME Init PROVE Inv
  OBVIOUS
<1>1. acc = Accumulator(menu.strict) /\ menu \in Menus
  BY DEF Init
<1>2. HasFields(acc) /\ acc.slots = <<>> /\ acc.ids = <<>>
  BY <1>1, NewFacts
<1> QED BY <1>1, <1>2, NoSlots DEF Inv

\* An error keeps the accumulator as it was.
LEMMA AbortStep ==
  ASSUME Inv, Abort, UNCHANGED menu
  PROVE  Inv' /\ Final(acc, acc')
<1>1. HasFields(acc') /\ acc'.slots = <<>> /\ acc'.ids = <<>>
  BY NewFacts DEF Abort
<1> QED BY <1>1, NoSlots DEF Inv

\* A line of the stream is pushed.
LEMMA PushStep ==
  ASSUME Inv, Push
  PROVE  Inv' /\ Final(acc, acc')
<1>1. PICK f \in Lines : \/ ProcessLine(acc, f).ok /\ acc' = ProcessLine(acc, f).acc /\ UNCHANGED menu
                         \/ Abort /\ UNCHANGED menu
  BY DEF Push
<1> DEFINE g == Normalize(f)
<1>2. CASE ProcessLine(acc, f).ok /\ acc' = ProcessLine(acc, f).acc /\ UNCHANGED menu
  <2>1. /\ g.type \in ItemTypes => Target(acc, g, "open") \in Indexes
        /\ g.type \in ItemTypes \cup Lifecycle \cup {"other", "ignore", "malformed", "bad_index"}
    BY LineFacts DEF Inv
  <2>2. CASE g.type \in {"ignore", "malformed", "bad_index"}
    <3>1. acc' = acc
      BY <1>2, <2>2 DEF ProcessLine, Skip, Fail
    <3> QED BY <1>2, <3>1 DEF Inv, Final
  <2>3. CASE g.type \notin {"ignore", "malformed", "bad_index"}
    <3>1. ProcessLine(acc, f) = ProcessEvent(acc, g)
      BY <1>2, <2>3 DEF ProcessLine, Fail
    <3>2. g.type \in ItemTypes \cup Lifecycle \cup {"other"}
      BY <2>1, <2>3
    <3>3. Coherent(acc)
      BY DEF Inv
    <3> HIDE DEF g
    <3>4. Taken(acc, ProcessEvent(acc, g))
      BY <1>2, <2>1, <3>1, <3>2, <3>3, ProcessStep
    <3> QED BY <1>2, <3>1, <3>4 DEF Taken, Inv
  <2> QED BY <2>2, <2>3
<1> QED BY <1>1, <1>2, AbortStep

\* A JSON body is loaded.
LEMMA LoadJsonStep ==
  ASSUME Inv, LoadJson
  PROVE  Inv' /\ Final(acc, acc')
<1>1. PICK b \in Bodies : (acc' = ReadJson(acc, b) /\ UNCHANGED menu) \/ (Abort /\ UNCHANGED menu)
  BY DEF LoadJson
<1>2. CASE acc' = ReadJson(acc, b) /\ UNCHANGED menu
  <2>1. acc' = [strict |-> acc.strict, response |-> "own", lifecycle |-> "terminal",
                status |-> acc'.status, slots |-> <<>>, ids |-> <<>>, calls |-> <<>>,
                output |-> acc'.output]
    BY <1>2 DEF ReadJson, Accumulator
  <2>2. HasFields(acc') /\ acc'.slots = <<>> /\ acc'.ids = <<>>
    BY <2>1 DEF HasFields
  <2> QED BY <1>2, <2>2, NoSlots DEF Inv
<1> QED BY <1>1, <1>2, AbortStep

\* The round is finished.
LEMMA FinishStep ==
  ASSUME Inv, Finish
  PROVE  Inv' /\ Final(acc, acc')
<1>1. (acc' \in {acc, FinishStream(acc)} /\ UNCHANGED menu) \/ (Abort /\ UNCHANGED menu)
  BY DEF Finish
<1>2. CASE acc' = acc /\ UNCHANGED menu
  BY <1>2 DEF Inv, Final
<1>3. CASE acc' = FinishStream(acc) /\ UNCHANGED menu
  <2>1. acc' = [strict |-> acc.strict, response |-> acc.response, lifecycle |-> "terminal",
                status |-> acc'.status, slots |-> <<>>, ids |-> <<>>, calls |-> acc.calls,
                output |-> acc'.output]
    BY <1>3 DEF Inv, Coherent, IsAcc, HasFields, FinishStream, FinalizeAll
  <2>2. HasFields(acc') /\ acc'.slots = <<>> /\ acc'.ids = <<>>
    BY <2>1 DEF HasFields
  <2> QED BY <1>3, <2>2, NoSlots DEF Inv
<1> QED BY <1>1, <1>2, <1>3, AbortStep

\* Every step keeps the invariant and what is done.
LEMMA Step == Inv /\ [Next]_vars => Inv' /\ Final(acc, acc')
<1> SUFFICES ASSUME Inv, [Next]_vars PROVE Inv' /\ Final(acc, acc')
  OBVIOUS
<1>1. CASE UNCHANGED vars
  BY <1>1 DEF vars, Inv, Final
<1> QED BY <1>1, PushStep, LoadJsonStep, FinishStep DEF Next

\* The invariant is preserved by every step.
LEMMA Inductive == Inv /\ [Next]_vars => Inv'
  BY Step

\* The invariant holds in every state.
LEMMA Invariance == Spec => []Inv
  BY Initial, Inductive, PTL DEF Spec

\* An id names one slot and a slot has one id, whatever events the upstream sends in whatever
\* order (IdentityCoherent).
THEOREM IdentityHolds == Spec => []IdentityCoherent
<1>1. Inv => IdentityCoherent
  BY DEF Inv, Coherent, Paired, IdentityCoherent
<1> QED BY <1>1, Invariance, PTL

\* An item that is done never changes again (DoneIsFinal).
THEOREM DoneHolds == Spec => DoneIsFinal
<1>1. Inv /\ [Next]_vars => [\A i \in DOMAIN acc.slots :
        acc.slots[i].done /\ i \in DOMAIN acc'.slots => acc'.slots[i].item = acc.slots[i].item]_vars
  BY Step DEF Final
<1> QED BY <1>1, Invariance, PTL DEF Spec, DoneIsFinal

-----------------------------------------------------------------------------
(* The stream of a turn.                                                   *)

Ofs == INSTANCE FoldTheorems WITH Op <- KeepIndex
Concatenated(s, t) == s \o t
Joined == INSTANCE FoldTheorems WITH Op <- Concatenated

\* The first elements of a sequence.
Front1(s, n) == [i \in 1 .. n |-> s[i]]

-----------------------------------------------------------------------------
(* The invariant.                                                          *)

Slots == [kind : ItemKinds, state : {"unnamed", "open", "done"}]
Records == {"list", "compaction"}
OutItems == [round : Nat, place : Nat, kind : ItemKinds \cup Records]
ItemEvs == [type : {"added", "done"}, index : Nat \ {0}, item : OutItems \cup (Nat \X Nat)]
Evs == [type : {"created", "in_progress"}, index : {0}, item : {<<>>}] \cup ItemEvs
LastEvs == [type : {"completed", "incomplete", "failed", "error"}, index : {0}, item : {<<>>}]
Entries == [event : Evs, number : Nat]
Chunks == [event : LastEvs, number : Nat]
Deliveries == [event : Evs \cup LastEvs, number : Nat]

\* What the client has seen of the turn, without the event that ends it, and what was
\* sent to it so far.
Seen == IF stream = "ended" THEN Front1(delivered, Len(delivered) - 1) ELSE delivered
EventsOf(s) == [n \in 1 .. Len(s) |-> s[n].event]
Sent == (EventsOf(Seen) \o EventsOf(channel)) \o outbox

\* Types.
WorkTyped ==
    /\ mode \in Modes /\ round \in 1 .. MaxRounds
    /\ pc \in {"new", "round", "fetch", "execute", "close", "return", "ended"}
    /\ script \in Seq(ItemKinds)
    /\ items \in Seq(Slots)
    /\ Len(items) <= Len(script)
    /\ outbox \in Seq(Evs) /\ deferred \in Seq(ItemEvs)
    /\ begun \in BOOLEAN /\ number \in Nat
    /\ combined \in Seq(OutItems)
    /\ status \in {"in_progress", "completed", "incomplete", "failed"}
    /\ result \in {"none", "ok", "error", "invalid_search", "panic"}
PollTyped ==
    /\ channel \in Seq(Entries)
    /\ stream \in {"select", "drain", "persist", "yield", "ended", "dropped"}
    /\ nextNumber \in Nat
    /\ stream \in {"persist", "yield", "ended"} => chunk \in Chunks
    /\ delivered \in Seq(Deliveries)
    /\ stream = "ended" => Len(delivered) > 0
    /\ Seen \in Seq(Entries)
Typed == WorkTyped /\ PollTyped

\* How a turn ends.
Ending ==
    /\ (result # "none") = (pc = "ended")
    /\ pc = "ended" => outbox = <<>>
    /\ pc \in {"execute", "close", "return"} \/ result = "ok" => status # "in_progress"
    /\ stream \in {"drain", "persist", "yield", "ended"} => result # "none"
    /\ stream \in {"persist", "yield", "ended"} => channel = <<>>
    /\ stream = "persist" => result = "ok" /\ chunk.event = Terminal(status)
    /\ stream \in {"yield", "ended"} /\ chunk.event.type \in {"completed", "incomplete"} =>
           /\ result = "ok" /\ chunk.event = Terminal(status)
           /\ mode # "none" => stored # {}
    /\ stream = "ended" => delivered[Len(delivered)] = chunk

\* Sequence numbers.
Numbered ==
    /\ nextNumber = Len(Seen)
    /\ \A n \in 1 .. Len(Seen) : Seen[n].number = n - 1
    /\ \A n \in 1 .. Len(channel) : channel[n].number = Len(Seen) + n - 1
    /\ result # "error" => number = Len(Seen) + Len(channel)
    /\ stream \in {"persist", "yield", "ended"} => chunk.number = Len(Seen)

\* The turn has not failed.
Sound == result = "none" \/ (result = "ok" /\ status # "failed")

\* The events of an item of the upstream's and of one the gateway completes.
Added(x, ref) == Event("added", x, ref)
Both(x, ref) == <<Event("added", x, ref), Event("done", x, ref)>>
Streamed(its, i, x) ==
    IF i > Len(its) \/ its[i].state = "unnamed" \/ its[i].kind \in GatewayKinds THEN <<>>
    ELSE IF its[i].state = "open" THEN <<Added(x, <<round, i>>)>>
    ELSE Both(x, <<round, i>>)

Base == IF pc = "ended" THEN Len(combined) - Len(items) ELSE Len(combined)
IsGateway(i) == i <= Len(items) /\ KindOf(i) = "gateway"

\* What was sent of the i-th item of the round.
Current(i) ==
    LET x == Base + i
    IN  CASE pc = "fetch" -> IF i < Boundary(items) THEN Streamed(items, i, x) ELSE <<>>
          [] pc = "execute" ->
               IF IsGateway(i) THEN IF i \in InitialRun THEN <<Added(x, <<round, i>>)>> ELSE <<>>
               ELSE IF i < Boundary(items) THEN Streamed(items, i, x) ELSE <<>>
          [] pc \in {"close", "ended"} ->
               IF IsGateway(i) THEN Both(x, <<round, i>>) ELSE Streamed(items, i, x)
          [] OTHER -> <<>>

\* What was sent of an item of an earlier round.
ClosedAt(sent, x) ==
    LET it == combined[x]
        ref == IF it.kind \in Records THEN it ELSE <<it.round, it.place>>
    IN  /\ it.kind \in Records \cup {"gateway"} => Of(sent, x) = Both(x, ref)
        /\ it.kind = "handlerless" => Of(sent, x) = <<>>
        /\ it.kind \in {"message", "function", "custom"} =>
               Of(sent, x) = <<Added(x, ref)>> \/ Of(sent, x) = Both(x, ref)

Starts(e) == e.type = "added"
Sorted(sent) ==
    \A m, n \in 1 .. Len(sent) :
        m < n /\ Starts(sent[m]) /\ Starts(sent[n]) => sent[m].index <= sent[n].index

AllNamed == \A i \in 1 .. Len(items) : items[i].state # "unnamed"

\* Before the first round nothing was sent but for a compaction.
Beginning ==
    /\ pc = "new" => combined = <<>>
    /\ pc \in {"new", "return"} => items = <<>>
    /\ pc \in {"new", "return"} => begun = FALSE
    /\ pc \in {"fetch", "execute", "close"} => begun
    /\ (pc = "round" /\ ~begun) => \A x \in 1 .. Len(combined) : combined[x] = ListItem(x)
    /\ (pc \in {"new", "round"} /\ ~begun) => Sent = <<>>

\* What is held back.
Held ==
    /\ pc \in {"new", "round", "close"} => deferred = <<>>
    /\ pc \in {"fetch", "execute"} =>
           \A i \in 1 .. Len(script) :
               Of(deferred, i) = IF i < Boundary(items) THEN <<>> ELSE Streamed(items, i, i)

\* The output.
Listed ==
    /\ Base \in Nat
    /\ \A x \in 1 .. Base : combined[x].round < round
    /\ pc = "ended" => \A i \in 1 .. Len(items) : combined[Base + i] = Item(round, i, KindOf(i))

Content(sent) ==
    /\ \A i \in Nat \ {0} : Of(sent, Base + i) = Current(i)
    /\ begun \/ pc \in {"return", "ended"} => \A x \in 1 .. Base : ClosedAt(sent, x)
    /\ pc \in {"close", "ended"} => (AllNamed => Sorted(sent))
    /\ pc \notin {"close", "ended"} => Sorted(sent)

Streaming == Sound => Beginning /\ Held /\ Listed /\ Content(Sent)

-----------------------------------------------------------------------------
(* Sequences of events by index.                                           *)

Partials(S) == [index : Nat, events : Seq(S)]

\* The events of an index, as a fold.
LEMMA OfFold == \A fs, x : Of(fs, x) = Ofs!Fold([index |-> x, events |-> <<>>], fs).events
  BY DEF Of, FoldLeft, MapThenFoldSet, Ofs!Fold, Ofs!Part, Ofs!Folds, Ofs!Greatest, Max

\* A step of that fold keeps the index and adds at most the element.
LEMMA KeepIndexType ==
  ASSUME NEW S, NEW p \in Partials(S), NEW f \in S
  PROVE  KeepIndex(p, f) \in Partials(S) /\ KeepIndex(p, f).index = p.index
  BY DEF KeepIndex, Partials

\* What the fold has at any time belongs to its index.
LEMMA OfPart ==
  ASSUME NEW S, NEW x \in Nat, NEW s \in Seq(S)
  PROVE  LET p == Ofs!Fold([index |-> x, events |-> <<>>], s)
         IN  p \in Partials(S) /\ p.index = x
<1> DEFINE b == [index |-> x, events |-> <<>>]
           T == {p \in Partials(S) : p.index = x}
<1>1. b \in T
  BY DEF Partials
<1>2. \A p \in T, f \in S : KeepIndex(p, f) \in T
  BY KeepIndexType
<1> HIDE DEF b, T
<1>3. Ofs!Fold(b, s) \in T
  BY <1>1, <1>2, Ofs!FoldIn
<1> QED BY <1>3 DEF b, T

\* The events of an index are elements of the sequence.
LEMMA OfType ==
  ASSUME NEW S, NEW x \in Nat, NEW s \in Seq(S)
  PROVE  Of(s, x) \in Seq(S)
  BY OfPart, OfFold DEF Partials

\* Of nothing there is nothing.
LEMMA OfEmpty == \A x : Of(<<>>, x) = <<>>
<1> SUFFICES ASSUME NEW x PROVE Of(<<>>, x) = <<>>
  OBVIOUS
<1> DEFINE b == [index |-> x, events |-> <<>>]
<1>1. b.events = <<>>
  OBVIOUS
<1>2. Of(<<>>, x) = Ofs!Fold(b, <<>>).events
  BY OfFold
<1>3. Ofs!Fold(b, <<>>) = b
  BY Ofs!FoldEmpty
<1> QED BY <1>1, <1>2, <1>3

\* An element is added to the events of its own index and of no other.
LEMMA OfAppend ==
  ASSUME NEW S, NEW x \in Nat, NEW s \in Seq(S), NEW e \in S
  PROVE  Of(Append(s, e), x) = IF e.index = x THEN Append(Of(s, x), e) ELSE Of(s, x)
<1> DEFINE b == [index |-> x, events |-> <<>>]
           p == Ofs!Fold(b, s)
<1>1. p \in Partials(S) /\ p.index = x
  BY OfPart
<1>2. Ofs!Fold(b, Append(s, e)) = KeepIndex(p, e)
  <2> HIDE DEF b
  <2> QED BY Ofs!FoldAppend
<1>3. Of(Append(s, e), x) = KeepIndex(p, e).events /\ Of(s, x) = p.events
  BY <1>2, OfFold
<1> HIDE DEF p
<1> QED BY <1>1, <1>3 DEF KeepIndex, Partials

\* Induction over the prefixes of a sequence.
LEMMA PrefixEnds ==
  ASSUME NEW S, NEW s \in Seq(S)
  PROVE  Len(s) \in Nat /\ Front1(s, 0) = <<>> /\ Front1(s, Len(s)) = s
  BY DEF Front1

\* A prefix is the one before it and an element.
LEMMA PrefixStep ==
  ASSUME NEW S, NEW s \in Seq(S), NEW n \in 1 .. Len(s)
  PROVE  s[n] \in S /\ Front1(s, n - 1) \in Seq(S) /\ Front1(s, n) = Append(Front1(s, n - 1), s[n])
<1>1. \A k \in 0 .. Len(s) : Front1(s, k) \in Seq(S) /\ Len(Front1(s, k)) = k
                                 /\ \A i \in 1 .. k : Front1(s, k)[i] = s[i]
  BY DEF Front1
<1>2. s[n] \in S /\ n - 1 \in 0 .. Len(s) /\ n \in 0 .. Len(s)
  OBVIOUS
<1>3. /\ Append(Front1(s, n - 1), s[n]) \in Seq(S) /\ Len(Append(Front1(s, n - 1), s[n])) = n
      /\ \A i \in 1 .. n : Append(Front1(s, n - 1), s[n])[i] = Front1(s, n)[i]
  BY <1>1, <1>2
<1>4. Front1(s, n) = Append(Front1(s, n - 1), s[n])
  BY <1>1, <1>2, <1>3, SeqEqual
<1> QED BY <1>1, <1>2, <1>4

\* Of two sequences one after the other.
LEMMA OfConcat ==
  ASSUME NEW S, NEW x \in Nat, NEW s \in Seq(S), NEW t \in Seq(S)
  PROVE  Of(s \o t, x) = Of(s, x) \o Of(t, x)
<1> DEFINE B == {n \in 0 .. Len(t) : Of(s \o Front1(t, n), x) = Of(s, x) \o Of(Front1(t, n), x)}
<1>1. 0 \in B
  <2>1. Front1(t, 0) = <<>> /\ s \o <<>> = s /\ Of(s, x) \o <<>> = Of(s, x)
    BY OfType, PrefixEnds
  <2>2. Of(s \o Front1(t, 0), x) = Of(s, x) \o Of(Front1(t, 0), x)
    BY <2>1, OfEmpty
  <2> QED BY <2>2
<1>2. ASSUME NEW n \in 1 .. Len(t), n - 1 \in B PROVE n \in B
  <2> DEFINE p == Front1(t, n - 1)
             e == t[n]
  <2>1. p \in Seq(S) /\ e \in S /\ Front1(t, n) = Append(p, e)
    BY PrefixStep
  <2>2. Of(s \o p, x) = Of(s, x) \o Of(p, x)
    BY <1>2
  <2> HIDE DEF p, e
  <2>3. s \o Append(p, e) = Append(s \o p, e) /\ s \o p \in Seq(S)
    BY <2>1
  <2>4. Of(Append(s \o p, e), x) = IF e.index = x THEN Append(Of(s \o p, x), e) ELSE Of(s \o p, x)
    BY <2>1, <2>3, OfAppend
  <2>5. Of(Append(p, e), x) = IF e.index = x THEN Append(Of(p, x), e) ELSE Of(p, x)
    BY <2>1, OfAppend
  <2>6. Of(s, x) \in Seq(S) /\ Of(p, x) \in Seq(S)
    BY <2>1, OfType
  <2>7. Of(s, x) \o Append(Of(p, x), e) = Append(Of(s, x) \o Of(p, x), e)
    BY <2>1, <2>6
  <2>8. Of(s \o Append(p, e), x) = Of(s, x) \o Of(Append(p, e), x)
    BY <2>2, <2>3, <2>4, <2>5, <2>7
  <2>9. Of(s \o Front1(t, n), x) = Of(s, x) \o Of(Front1(t, n), x)
    BY <2>1, <2>8
  <2> QED BY <2>9
<1>3. Len(t) \in B
  <2>1. Len(t) \in Nat
    OBVIOUS
  <2> HIDE DEF B
  <2> QED BY <1>1, <1>2, <2>1, Ofs!Upwards
<1> QED BY <1>3, PrefixEnds

\* An index that does not occur has no events.
LEMMA OfNone ==
  ASSUME NEW S, NEW x \in Nat, NEW s \in Seq(S), \A n \in 1 .. Len(s) : s[n].index # x
  PROVE  Of(s, x) = <<>>
<1> DEFINE B == {n \in 0 .. Len(s) : Of(Front1(s, n), x) = <<>>}
<1>1. 0 \in B
  BY OfEmpty, PrefixEnds
<1>2. ASSUME NEW n \in 1 .. Len(s), n - 1 \in B PROVE n \in B
  <2>1. Front1(s, n - 1) \in Seq(S) /\ s[n] \in S /\ Front1(s, n) = Append(Front1(s, n - 1), s[n])
    BY PrefixStep
  <2> DEFINE p == Front1(s, n - 1)
  <2>2. Of(Append(p, s[n]), x) = Of(p, x)
    <3> HIDE DEF p
    <3>1. p \in Seq(S) /\ s[n].index # x
      BY <2>1 DEF p
    <3> QED BY <2>1, <3>1, OfAppend
  <2>3. Of(Front1(s, n), x) = <<>>
    BY <1>2, <2>1, <2>2
  <2> QED BY <2>3
<1>3. Len(s) \in Nat
  OBVIOUS
<1>4. Len(s) \in B
  <2> HIDE DEF B
  <2> QED BY <1>1, <1>2, <1>3, Ofs!Upwards
<1> QED BY <1>4, PrefixEnds

\* An index that alone occurs has them all.
LEMMA OfAll ==
  ASSUME NEW S, NEW x \in Nat, NEW s \in Seq(S), \A n \in 1 .. Len(s) : s[n].index = x
  PROVE  Of(s, x) = s
<1> DEFINE B == {n \in 0 .. Len(s) : Of(Front1(s, n), x) = Front1(s, n)}
<1>1. 0 \in B
  BY OfEmpty, PrefixEnds
<1>2. ASSUME NEW n \in 1 .. Len(s), n - 1 \in B PROVE n \in B
  <2>1. Front1(s, n - 1) \in Seq(S) /\ s[n] \in S /\ Front1(s, n) = Append(Front1(s, n - 1), s[n])
    BY PrefixStep
  <2> DEFINE p == Front1(s, n - 1)
  <2>2. Of(Append(p, s[n]), x) = Append(Of(p, x), s[n])
    <3> HIDE DEF p
    <3>1. p \in Seq(S) /\ s[n].index = x
      BY <2>1 DEF p
    <3> QED BY <2>1, <3>1, OfAppend
  <2>3. Of(Front1(s, n), x) = Front1(s, n)
    BY <1>2, <2>1, <2>2
  <2> QED BY <2>3
<1>3. Len(s) \in Nat
  OBVIOUS
<1>4. Len(s) \in B
  <2> HIDE DEF B
  <2> QED BY <1>1, <1>2, <1>3, Ofs!Upwards
<1> QED BY <1>4, PrefixEnds

\* Where the events of an item are.
Positions(s, x, pos) ==
    LET o == Of(s, x)
    IN  /\ pos \in [1 .. Len(o) -> 1 .. Len(s)]
        /\ \A k \in 1 .. Len(o) : o[k] = s[pos[k]] /\ s[pos[k]].index = x
        /\ \A k, l \in 1 .. Len(o) : k < l => pos[k] < pos[l]
        /\ \A n \in 1 .. Len(s) : s[n].index = x => \E k \in 1 .. Len(o) : pos[k] = n

\* Positions are extended with the sequence.
LEMMA PositionsStep ==
  ASSUME NEW S, NEW x \in Nat, NEW s \in Seq(S), NEW e \in S, NEW pos, Positions(s, x, pos)
  PROVE  \E q : Positions(Append(s, e), x, q)
<1> DEFINE o == Of(s, x)
           t == Append(s, e)
<1>1. o \in Seq(S) /\ Len(o) \in Nat /\ Len(s) \in Nat
  BY OfType
<1>2. t \in Seq(S) /\ Len(t) = Len(s) + 1 /\ t[Len(s) + 1] = e /\ \A n \in 1 .. Len(s) : t[n] = s[n]
  OBVIOUS
<1>3. Of(t, x) = IF e.index = x THEN Append(o, e) ELSE o
  BY OfAppend
<1>4. /\ pos \in [1 .. Len(o) -> 1 .. Len(s)]
      /\ \A k \in 1 .. Len(o) : o[k] = s[pos[k]] /\ s[pos[k]].index = x
      /\ \A k, l \in 1 .. Len(o) : k < l => pos[k] < pos[l]
      /\ \A n \in 1 .. Len(s) : s[n].index = x => \E k \in 1 .. Len(o) : pos[k] = n
  BY DEF Positions
<1> HIDE DEF o, t
<1>5. CASE e.index = x
  <2> DEFINE q == [k \in 1 .. Len(o) + 1 |-> IF k = Len(o) + 1 THEN Len(s) + 1 ELSE pos[k]]
             u == Of(t, x)
  <2>1. u = Append(o, e) /\ Len(u) = Len(o) + 1 /\ u[Len(o) + 1] = e /\ \A k \in 1 .. Len(o) : u[k] = o[k]
    BY <1>1, <1>3, <1>5
  <2>2. q \in [1 .. Len(u) -> 1 .. Len(t)]
    BY <1>1, <1>2, <1>4, <2>1
  <2>3. ASSUME NEW k \in 1 .. Len(u) PROVE u[k] = t[q[k]] /\ t[q[k]].index = x
    <3>1. CASE k = Len(o) + 1
      <4>1. q[k] = Len(s) + 1
        BY <1>1, <2>1, <3>1
      <4>2. u[k] = e /\ t[q[k]] = e
        BY <1>2, <2>1, <3>1, <4>1
      <4> QED BY <1>5, <4>2
    <3>2. CASE k \in 1 .. Len(o)
      <4>1. q[k] = pos[k] /\ pos[k] \in 1 .. Len(s)
        BY <1>1, <1>4, <3>2
      <4>2. u[k] = o[k] /\ o[k] = s[pos[k]] /\ s[pos[k]].index = x
        BY <1>4, <2>1, <3>2
      <4>3. t[pos[k]] = s[pos[k]]
        BY <1>2, <4>1
      <4> QED BY <4>1, <4>2, <4>3
    <3> QED BY <1>1, <2>1, <3>1, <3>2
  <2>4. ASSUME NEW k \in 1 .. Len(u), NEW l \in 1 .. Len(u), k < l PROVE q[k] < q[l]
    BY <1>1, <1>4, <2>1, <2>4
  <2>5. ASSUME NEW n \in 1 .. Len(t), t[n].index = x PROVE \E k \in 1 .. Len(u) : q[k] = n
    <3>1. CASE n = Len(s) + 1
      <4>1. q[Len(o) + 1] = n /\ Len(o) + 1 \in 1 .. Len(u)
        BY <1>1, <2>1, <3>1
      <4> QED BY <4>1
    <3>2. CASE n \in 1 .. Len(s)
      <4>1. PICK k \in 1 .. Len(o) : pos[k] = n
        BY <1>2, <1>4, <2>5, <3>2
      <4>2. q[k] = n /\ k \in 1 .. Len(u)
        BY <1>1, <2>1, <4>1
      <4> QED BY <4>2
    <3>3. n = Len(s) + 1 \/ n \in 1 .. Len(s)
      BY <1>1, <1>2
    <3> QED BY <3>1, <3>2, <3>3
  <2> HIDE DEF q, u
  <2>6. Positions(t, x, q)
    BY <2>2, <2>3, <2>4, <2>5 DEF Positions, u
  <2> QED BY <2>6 DEF t
<1>6. CASE e.index # x
  <2>1. pos \in [1 .. Len(o) -> 1 .. Len(t)]
    BY <1>1, <1>2, <1>4
  <2>2. \A k \in 1 .. Len(o) : o[k] = t[pos[k]] /\ t[pos[k]].index = x
    BY <1>1, <1>2, <1>4
  <2>3. \A n \in 1 .. Len(t) : t[n].index = x => n \in 1 .. Len(s) /\ s[n].index = x
    BY <1>1, <1>2, <1>6
  <2>4. Positions(t, x, pos)
    BY <1>3, <1>4, <1>6, <2>1, <2>2, <2>3 DEF Positions
  <2> QED BY <2>4 DEF t
<1> QED BY <1>5, <1>6

\* The events of an index stand in the sequence in their order.
LEMMA OfPositions ==
  ASSUME NEW S, NEW x \in Nat, NEW s \in Seq(S)
  PROVE  \E pos : Positions(s, x, pos)
<1> DEFINE B == {n \in 0 .. Len(s) : \E pos : Positions(Front1(s, n), x, pos)}
<1>1. 0 \in B
  <2>1. Positions(<<>>, x, <<>>)
    BY OfEmpty DEF Positions
  <2>2. \E pos : Positions(Front1(s, 0), x, pos)
    BY <2>1, PrefixEnds
  <2> QED BY <2>2
<1>2. ASSUME NEW n \in 1 .. Len(s), n - 1 \in B PROVE n \in B
  <2>1. PICK pos : Positions(Front1(s, n - 1), x, pos)
    BY <1>2
  <2>2. Front1(s, n - 1) \in Seq(S) /\ s[n] \in S /\ Front1(s, n) = Append(Front1(s, n - 1), s[n])
    BY PrefixStep
  <2>3. \E q : Positions(Append(Front1(s, n - 1), s[n]), x, q)
    BY <2>1, <2>2, PositionsStep
  <2>4. \E q : Positions(Front1(s, n), x, q)
    BY <2>2, <2>3
  <2> QED BY <2>4
<1>3. Len(s) \in B
  <2> HIDE DEF B
  <2> QED BY <1>1, <1>2, PrefixEnds, Ofs!Upwards
<1> QED BY <1>3, PrefixEnds

\* Every element is among the events of its index.
LEMMA OfSome ==
  ASSUME NEW S, NEW s \in Seq(S), NEW n \in 1 .. Len(s), s[n].index \in Nat
  PROVE  \E k \in 1 .. Len(Of(s, s[n].index)) : Of(s, s[n].index)[k] = s[n]
<1>1. PICK pos : Positions(s, s[n].index, pos)
  BY OfPositions
<1> QED BY <1>1 DEF Positions

-----------------------------------------------------------------------------
(* Concatenations.                                                         *)

\* A flattened sequence is joined part by part.
LEMMA FlattenTrace ==
  ASSUME NEW S, NEW parts \in Seq(Seq(S))
  PROVE  \E tr : /\ tr[0] = <<>> /\ tr[Len(parts)] = FlattenSeq(parts)
                 /\ \A i \in 0 .. Len(parts) : tr[i] \in Seq(S)
                 /\ \A i \in 1 .. Len(parts) : tr[i] = Concatenated(tr[i - 1], parts[i])
<1> DEFINE n == Len(parts)
           T == Seq(S)
<1>0. n \in Nat /\ \A i \in 1 .. n : parts[i] \in T
  OBVIOUS
<1>a. <<>> \in T /\ \A s \in T : Concatenated(<<>>, s) = s
  BY DEF Concatenated
<1>b. \A s, t \in T : Concatenated(s, t) \in T
  BY DEF Concatenated
<1>1. PICK tr : /\ tr[0] = <<>>
                /\ \A i \in 1 .. n : tr[i] = Concatenated(tr[i - 1], parts[i])
  <2> HIDE DEF T
  <2>1. parts \in Seq(T)
    BY DEF T
  <2>2. \E tr : /\ tr[0] = <<>> /\ tr[Len(parts)] = Joined!Fold(<<>>, parts)
                /\ \A i \in 1 .. Len(parts) : tr[i] = Concatenated(tr[i - 1], parts[i])
    BY <2>1, Joined!FoldTrace
  <2> QED BY <2>2
<1>d. FlattenSeq(<<>>) = <<>>
  BY DEF FlattenSeq
<1>e. n # 0 =>
        LET Rec(g) == g = [i \in 1 .. n |-> IF i = 1 THEN parts[i] ELSE g[i - 1] \o parts[i]]
        IN  FlattenSeq(parts) = (CHOOSE g : Rec(g))[n]
  BY DEF FlattenSeq
<1>g. n = 0 => parts = <<>>
  OBVIOUS
<1> HIDE DEF n, T
<1>2. \A j \in 0 .. n : tr[j] \in T
  <2> SUFFICES ASSUME NEW j \in 0 .. n PROVE tr[j] \in T
    OBVIOUS
  <2> DEFINE B == {i \in 0 .. n : tr[i] \in T}
  <2>1. 0 \in B
    BY <1>0, <1>1, <1>a
  <2>2. ASSUME NEW i \in 1 .. j, i - 1 \in B PROVE i \in B
    <3>1. i \in 1 .. n /\ i \in 0 .. n
      BY <1>0
    <3>2. tr[i] = Concatenated(tr[i - 1], parts[i]) /\ parts[i] \in T /\ tr[i - 1] \in T
      BY <1>0, <1>1, <2>2, <3>1
    <3>3. tr[i] \in T
      BY <1>b, <3>2
    <3> QED BY <3>1, <3>3
  <2>3. j \in B
    <3>1. j \in Nat
      BY <1>0
    <3> HIDE DEF B
    <3> QED BY <2>1, <2>2, <3>1, Ofs!Upwards
  <2> QED BY <2>3
<1>3. tr[n] = FlattenSeq(parts)
  <2>1. CASE n = 0
    BY <1>1, <1>d, <1>g, <2>1
  <2>2. CASE n > 0
    <3> DEFINE Rec(g) == g = [i \in 1 .. n |-> IF i = 1 THEN parts[i] ELSE g[i - 1] \o parts[i]]
               flat == CHOOSE g : Rec(g)
               f == [i \in 1 .. n |-> tr[i]]
    <3>1. FlattenSeq(parts) = flat[n]
      <4>1. n # 0
        BY <2>2, <1>0
      <4> QED BY <1>e, <4>1
    <3>0. tr[1] = parts[1] /\ 1 \in 1 .. n
      <4>1. 1 \in 1 .. n /\ 1 - 1 = 0
        BY <1>0, <2>2
      <4> QED BY <1>0, <1>1, <1>a, <4>1
    <3>2. Rec(f)
      <4>1. ASSUME NEW i \in 1 .. n
            PROVE  tr[i] = IF i = 1 THEN parts[i] ELSE f[i - 1] \o parts[i]
        <5>1. CASE i = 1
          BY <3>0, <5>1
        <5>2. CASE i # 1
          <6>1. i - 1 \in 1 .. n
            BY <1>0, <5>2
          <6>2. tr[i] = tr[i - 1] \o parts[i] /\ f[i - 1] = tr[i - 1]
            BY <1>1, <6>1 DEF Concatenated
          <6> QED BY <5>2, <6>2
        <5> QED BY <5>1, <5>2
      <4> QED BY <4>1
    <3>3. Rec(flat)
      <4> HIDE DEF Rec
      <4> QED BY <3>2
    <3>4. \A i \in 1 .. n : flat[i] = IF i = 1 THEN parts[i] ELSE Concatenated(flat[i - 1], parts[i])
      <4> HIDE DEF flat
      <4> QED BY <3>3 DEF Concatenated
    <3> HIDE DEF flat, Rec, f
    <3> DEFINE B == {i \in 0 .. n : i = 0 \/ flat[i] = tr[i]}
    <3>5. 0 \in B
      BY <1>0
    <3>6. ASSUME NEW i \in 1 .. n, i - 1 \in B PROVE i \in B
      <4>1. flat[i] = tr[i]
        <5>1. CASE i = 1
          BY <3>0, <3>4, <5>1
        <5>2. CASE i # 1
          <6>1. tr[i] = Concatenated(tr[i - 1], parts[i])
            BY <1>1
          <6>2. flat[i - 1] = tr[i - 1]
            BY <1>0, <3>6, <5>2
          <6> QED BY <3>4, <5>2, <6>1, <6>2
        <5> QED BY <5>1, <5>2
      <4> QED BY <1>0, <4>1
    <3>7. n \in B
      <4> HIDE DEF B
      <4> QED BY <1>0, <3>5, <3>6, Ofs!Upwards
    <3> QED BY <2>2, <3>1, <3>7
  <2> QED BY <1>0, <2>1, <2>2
<1> QED BY <1>1, <1>2, <1>3 DEF n, T

\* The events of an index carry it.
LEMMA OfIndex ==
  ASSUME NEW S, NEW x \in Nat, NEW s \in Seq(S)
  PROVE  \A k \in 1 .. Len(Of(s, x)) : Of(s, x)[k].index = x
<1>1. PICK pos : Positions(s, x, pos)
  BY OfPositions
<1> QED BY <1>1 DEF Positions

\* Events that lie in the order of their items.
Ascending(s) == \A m, n \in 1 .. Len(s) : m < n => s[m].index <= s[n].index

\* A concatenation whose parts are of one item each is in the order of the items.
LEMMA FlattenAscending ==
  ASSUME NEW S, NEW parts \in Seq(Seq(S)), NEW c \in Nat,
         \A i \in 1 .. Len(parts) : \A k \in 1 .. Len(parts[i]) : parts[i][k].index = c + i
  PROVE  /\ FlattenSeq(parts) \in Seq(S)
         /\ Ascending(FlattenSeq(parts))
         /\ \A k \in 1 .. Len(FlattenSeq(parts)) : FlattenSeq(parts)[k].index \in c + 1 .. c + Len(parts)
<1> DEFINE n == Len(parts)
           Upto(s, i) == Ascending(s) /\ \A k \in 1 .. Len(s) : s[k].index \in c + 1 .. c + i
<1>0. n \in Nat /\ \A i \in 1 .. n : parts[i] \in Seq(S)
  OBVIOUS
<1>1. PICK tr : /\ tr[0] = <<>> /\ tr[n] = FlattenSeq(parts)
                /\ \A i \in 0 .. n : tr[i] \in Seq(S)
                /\ \A i \in 1 .. n : tr[i] = Concatenated(tr[i - 1], parts[i])
  BY FlattenTrace
<1>a. \A i \in 1 .. n : \A k \in 1 .. Len(parts[i]) : parts[i][k].index = c + i
  OBVIOUS
<1> HIDE DEF n
<1>2. Upto(tr[n], n)
  <2> DEFINE B == {i \in 0 .. n : Upto(tr[i], i)}
  <2>1. 0 \in B
    BY <1>0, <1>1 DEF Ascending
  <2>2. ASSUME NEW i \in 1 .. n, i - 1 \in B PROVE i \in B
    <3>0. i - 1 \in 0 .. n /\ i \in 0 .. n
      BY <1>0
    <3>1. tr[i] = tr[i - 1] \o parts[i] /\ tr[i - 1] \in Seq(S) /\ parts[i] \in Seq(S)
      BY <1>0, <1>1, <3>0, Zenon DEF Concatenated
    <3>2. Upto(tr[i - 1], i - 1)
      BY <2>2
    <3>3. \A k \in 1 .. Len(parts[i]) : parts[i][k].index = c + i
      BY <1>a
    <3> DEFINE s == tr[i - 1]
               t == parts[i]
               u == s \o t
    <3>4. s \in Seq(S) /\ t \in Seq(S)
      BY <3>1
    <3> HIDE DEF s, t
    <3>5. /\ Len(u) = Len(s) + Len(t) /\ Len(s) \in Nat /\ Len(t) \in Nat
          /\ \A k \in 1 .. Len(s) : u[k] = s[k]
          /\ \A k \in 1 .. Len(u) : k \notin 1 .. Len(s) => u[k] = t[k - Len(s)] /\ k - Len(s) \in 1 .. Len(t)
      BY <3>4
    <3> HIDE DEF u
    <3>6. \A k \in 1 .. Len(s) : u[k].index \in c + 1 .. c + (i - 1)
      BY <3>2, <3>5 DEF s
    <3>7. \A k \in 1 .. Len(u) : k \notin 1 .. Len(s) => u[k].index = c + i
      BY <3>3, <3>5 DEF t
    <3>8. \A k \in 1 .. Len(u) : u[k].index \in c + 1 .. c + i
      BY <1>0, <3>5, <3>6, <3>7
    <3>9. ASSUME NEW k \in 1 .. Len(u), NEW l \in 1 .. Len(u), k < l
          PROVE  u[k].index <= u[l].index
      <4>1. CASE l \in 1 .. Len(s)
        <5>1. k \in 1 .. Len(s)
          BY <3>5, <3>9, <4>1
        <5> QED BY <3>2, <3>5, <3>9, <4>1, <5>1 DEF Ascending, s
      <4>2. CASE l \notin 1 .. Len(s)
        <5>1. u[l].index = c + i /\ u[k].index \in c + 1 .. c + i
          BY <3>7, <3>8, <4>2
        <5> QED BY <1>0, <5>1
      <4> QED BY <4>1, <4>2
    <3>10. Upto(u, i)
      BY <3>8, <3>9 DEF Ascending
    <3>11. tr[i] = u
      BY <3>1 DEF u, s, t
    <3> HIDE DEF Upto
    <3> QED BY <3>0, <3>10, <3>11
  <2>3. n \in B
    <3> HIDE DEF B
    <3> QED BY <1>0, <2>1, <2>2, Ofs!Upwards
  <2> QED BY <2>3
<1>3. FlattenSeq(parts) \in Seq(S)
  BY <1>0, <1>1
<1> QED BY <1>1, <1>2, <1>3 DEF n

\* The parts of a concatenation whose parts are of one item each.
LEMMA OfFlatten ==
  ASSUME NEW S, NEW parts \in Seq(Seq(S)), NEW c \in Nat,
         \A i \in 1 .. Len(parts) : \A k \in 1 .. Len(parts[i]) : parts[i][k].index = c + i
  PROVE  /\ FlattenSeq(parts) \in Seq(S)
         /\ \A y \in Nat : Of(FlattenSeq(parts), y) =
                IF y - c \in 1 .. Len(parts) THEN parts[y - c] ELSE <<>>
<1> DEFINE n == Len(parts)
<1>0. n \in Nat /\ \A i \in 1 .. n : parts[i] \in Seq(S)
  OBVIOUS
<1>1. PICK tr : /\ tr[0] = <<>> /\ tr[n] = FlattenSeq(parts)
                /\ \A i \in 0 .. n : tr[i] \in Seq(S)
                /\ \A i \in 1 .. n : tr[i] = Concatenated(tr[i - 1], parts[i])
  BY FlattenTrace
<1>a. \A i \in 1 .. n : \A k \in 1 .. Len(parts[i]) : parts[i][k].index = c + i
  OBVIOUS
<1> HIDE DEF n
<1>2. ASSUME NEW y \in Nat
      PROVE  Of(tr[n], y) = IF y - c \in 1 .. n THEN parts[y - c] ELSE <<>>
  <2> DEFINE B == {i \in 0 .. n : Of(tr[i], y) = IF y - c \in 1 .. i THEN parts[y - c] ELSE <<>>}
  <2>1. 0 \in B
    BY <1>0, <1>1, OfEmpty
  <2>2. ASSUME NEW i \in 1 .. n, i - 1 \in B PROVE i \in B
    <3>0. i - 1 \in 0 .. n
      BY <1>0
    <3>1. tr[i] = tr[i - 1] \o parts[i] /\ tr[i - 1] \in Seq(S) /\ parts[i] \in Seq(S)
      BY <1>0, <1>1, <3>0, Zenon DEF Concatenated
    <3>2. Of(tr[i - 1] \o parts[i], y) = Of(tr[i - 1], y) \o Of(parts[i], y)
      BY <3>1, OfConcat
    <3>3. CASE y = c + i
      <4>1. Of(parts[i], y) = parts[i]
        BY <1>a, <3>1, <3>3, OfAll
      <4>2. Of(tr[i - 1], y) = <<>>
        BY <1>0, <2>2, <3>3
      <4>3. Of(tr[i], y) = parts[i]
        BY <3>1, <3>2, <4>1, <4>2
      <4>4. y - c = i
        BY <1>0, <3>3
      <4> QED BY <1>0, <4>3, <4>4
    <3>4. CASE y # c + i
      <4>1. Of(parts[i], y) = <<>>
        BY <1>a, <3>1, <3>4, OfNone
      <4>2. Of(tr[i - 1], y) \in Seq(S)
        BY <3>1, OfType
      <4>3. Of(tr[i], y) = Of(tr[i - 1], y)
        BY <3>1, <3>2, <4>1, <4>2
      <4>4. y - c \in 1 .. i <=> y - c \in 1 .. (i - 1)
        BY <1>0, <3>4
      <4>5. Of(tr[i - 1], y) = IF y - c \in 1 .. (i - 1) THEN parts[y - c] ELSE <<>>
        BY <2>2
      <4> QED BY <1>0, <4>3, <4>4, <4>5
    <3> QED BY <3>3, <3>4
  <2>3. n \in B
    <3> HIDE DEF B
    <3> QED BY <1>0, <2>1, <2>2, Ofs!Upwards
  <2> QED BY <2>3
<1>3. FlattenSeq(parts) \in Seq(S)
  BY <1>0, <1>1
<1> QED BY <1>1, <1>2, <1>3 DEF n

-----------------------------------------------------------------------------
(* The operators of StreamDelivery.                                        *)

\* Sorting events by their index keeps what each item has.
LEMMA ByIndexFacts ==
  ASSUME script \in Seq(ItemKinds), NEW S, NEW fs \in Seq(S), NEW is
  PROVE  /\ ByIndex(fs, is) \in Seq(S) /\ Ascending(ByIndex(fs, is))
         /\ \A j \in Nat : Of(ByIndex(fs, is), j) =
                IF j \in 1 .. Len(script) /\ j \in is THEN Of(fs, j) ELSE <<>>
         /\ \A k \in 1 .. Len(ByIndex(fs, is)) : ByIndex(fs, is)[k].index \in 1 .. Len(script)
<1> DEFINE n == Len(script)
           parts == [i \in 1 .. n |-> IF i \in is THEN Of(fs, i) ELSE <<>>]
<1>1. n \in Nat
  OBVIOUS
<1>2. \A i \in 1 .. n : (IF i \in is THEN Of(fs, i) ELSE <<>>) \in Seq(S)
  BY OfType
<1>3. parts \in Seq(Seq(S)) /\ Len(parts) = n
  BY <1>1, <1>2
<1>4. \A i \in 1 .. n : \A k \in 1 .. Len(parts[i]) : parts[i][k].index = 0 + i
  <2> SUFFICES ASSUME NEW i \in 1 .. n, NEW k \in 1 .. Len(parts[i]) PROVE parts[i][k].index = i
    OBVIOUS
  <2>1. CASE i \in is
    BY <2>1, OfIndex
  <2>2. CASE i \notin is
    BY <2>2
  <2> QED BY <2>1, <2>2
<1>5. ByIndex(fs, is) = FlattenSeq(parts)
  BY DEF ByIndex
<1>6. \A j \in 1 .. n : parts[j] = IF j \in is THEN Of(fs, j) ELSE <<>>
  OBVIOUS
<1> HIDE DEF parts
<1>7. /\ FlattenSeq(parts) \in Seq(S) /\ Ascending(FlattenSeq(parts))
      /\ \A k \in 1 .. Len(FlattenSeq(parts)) : FlattenSeq(parts)[k].index \in 0 + 1 .. 0 + n
  BY <1>3, <1>4, FlattenAscending
<1>8. \A y \in Nat : Of(FlattenSeq(parts), y) = IF y - 0 \in 1 .. n THEN parts[y - 0] ELSE <<>>
  BY <1>3, <1>4, OfFlatten
<1>9. ASSUME NEW j \in Nat
      PROVE  Of(ByIndex(fs, is), j) = IF j \in 1 .. n /\ j \in is THEN Of(fs, j) ELSE <<>>
  BY <1>1, <1>5, <1>6, <1>8
<1>10. \A k \in 1 .. Len(ByIndex(fs, is)) : ByIndex(fs, is)[k].index \in 1 .. n
  BY <1>1, <1>5, <1>7
<1> QED BY <1>5, <1>7, <1>9, <1>10

Moved(e, c) == [e EXCEPT !.index = @ + c]

\* Moving an event changes its index alone.
LEMMA MovedFacts ==
  ASSUME NEW c \in Nat, NEW e \in ItemEvs
  PROVE  /\ Moved(e, c) \in ItemEvs /\ Moved(e, c).index = c + e.index /\ Moved(e, c).type = e.type
         /\ Moved(e, c).item = e.item /\ e.index \in Nat \ {0}
<1> DEFINE R == OutItems \cup (Nat \X Nat)
<1>1. ItemEvs = [type : {"added", "done"}, index : Nat \ {0}, item : R]
  BY DEF ItemEvs
<1> HIDE DEF R
<1>2. /\ e = [type |-> e.type, index |-> e.index, item |-> e.item]
      /\ e.type \in {"added", "done"} /\ e.index \in Nat \ {0} /\ e.item \in R
  BY <1>1
<1>3. Moved(e, c) = [type |-> e.type, index |-> e.index + c, item |-> e.item]
  BY <1>2 DEF Moved
<1>4. e.index + c \in Nat \ {0}
  BY <1>2
<1> QED BY <1>1, <1>2, <1>3, <1>4

\* The events of the response have the index of the item in the whole output.
LEMMA RebasedFacts ==
  ASSUME NEW c \in Nat, c = Len(combined), NEW fs \in Seq(ItemEvs)
  PROVE  /\ Rebased(fs) \in Seq(ItemEvs) /\ Len(Rebased(fs)) = Len(fs)
         /\ \A n \in 1 .. Len(fs) : /\ Rebased(fs)[n] = Moved(fs[n], c)
                                  /\ Rebased(fs)[n].index = c + fs[n].index
                                  /\ Rebased(fs)[n].type = fs[n].type
<1>1. DOMAIN fs = 1 .. Len(fs) /\ Len(fs) \in Nat /\ \A n \in 1 .. Len(fs) : fs[n] \in ItemEvs
  OBVIOUS
<1>2. \A e \in ItemEvs : /\ Moved(e, c) \in ItemEvs /\ Moved(e, c).index = c + e.index
                          /\ Moved(e, c).type = e.type
  BY MovedFacts
<1>3. Rebased(fs) = [n \in 1 .. Len(fs) |-> Moved(fs[n], c)]
  BY <1>1 DEF Rebased, Moved
<1> HIDE DEF ItemEvs
<1> QED BY <1>1, <1>2, <1>3

\* Rebasing goes element by element.
LEMMA AppendRebased ==
  ASSUME Len(combined) \in Nat, NEW p \in Seq(ItemEvs), NEW e \in ItemEvs
  PROVE  Rebased(Append(p, e)) = Append(Rebased(p), Moved(e, Len(combined)))
<1> DEFINE f == Moved(e, Len(combined))
           t == Append(p, e)
           r == Rebased(p)
<1>1. t \in Seq(ItemEvs) /\ Len(t) = Len(p) + 1 /\ Len(p) \in Nat /\ t[Len(p) + 1] = e
      /\ \A n \in 1 .. Len(p) : t[n] = p[n]
  OBVIOUS
<1>2. f \in ItemEvs
  BY MovedFacts
<1> HIDE DEF t, r
<1>3. /\ r \in Seq(ItemEvs) /\ Len(r) = Len(p)
      /\ \A n \in 1 .. Len(p) : r[n] = Moved(p[n], Len(combined))
  BY RebasedFacts DEF r
<1>4. /\ Rebased(t) \in Seq(ItemEvs) /\ Len(Rebased(t)) = Len(t)
      /\ \A n \in 1 .. Len(t) : Rebased(t)[n] = Moved(t[n], Len(combined))
  BY <1>1, RebasedFacts
<1> DEFINE u == Append(r, f)
<1>5. u \in Seq(ItemEvs) /\ Len(u) = Len(p) + 1 /\ u[Len(p) + 1] = f /\ \A n \in 1 .. Len(p) : u[n] = r[n]
  BY <1>2, <1>3
<1> HIDE DEF u
<1>6. \A n \in 1 .. Len(t) : Rebased(t)[n] = u[n]
  <2> SUFFICES ASSUME NEW n \in 1 .. Len(t) PROVE Rebased(t)[n] = u[n]
    OBVIOUS
  <2>1. CASE n = Len(p) + 1
    BY <1>1, <1>4, <1>5, <2>1 DEF f
  <2>2. CASE n \in 1 .. Len(p)
    BY <1>1, <1>3, <1>4, <1>5, <2>2
  <2> QED BY <1>1, <2>1, <2>2
<1>7. Rebased(t) = u
  BY <1>1, <1>4, <1>5, <1>6, SeqEqual
<1> QED BY <1>7 DEF t, u, r

\* The events of an item move together.
LEMMA OfRebased ==
  ASSUME Len(combined) \in Nat, NEW fs \in Seq(ItemEvs), NEW x \in Nat
  PROVE  Of(Rebased(fs), Len(combined) + x) = Rebased(Of(fs, x))
<1> DEFINE c == Len(combined)
           B == {n \in 0 .. Len(fs) : Of(Rebased(Front1(fs, n)), c + x) = Rebased(Of(Front1(fs, n), x))}
<1>1. 0 \in B
  <2>1. Rebased(<<>>) = <<>>
    BY DEF Rebased
  <2> QED BY <2>1, OfEmpty, PrefixEnds
<1>2. ASSUME NEW n \in 1 .. Len(fs), n - 1 \in B PROVE n \in B
  <2> DEFINE p == Front1(fs, n - 1)
             e == fs[n]
             f == Moved(e, c)
  <2>1. p \in Seq(ItemEvs) /\ e \in ItemEvs /\ Front1(fs, n) = Append(p, e)
    BY PrefixStep
  <2>2. Of(Rebased(p), c + x) = Rebased(Of(p, x))
    BY <1>2
  <2>3. f \in ItemEvs /\ f.index = c + e.index /\ e.index \in Nat
    BY <2>1, MovedFacts
  <2> HIDE DEF p, e, f
  <2>4. Rebased(Append(p, e)) = Append(Rebased(p), f)
    BY <2>1, AppendRebased DEF f
  <2>5. Of(Append(Rebased(p), f), c + x) = IF f.index = c + x THEN Append(Of(Rebased(p), c + x), f) ELSE Of(Rebased(p), c + x)
    <3>1. Rebased(p) \in Seq(ItemEvs) /\ c + x \in Nat
      BY <2>1, RebasedFacts
    <3> QED BY <2>3, <3>1, OfAppend
  <2>6. Of(Append(p, e), x) = IF e.index = x THEN Append(Of(p, x), e) ELSE Of(p, x)
    BY <2>1, OfAppend
  <2>7. Rebased(Append(Of(p, x), e)) = Append(Rebased(Of(p, x)), f)
    BY <2>1, OfType, AppendRebased DEF f
  <2>8. Of(Rebased(Append(p, e)), c + x) = Rebased(Of(Append(p, e), x))
    <3>1. f.index = c + x <=> e.index = x
      BY <2>3
    <3> QED BY <2>2, <2>4, <2>5, <2>6, <2>7, <3>1
  <2>9. Of(Rebased(Front1(fs, n)), c + x) = Rebased(Of(Front1(fs, n), x))
    BY <2>1, <2>8
  <2> QED BY <2>9
<1>3. Len(fs) \in B
  <2> HIDE DEF B
  <2> QED BY <1>1, <1>2, PrefixEnds, Ofs!Upwards
<1> QED BY <1>3, PrefixEnds

-----------------------------------------------------------------------------
(* What the worker sends.                                                  *)

\* The added and the done event of an item are events of items.
LEMMA FrameType ==
  ASSUME NEW t \in {"added", "done"}, NEW x \in Nat \ {0}, NEW r \in Nat, NEW i \in Nat
  PROVE  Event(t, x, <<r, i>>) \in ItemEvs
<1>1. <<r, i>> \in Nat \X Nat
  OBVIOUS
<1> DEFINE R == OutItems \cup (Nat \X Nat)
<1>2. <<r, i>> \in R
  BY <1>1
<1> HIDE DEF R
<1>3. [type |-> t, index |-> x, item |-> <<r, i>>] \in [type : {"added", "done"}, index : Nat \ {0}, item : R]
  BY <1>2
<1> QED BY <1>3 DEF ItemEvs, Event, R

\* The two events of an item that is done.
LEMMA BothFacts ==
  ASSUME NEW x, NEW r
  PROVE  /\ Len(Both(x, r)) = 2
         /\ \A k \in 1 .. 2 : Both(x, r)[k].index = x /\ Both(x, r)[k].item = r
         /\ Both(x, r)[1].type = "added" /\ Both(x, r)[2].type = "done"
  BY DEF Both, Event

\* The fields of an added event.
LEMMA AddedFacts == \A x, r : Added(x, r).index = x /\ Added(x, r).item = r /\ Added(x, r).type = "added"
  BY DEF Added, Event

\* Events of items are events.
LEMMA ItemEvsEvs == \A s : s \in Seq(ItemEvs) => s \in Seq(Evs)
  BY DEF Evs

\* The lists and the compaction are shown as soon as they are there.
LEMMA AddedAndDoneFacts ==
  ASSUME NEW is \in Seq(OutItems)
  PROVE  /\ AddedAndDone(is) \in Seq(ItemEvs) /\ Ascending(AddedAndDone(is))
         /\ \A j \in Nat : Of(AddedAndDone(is), j) = IF j \in 1 .. Len(is) THEN Both(j, is[j]) ELSE <<>>
<1> DEFINE n == Len(is)
           parts == [i \in 1 .. n |-> Both(i, is[i])]
<1>1. n \in Nat /\ \A i \in 1 .. n : is[i] \in OutItems
  OBVIOUS
<1>2. \A i \in 1 .. n : Both(i, is[i]) \in Seq(ItemEvs)
  <2> SUFFICES ASSUME NEW i \in 1 .. n PROVE Both(i, is[i]) \in Seq(ItemEvs)
    OBVIOUS
  <2> DEFINE R == OutItems \cup (Nat \X Nat)
  <2>1. is[i] \in R /\ i \in Nat \ {0}
    BY <1>1
  <2> HIDE DEF R
  <2>2. \A t \in {"added", "done"} : Event(t, i, is[i]) \in [type : {"added", "done"}, index : Nat \ {0}, item : R]
    BY <2>1 DEF Event
  <2>3. Event("added", i, is[i]) \in ItemEvs /\ Event("done", i, is[i]) \in ItemEvs
    BY <2>2 DEF ItemEvs, R
  <2> QED BY <2>3 DEF Both
<1>3. parts \in Seq(Seq(ItemEvs)) /\ Len(parts) = n
  BY <1>1, <1>2
<1>4. \A i \in 1 .. n : parts[i] = Both(i, is[i])
  OBVIOUS
<1>5. AddedAndDone(is) = FlattenSeq(parts)
  <2>1. DOMAIN is = 1 .. n
    OBVIOUS
  <2> QED BY <2>1 DEF AddedAndDone, Both
<1> HIDE DEF parts
<1>6. \A i \in 1 .. n : \A k \in 1 .. Len(parts[i]) : parts[i][k].index = 0 + i
  BY <1>1, <1>4, BothFacts
<1>7. FlattenSeq(parts) \in Seq(ItemEvs) /\ Ascending(FlattenSeq(parts))
  BY <1>3, <1>6, FlattenAscending
<1>8. \A y \in Nat : Of(FlattenSeq(parts), y) = IF y - 0 \in 1 .. n THEN parts[y - 0] ELSE <<>>
  BY <1>3, <1>6, OfFlatten
<1>9. \A j \in Nat : Of(AddedAndDone(is), j) = IF j \in 1 .. n THEN Both(j, is[j]) ELSE <<>>
  BY <1>1, <1>4, <1>5, <1>8
<1> QED BY <1>5, <1>7, <1>9

\* The events that open a response are of no item.
LEMMA LifecycleFacts ==
  /\ LifecycleEvents \in Seq(Evs) /\ Len(LifecycleEvents) = 2
  /\ \A n \in 1 .. 2 : LifecycleEvents[n].index = 0 /\ LifecycleEvents[n].type # "added"
  /\ \A x \in Nat \ {0} : Of(LifecycleEvents, x) = <<>>
<1>1. \A t \in {"created", "in_progress"} : Event(t, 0, <<>>) \in Evs
  BY DEF Event, Evs
<1>2. LifecycleEvents \in Seq(Evs) /\ Len(LifecycleEvents) = 2
  BY <1>1 DEF LifecycleEvents
<1>3. \A n \in 1 .. 2 : LifecycleEvents[n].index = 0 /\ LifecycleEvents[n].type # "added"
  BY DEF LifecycleEvents, Event
<1>4. ASSUME NEW x \in Nat \ {0} PROVE Of(LifecycleEvents, x) = <<>>
  BY <1>2, <1>3, OfNone
<1> QED BY <1>2, <1>3, <1>4

\* Events of the items of a round, put one item after the other.
LEMMA RoundFacts ==
  ASSUME items \in Seq(Slots), Len(combined) \in Nat, NEW parts, parts = [i \in 1 .. Len(items) |-> parts[i]],
         \A i \in 1 .. Len(items) :
             /\ parts[i] \in Seq(ItemEvs)
             /\ \A k \in 1 .. Len(parts[i]) : parts[i][k].index = Len(combined) + i
  PROVE  /\ FlattenSeq(parts) \in Seq(ItemEvs) /\ Ascending(FlattenSeq(parts))
         /\ \A i \in Nat \ {0} : Of(FlattenSeq(parts), Len(combined) + i) =
                IF i \in 1 .. Len(items) THEN parts[i] ELSE <<>>
         /\ \A k \in 1 .. Len(FlattenSeq(parts)) : FlattenSeq(parts)[k].index > Len(combined)
<1> DEFINE n == Len(items)
           c == Len(combined)
<1>1. n \in Nat /\ c \in Nat
  OBVIOUS
<1>2. parts \in Seq(Seq(ItemEvs)) /\ Len(parts) = n
  BY <1>1
<1>3. \A i \in 1 .. Len(parts) : \A k \in 1 .. Len(parts[i]) : parts[i][k].index = c + i
  BY <1>2
<1>4. /\ FlattenSeq(parts) \in Seq(ItemEvs) /\ Ascending(FlattenSeq(parts))
      /\ \A k \in 1 .. Len(FlattenSeq(parts)) : FlattenSeq(parts)[k].index \in c + 1 .. c + n
  BY <1>1, <1>2, <1>3, FlattenAscending
<1>5. \A y \in Nat : Of(FlattenSeq(parts), y) = IF y - c \in 1 .. n THEN parts[y - c] ELSE <<>>
  BY <1>1, <1>2, <1>3, OfFlatten
<1>6. ASSUME NEW i \in Nat \ {0}
      PROVE  Of(FlattenSeq(parts), c + i) = IF i \in 1 .. n THEN parts[i] ELSE <<>>
  <2>1. c + i \in Nat /\ (c + i) - c = i
    BY <1>1
  <2> QED BY <1>5, <2>1
<1>7. \A k \in 1 .. Len(FlattenSeq(parts)) : FlattenSeq(parts)[k].index > c
  BY <1>1, <1>4
<1> QED BY <1>4, <1>6, <1>7

\* A planned event carries the index its call has in the output.
LEMMA PlanFacts ==
  ASSUME items \in Seq(Slots), Len(combined) \in Nat, round \in Nat,
         NEW t \in {"added", "done"}, NEW i \in 1 .. Len(items)
  PROVE  /\ Plan(t, i) \in Seq(ItemEvs)
         /\ \A k \in 1 .. Len(Plan(t, i)) : Plan(t, i)[k].index = Len(combined) + i
<1> DEFINE e == Event(t, Len(combined) + i, <<round, i>>)
<1>1. e \in ItemEvs /\ e.index = Len(combined) + i
  <2>1. Len(combined) + i \in Nat \ {0} /\ i \in Nat
    OBVIOUS
  <2>2. e \in ItemEvs
    BY <2>1, FrameType
  <2>3. e.index = Len(combined) + i
    BY DEF Event
  <2> QED BY <2>2, <2>3
<1>2. Plan(t, i) = IF KindOf(i) = "gateway" THEN <<e>> ELSE <<>>
  BY DEF Plan
<1> HIDE DEF e
<1> QED BY <1>1, <1>2

\* The calls that are shown as started before they run.
InitialPart(i) == IF i \in InitialRun THEN Plan("added", i) ELSE <<>>

\* The starts before execution: for each call its own, in the order of the output.
LEMMA InitialFacts ==
  ASSUME items \in Seq(Slots), Len(combined) \in Nat, round \in Nat
  PROVE  LET out == Plans("added", InitialRun)
         IN  /\ out \in Seq(ItemEvs) /\ Ascending(out)
             /\ \A i \in Nat \ {0} : Of(out, Len(combined) + i) =
                    IF i \in 1 .. Len(items) THEN InitialPart(i) ELSE <<>>
             /\ \A k \in 1 .. Len(out) : out[k].index > Len(combined)
<1> DEFINE parts == [i \in 1 .. Len(items) |-> InitialPart(i)]
<1>1. \A i \in 1 .. Len(items) : parts[i] = InitialPart(i)
  OBVIOUS
<1>2. DOMAIN items = 1 .. Len(items)
  OBVIOUS
<1>3. Plans("added", InitialRun) = FlattenSeq(parts)
  BY <1>2 DEF Plans, InitialPart
<1>4. parts = [i \in 1 .. Len(items) |-> parts[i]]
  OBVIOUS
<1> HIDE DEF parts
<1>5. ASSUME NEW i \in 1 .. Len(items)
      PROVE  /\ parts[i] \in Seq(ItemEvs)
             /\ \A k \in 1 .. Len(parts[i]) : parts[i][k].index = Len(combined) + i
  <2>1. CASE i \in InitialRun
    BY <1>1, <2>1, PlanFacts DEF InitialPart
  <2>2. CASE i \notin InitialRun
    <3>1. parts[i] = <<>>
      BY <1>1, <2>2 DEF InitialPart
    <3> QED BY <3>1
  <2> QED BY <2>1, <2>2
<1>6. /\ FlattenSeq(parts) \in Seq(ItemEvs) /\ Ascending(FlattenSeq(parts))
      /\ \A i \in Nat \ {0} : Of(FlattenSeq(parts), Len(combined) + i) =
             IF i \in 1 .. Len(items) THEN parts[i] ELSE <<>>
      /\ \A k \in 1 .. Len(FlattenSeq(parts)) : FlattenSeq(parts)[k].index > Len(combined)
  BY <1>4, <1>5, RoundFacts
<1> QED BY <1>1, <1>3, <1>6

\* Two sequences of events of one index are one.
LEMMA JoinAll ==
  ASSUME NEW S, NEW x, NEW s, NEW t,
         s \in Seq(S), t \in Seq(S),
         \A k \in 1 .. Len(s) : s[k].index = x,
         \A k \in 1 .. Len(t) : t[k].index = x
  PROVE  s \o t \in Seq(S) /\ \A k \in 1 .. Len(s \o t) : (s \o t)[k].index = x
  OBVIOUS

\* What an item shows when the batch has returned.
ExecutePart(i) == ((IF i \in GatewayCalls \ InitialRun THEN Plan("added", i) ELSE <<>>)
                   \o Plan("done", i)) \o Rebased(Of(deferred, i))
ExecuteOutbox == FlattenSeq([i \in DOMAIN items |->
            (IF i \in GatewayCalls \ InitialRun THEN Plan("added", i) ELSE <<>>)
            \o Plan("done", i) \o Rebased(Of(deferred, i))])

\* What the end of a round sends: for each item its part, in the order of the output.
LEMMA ExecuteFacts ==
  ASSUME items \in Seq(Slots), Len(combined) \in Nat, round \in Nat, deferred \in Seq(ItemEvs)
  PROVE  /\ ExecuteOutbox \in Seq(ItemEvs) /\ Ascending(ExecuteOutbox)
         /\ \A i \in Nat \ {0} : Of(ExecuteOutbox, Len(combined) + i) =
                IF i \in 1 .. Len(items) THEN ExecutePart(i) ELSE <<>>
         /\ \A k \in 1 .. Len(ExecuteOutbox) : ExecuteOutbox[k].index > Len(combined)
<1> DEFINE parts == [i \in 1 .. Len(items) |-> ExecutePart(i)]
<1>1. \A i \in 1 .. Len(items) : parts[i] = ExecutePart(i)
  OBVIOUS
<1>2. DOMAIN items = 1 .. Len(items)
  OBVIOUS
<1>3. ExecuteOutbox = FlattenSeq(parts)
  BY <1>2 DEF ExecuteOutbox, ExecutePart
<1>4. parts = [i \in 1 .. Len(items) |-> parts[i]]
  OBVIOUS
<1> HIDE DEF parts
<1>5. ASSUME NEW i \in 1 .. Len(items)
      PROVE  /\ parts[i] \in Seq(ItemEvs)
             /\ \A k \in 1 .. Len(parts[i]) : parts[i][k].index = Len(combined) + i
  <2> DEFINE A == IF i \in GatewayCalls \ InitialRun THEN Plan("added", i) ELSE <<>>
             D == Plan("done", i)
             R == Rebased(Of(deferred, i))
             All(s) == s \in Seq(ItemEvs) /\ \A k \in 1 .. Len(s) : s[k].index = Len(combined) + i
  <2>1. All(A) /\ All(D)
    <3>1. All(Plan("added", i)) /\ All(Plan("done", i)) /\ All(<<>>)
      BY PlanFacts
    <3> QED BY <3>1
  <2>2. All(R)
    <3>1. Of(deferred, i) \in Seq(ItemEvs) /\ \A k \in 1 .. Len(Of(deferred, i)) : Of(deferred, i)[k].index = i
      BY OfType, OfIndex
    <3> DEFINE o == Of(deferred, i)
    <3>2. o \in Seq(ItemEvs) /\ \A k \in 1 .. Len(o) : o[k].index = i
      BY <3>1
    <3> HIDE DEF o
    <3>3. /\ Rebased(o) \in Seq(ItemEvs) /\ Len(Rebased(o)) = Len(o)
          /\ \A k \in 1 .. Len(o) : Rebased(o)[k].index = Len(combined) + o[k].index
      BY <3>2, RebasedFacts
    <3>4. All(Rebased(o))
      BY <3>2, <3>3
    <3> QED BY <3>4 DEF o
  <2>3. \A s, t : All(s) /\ All(t) => All(s \o t)
    BY JoinAll
  <2>4. parts[i] = (A \o D) \o R
    BY <1>1 DEF ExecutePart
  <2> HIDE DEF A, D, R, All
  <2>5. All(parts[i])
    BY <2>1, <2>2, <2>3, <2>4
  <2> QED BY <2>5 DEF All
<1>6. /\ FlattenSeq(parts) \in Seq(ItemEvs) /\ Ascending(FlattenSeq(parts))
      /\ \A i \in Nat \ {0} : Of(FlattenSeq(parts), Len(combined) + i) =
             IF i \in 1 .. Len(items) THEN parts[i] ELSE <<>>
      /\ \A k \in 1 .. Len(FlattenSeq(parts)) : FlattenSeq(parts)[k].index > Len(combined)
  BY <1>4, <1>5, RoundFacts
<1> QED BY <1>1, <1>3, <1>6

-----------------------------------------------------------------------------
(* Types.                                                                  *)

\* What lies below the boundary is named and visible; at it, if an item stands there, is not.
LEMMA BoundaryFacts ==
  ASSUME NEW its \in Seq(Slots), script \in Seq(ItemKinds)
  PROVE  /\ Boundary(its) \in Nat \ {0} /\ Boundary(its) <= Len(script) + 1
         /\ \A i \in 1 .. Len(its) :
               i < Boundary(its) => its[i].state # "unnamed" /\ ~IsHidden(its[i])
         /\ Boundary(its) = Len(script) + 1 \/
               /\ Boundary(its) \in 1 .. Len(its)
               /\ its[Boundary(its)].state = "unnamed" \/ IsHidden(its[Boundary(its)])
<1> DEFINE H == {i \in 1 .. Len(its) : its[i].state = "unnamed" \/ IsHidden(its[i])}
           T == H \cup {Len(script) + 1}
<1>1. Len(script) \in Nat /\ Len(its) \in Nat /\ DOMAIN its = 1 .. Len(its)
  OBVIOUS
<1>2. T \in SUBSET Nat /\ T # {} /\ \A i \in T : i # 0
  BY <1>1
<1>3. Boundary(its) = Min(T)
  BY <1>1 DEF Boundary
<1>4. \E m \in T : \A i \in T : m <= i
  <2> HIDE DEF T
  <2> QED BY <1>2, Ofs!Least
<1>5. Min(T) \in T /\ \A i \in T : Min(T) <= i
  <2> HIDE DEF T
  <2> QED BY <1>4 DEF Min
<1> DEFINE b == Min(T)
<1> HIDE DEF b
<1>6. b \in T /\ \A i \in T : b <= i
  BY <1>5 DEF b
<1>7. b \in Nat \ {0} /\ b <= Len(script) + 1
  BY <1>1, <1>2, <1>6
<1>8. ASSUME NEW i \in 1 .. Len(its), i < b PROVE its[i].state # "unnamed" /\ ~IsHidden(its[i])
  <2>1. i \notin T
    BY <1>1, <1>6, <1>7, <1>8
  <2> QED BY <2>1
<1>9. b = Len(script) + 1 \/ (b \in 1 .. Len(its) /\ (its[b].state = "unnamed" \/ IsHidden(its[b])))
  <2>1. b = Len(script) + 1 \/ b \in H
    BY <1>6
  <2>2. b \in H => b \in 1 .. Len(its) /\ (its[b].state = "unnamed" \/ IsHidden(its[b]))
    OBVIOUS
  <2> HIDE DEF H
  <2> QED BY <2>1, <2>2 DEF IsHidden
<1> QED BY <1>3, <1>7, <1>8, <1>9 DEF b

\* The events that are sent and those that are held back, when an item advances.
LEMMA AcceptType ==
  ASSUME Typed, NEW its \in Seq(Slots), Len(its) <= Len(script), NEW frames \in Seq(ItemEvs),
         Accept(its, frames)
  PROVE  items' = its /\ outbox' \in Seq(ItemEvs) /\ deferred' \in Seq(ItemEvs)
<1>1. script \in Seq(ItemKinds) /\ deferred \in Seq(ItemEvs) /\ Len(combined) \in Nat
  BY DEF Typed, WorkTyped
<1>2. \A fs, is : fs \in Seq(ItemEvs) => ByIndex(fs, is) \in Seq(ItemEvs)
  BY <1>1, ByIndexFacts
<1>3. \A s, t : s \in Seq(ItemEvs) /\ t \in Seq(ItemEvs) => s \o t \in Seq(ItemEvs)
  OBVIOUS
<1>4. \A s : s \in Seq(ItemEvs) => Rebased(s) \in Seq(ItemEvs)
  BY <1>1, RebasedFacts
<1>5. <<>> \in Seq(ItemEvs)
  OBVIOUS
<1> DEFINE below == 1 .. Boundary(its) - 1
           from == Boundary(its) .. Len(script)
           held == deferred \o ByIndex(frames, from)
           moved == Boundary(its) # Boundary(items)
           out == ByIndex(frames, below) \o (IF moved THEN ByIndex(held, below) ELSE <<>>)
<1>6. items' = its /\ outbox' = Rebased(out) /\ deferred' = IF moved THEN ByIndex(held, from) ELSE held
  BY DEF Accept
<1>7. held \in Seq(ItemEvs)
  BY <1>1, <1>2, <1>3
<1> HIDE DEF below, from, held, moved
<1>8. out \in Seq(ItemEvs)
  BY <1>2, <1>3, <1>5, <1>7
<1> HIDE DEF out
<1> QED BY <1>2, <1>4, <1>6, <1>7, <1>8

\* A round adds one item to the output for each of its own.
LEMMA OutputType ==
  ASSUME items \in Seq(Slots), round \in Nat
  PROVE  /\ OutputItems \in Seq(OutItems) /\ Len(OutputItems) = Len(items)
         /\ \A i \in 1 .. Len(items) : KindOf(i) \in ItemKinds /\ OutputItems[i] = Item(round, i, KindOf(i))
<1>1. DOMAIN items = 1 .. Len(items) /\ Len(items) \in Nat
  OBVIOUS
<1>2. ASSUME NEW i \in 1 .. Len(items) PROVE KindOf(i) \in ItemKinds
  <2>1. items[i] \in Slots
    OBVIOUS
  <2> QED BY <2>1 DEF KindOf, Slots, ItemKinds
<1>3. \A i \in 1 .. Len(items) : Item(round, i, KindOf(i)) \in OutItems
  BY <1>1, <1>2 DEF Item, OutItems
<1>4. OutputItems = [i \in 1 .. Len(items) |-> Item(round, i, KindOf(i))]
  BY <1>1 DEF OutputItems
<1> QED BY <1>1, <1>2, <1>3, <1>4

\* The client's side is as it was.
LEMMA PollSame ==
  ASSUME PollTyped, UNCHANGED <<channel, consumerVars>>
  PROVE  PollTyped' /\ Seen' = Seen
BY DEF PollTyped, Seen, consumerVars

\* Types: a step of an item.
LEMMA TypedAccept ==
  ASSUME Typed, NEW its \in Seq(Slots), Len(its) <= Len(script), NEW frames \in Seq(ItemEvs),
         Accept(its, frames),
         UNCHANGED <<mode, pc, round, script, begun, number, turnVars, result, channel, consumerVars>>
  PROVE  Typed'
<1>1. items' = its /\ outbox' \in Seq(ItemEvs) /\ deferred' \in Seq(ItemEvs)
  BY AcceptType
<1>2. outbox' \in Seq(Evs)
  BY <1>1, ItemEvsEvs
<1>3. WorkTyped'
  BY <1>1, <1>2 DEF Typed, WorkTyped, turnVars
<1>4. PollTyped'
  BY PollSame DEF Typed
<1> QED BY <1>3, <1>4 DEF Typed

\* What advances in a round: an item is added, named or done.
Frames(i, s) ==
    IF items[i].kind \in GatewayKinds THEN <<>>
    ELSE IF s = "open" THEN <<ItemFrame("added", i)>>
    ELSE (IF items[i].state = "unnamed" THEN <<ItemFrame("added", i)>> ELSE <<>>)
         \o <<ItemFrame("done", i)>>

\* The events of an item of the round are events of items.
LEMMA FrameItem ==
  ASSUME Typed, NEW i \in 1 .. Len(script), NEW t \in {"added", "done"}
  PROVE  ItemFrame(t, i) \in ItemEvs
<1>1. round \in Nat /\ i \in Nat \ {0} /\ i \in Nat
  BY ConstantsAssumption DEF Typed, WorkTyped
<1> QED BY <1>1, FrameType DEF ItemFrame

\* output_item.added: a new item, and its event if it is visible.
LEMMA AddItemAccepts ==
  ASSUME Typed, AddItem
  PROVE  \E its \in Seq(Slots), frames \in Seq(ItemEvs) :
            /\ Len(its) <= Len(script) /\ Accept(its, frames)
            /\ Len(its) = Len(items) + 1 /\ \A i \in 1 .. Len(items) : its[i] = items[i]
            /\ \/ its[Len(its)].state = "open" /\ its[Len(its)].kind \notin GatewayKinds
                  /\ frames = <<ItemFrame("added", Len(its))>>
               \/ its[Len(its)].state \in {"open", "unnamed"} /\ frames = <<>>
                  /\ (its[Len(its)].state = "unnamed" \/ its[Len(its)].kind \in GatewayKinds)
<1> DEFINE i == Len(items) + 1
           k == script[i]
<1>1. /\ items \in Seq(Slots) /\ Len(items) \in Nat /\ script \in Seq(ItemKinds) /\ i \in 1 .. Len(script)
      /\ Len(script) \in Nat
  BY DEF Typed, WorkTyped, AddItem
<1>2. PICK s \in {"open"} \cup (IF IsCall(k) THEN {"unnamed"} ELSE {}) :
         Accept(Append(items, [kind |-> k, state |-> s]),
                IF s = "unnamed" \/ k \in GatewayKinds THEN <<>> ELSE <<ItemFrame("added", i)>>)
  BY DEF AddItem
<1>3. s \in {"open", "unnamed"} /\ k \in ItemKinds
  BY <1>1, <1>2
<1> DEFINE slot == [kind |-> k, state |-> s]
           its == Append(items, slot)
           frames == IF s = "unnamed" \/ k \in GatewayKinds THEN <<>> ELSE <<ItemFrame("added", i)>>
<1>4. slot \in Slots /\ slot.kind = k /\ slot.state = s
  BY <1>3 DEF Slots
<1>5. Accept(its, frames)
  BY <1>2
<1>6. ItemFrame("added", i) \in ItemEvs
  BY <1>1, FrameItem
<1>7. frames \in Seq(ItemEvs)
  BY <1>6
<1> HIDE DEF slot
<1>8. its \in Seq(Slots) /\ Len(its) = i /\ its[i] = slot /\ \A j \in 1 .. Len(items) : its[j] = items[j]
  BY <1>1, <1>4
<1>9. Len(its) <= Len(script) /\ Len(its) = Len(items) + 1
  BY <1>1, <1>8
<1> HIDE DEF its
<1>10. \/ its[i].state = "open" /\ its[i].kind \notin GatewayKinds /\ frames = <<ItemFrame("added", i)>>
       \/ its[i].state \in {"open", "unnamed"} /\ frames = <<>>
          /\ (its[i].state = "unnamed" \/ its[i].kind \in GatewayKinds)
  BY <1>3, <1>4, <1>8
<1> HIDE DEF frames
<1> QED BY <1>5, <1>7, <1>8, <1>9, <1>10

\* An item changes its state alone.
LEMMA SlotChange ==
  ASSUME items \in Seq(Slots), NEW i \in 1 .. Len(items), NEW s \in {"open", "done"}
  PROVE  LET its == [items EXCEPT ![i].state = s]
         IN  /\ its \in Seq(Slots) /\ Len(its) = Len(items)
             /\ its[i].state = s /\ its[i].kind = items[i].kind
             /\ \A j \in 1 .. Len(items) : j # i => its[j] = items[j]
<1>1. items[i] \in Slots
  OBVIOUS
<1>2. [items[i] EXCEPT !.state = s] = [kind |-> items[i].kind, state |-> s]
  BY <1>1 DEF Slots
<1>3. [kind |-> items[i].kind, state |-> s] \in Slots
  BY <1>1 DEF Slots
<1> DEFINE v == [kind |-> items[i].kind, state |-> s]
<1>4. [items EXCEPT ![i].state = s] = [items EXCEPT ![i] = v]
  BY <1>2
<1>5. v \in Slots /\ v.state = s /\ v.kind = items[i].kind
  BY <1>3
<1> HIDE DEF v
<1> QED BY <1>4, <1>5

\* An item of the round advances: it is named or it is done.
LEMMA AdvanceAccepts ==
  ASSUME Typed, NameCall \/ DoneItem
  PROVE  \E its \in Seq(Slots), frames \in Seq(ItemEvs), i \in 1 .. Len(items) :
            /\ Len(its) = Len(items) /\ Accept(its, frames)
            /\ \A j \in 1 .. Len(items) : j # i => its[j] = items[j]
            /\ its[i].kind = items[i].kind /\ its[i].state \in {"open", "done"}
            /\ items[i].state # "done"
            /\ its[i].state = "open" => items[i].state = "unnamed"
            /\ frames = Frames(i, its[i].state)
<1>1. /\ items \in Seq(Slots) /\ Len(items) \in Nat /\ Len(items) <= Len(script) /\ Len(script) \in Nat
      /\ DOMAIN items = 1 .. Len(items)
  BY DEF Typed, WorkTyped
<1>2. \E i \in 1 .. Len(items), s \in {"open", "done"} :
         /\ items[i].state # "done" /\ (s = "open" => items[i].state = "unnamed")
         /\ Accept([items EXCEPT ![i].state = s], Frames(i, s))
  <2>1. CASE NameCall
    <3>1. PICK i \in 1 .. Len(items) :
             /\ items[i].state = "unnamed"
             /\ Accept([items EXCEPT ![i].state = "open"],
                       IF items[i].kind \in GatewayKinds THEN <<>> ELSE <<ItemFrame("added", i)>>)
      BY <1>1, <2>1 DEF NameCall
    <3>2. Frames(i, "open") = IF items[i].kind \in GatewayKinds THEN <<>> ELSE <<ItemFrame("added", i)>>
      BY DEF Frames
    <3> QED BY <3>1, <3>2
  <2>2. CASE DoneItem
    <3>1. PICK i \in 1 .. Len(items) :
             /\ items[i].state # "done"
             /\ Accept([items EXCEPT ![i].state = "done"],
                       IF items[i].kind \in GatewayKinds THEN <<>>
                       ELSE (IF items[i].state = "unnamed" THEN <<ItemFrame("added", i)>> ELSE <<>>)
                            \o <<ItemFrame("done", i)>>)
      BY <1>1, <2>2 DEF DoneItem
    <3>2. Frames(i, "done") = IF items[i].kind \in GatewayKinds THEN <<>>
                       ELSE (IF items[i].state = "unnamed" THEN <<ItemFrame("added", i)>> ELSE <<>>)
                            \o <<ItemFrame("done", i)>>
      BY DEF Frames
    <3> QED BY <3>1, <3>2
  <2> QED BY <2>1, <2>2
<1>3. PICK i \in 1 .. Len(items), s \in {"open", "done"} :
         /\ items[i].state # "done" /\ (s = "open" => items[i].state = "unnamed")
         /\ Accept([items EXCEPT ![i].state = s], Frames(i, s))
  BY <1>2
<1> DEFINE its == [items EXCEPT ![i].state = s]
           A == ItemFrame("added", i)
           D == ItemFrame("done", i)
<1>4. /\ its \in Seq(Slots) /\ Len(its) = Len(items) /\ its[i].state = s /\ its[i].kind = items[i].kind
      /\ \A j \in 1 .. Len(items) : j # i => its[j] = items[j]
  BY <1>1, SlotChange
<1>5. A \in ItemEvs /\ D \in ItemEvs
  BY <1>1, FrameItem
<1>6. Frames(i, s) \in {<<>>, <<A>>, <<A>> \o <<D>>, <<>> \o <<D>>}
  BY DEF Frames
<1> HIDE DEF A, D
<1>7. Frames(i, s) \in Seq(ItemEvs)
  <2>1. <<A>> \in Seq(ItemEvs) /\ <<D>> \in Seq(ItemEvs) /\ <<>> \in Seq(ItemEvs)
    BY <1>5
  <2>2. <<A>> \o <<D>> \in Seq(ItemEvs) /\ <<>> \o <<D>> \in Seq(ItemEvs)
    BY <2>1
  <2> QED BY <1>6, <2>1, <2>2
<1>8. Accept(its, Frames(i, its[i].state))
  BY <1>3, <1>4
<1> HIDE DEF its
<1> QED BY <1>3, <1>4, <1>7, <1>8

\* Types: the start.
LEMMA TypedInit == StreamInit => Typed
<1> SUFFICES ASSUME StreamInit PROVE Typed
  OBVIOUS
<1>1. 1 \in 1 .. MaxRounds
  BY ConstantsAssumption
<1>2. WorkTyped
  <2>1. /\ script = <<>> /\ items = <<>> /\ outbox = <<>> /\ deferred = <<>> /\ combined = <<>>
        /\ mode \in Modes /\ round = 1 /\ pc = "new" /\ begun = FALSE /\ number = 0
        /\ status = "in_progress" /\ result = "none"
    BY DEF StreamInit
  <2>2. /\ script \in Seq(ItemKinds) /\ items \in Seq(Slots) /\ Len(items) <= Len(script)
        /\ outbox \in Seq(Evs) /\ deferred \in Seq(ItemEvs) /\ combined \in Seq(OutItems)
    BY <2>1
  <2> QED BY <1>1, <2>1, <2>2 DEF WorkTyped
<1>3. PollTyped
  BY DEF StreamInit, PollTyped, Seen
<1> QED BY <1>2, <1>3 DEF Typed

\* The records that head an output are items of it.
LEMMA ListType == ASSUME NEW n \in Nat
                  PROVE  /\ [i \in 1 .. n |-> ListItem(i)] \in Seq(OutItems)
                         /\ <<Compaction>> \in Seq(OutItems)
<1>1. \A i \in 1 .. n : ListItem(i) \in OutItems
  BY DEF ListItem, Item, OutItems, Records
<1>2. Compaction \in OutItems
  BY DEF Compaction, Item, OutItems, Records
<1> QED BY <1>1, <1>2

\* The start of the turn and the rounds.
LEMMA TypedWorker ==
  ASSUME Typed,
         Discover \/ CompactionTrigger \/ Return \/ BeginRound \/ UpstreamEnds \/ Execute
         \/ CloseRound \/ WorkerFails
  PROVE  Typed'
<1> USE DEF Typed
<1>0. Len(combined) \in Nat /\ round \in Nat /\ items \in Seq(Slots) /\ deferred \in Seq(ItemEvs)
  BY ConstantsAssumption DEF WorkTyped
<1>p. UNCHANGED <<channel, consumerVars>>
  BY DEF Discover, CompactionTrigger, Return, BeginRound, UpstreamEnds, EndStream, Execute, CloseRound, WorkerFails
<1>1. CASE Discover
  <2>1. combined' \in Seq(OutItems)
    BY <1>1, ListType, ConstantsAssumption DEF Discover
  <2> QED BY <1>1, <1>p, <2>1, PollSame DEF Discover, WorkTyped, roundVars
<1>2. CASE CompactionTrigger
  <2>1. combined' \in Seq(OutItems)
    BY <1>2, ListType, ConstantsAssumption DEF CompactionTrigger
  <2>2. outbox' = LifecycleEvents \o AddedAndDone(combined')
    BY <1>2 DEF CompactionTrigger
  <2>3. outbox' \in Seq(Evs)
    BY <2>1, <2>2, AddedAndDoneFacts, LifecycleFacts, ItemEvsEvs
  <2> QED BY <1>2, <1>p, <2>1, <2>3, PollSame DEF CompactionTrigger, WorkTyped, roundVars
<1>3. CASE Return
  BY <1>3, <1>p, PollSame DEF Return, WorkTyped, roundVars, turnVars
<1>4. CASE BeginRound
  <2>1. script' \in Seq(ItemKinds)
    <3>1. round \in 1 .. Len(Outputs) /\ Outputs \in Seq(SUBSET Seq(ItemKinds))
      BY ConstantsAssumption DEF WorkTyped
    <3>2. Outputs[round] \in SUBSET Seq(ItemKinds)
      BY <3>1
    <3> QED BY <1>4, <3>2 DEF BeginRound
  <2>2. outbox' = IF begun THEN <<>> ELSE LifecycleEvents \o AddedAndDone(combined)
    BY <1>4 DEF BeginRound
  <2>3. LifecycleEvents \o AddedAndDone(combined) \in Seq(Evs)
    BY AddedAndDoneFacts, LifecycleFacts, ItemEvsEvs DEF WorkTyped
  <2>4. outbox' \in Seq(Evs)
    BY <2>2, <2>3
  <2>5. items' \in Seq(Slots) /\ Len(items') <= Len(script')
    BY <1>4, <2>1 DEF BeginRound
  <2> QED BY <1>4, <1>p, <2>1, <2>4, <2>5, PollSame DEF BeginRound, WorkTyped, turnVars
<1>5. CASE UpstreamEnds
  <2>1. PICK s \in {"completed", "incomplete", "failed"} : EndStream(s)
    BY <1>5 DEF UpstreamEnds
  <2>2. combined \o OutputItems \in Seq(OutItems)
    BY <1>0, OutputType DEF WorkTyped
  <2>3. Plans("added", InitialRun) \in Seq(Evs)
    BY <1>0, InitialFacts, ItemEvsEvs
  <2>4. /\ combined' \in Seq(OutItems) /\ outbox' \in Seq(Evs)
        /\ pc' \in {"execute", "ended"} /\ result' \in {"ok", result}
    BY <2>1, <2>2, <2>3 DEF EndStream, WorkTyped
  <2> QED BY <2>1, <2>4, <1>p, PollSame DEF EndStream, WorkTyped, roundVars
<1>6. CASE Execute
  <2>1. outbox' = ExecuteOutbox
    BY <1>6 DEF Execute, ExecuteOutbox
  <2>2. outbox' \in Seq(Evs)
    BY <1>0, <2>1, ExecuteFacts, ItemEvsEvs
  <2> QED BY <1>6, <1>p, <2>2, PollSame DEF Execute, WorkTyped, turnVars
<1>7. CASE CloseRound
  <2>1. combined' \in Seq(OutItems)
    BY <1>0, <1>7, OutputType DEF WorkTyped, CloseRound
  <2>2. /\ pc' \in {"round", "ended"} /\ result' \in {"ok", result} /\ status' \in {"incomplete", status}
        /\ round' \in 1 .. MaxRounds
    BY <1>7, ConstantsAssumption DEF CloseRound, Continues, WorkTyped
  <2> QED BY <1>7, <1>p, <2>1, <2>2, PollSame DEF CloseRound, WorkTyped
<1>8. CASE WorkerFails
  BY <1>8, <1>p, PollSame DEF WorkerFails, WorkTyped, roundVars, turnVars
<1> QED BY <1>1, <1>2, <1>3, <1>4, <1>5, <1>6, <1>7, <1>8

\* Types: the steps of items.
LEMMA TypedItems ==
  ASSUME Typed, AddItem \/ NameCall \/ DoneItem
  PROVE  Typed'
<1>1. UNCHANGED <<mode, pc, round, script, begun, number, turnVars, result, channel, consumerVars>>
  BY DEF AddItem, NameCall, DoneItem
<1>2. \E its \in Seq(Slots), frames \in Seq(ItemEvs) : Len(its) <= Len(script) /\ Accept(its, frames)
  <2>1. CASE AddItem
    BY <2>1, AddItemAccepts
  <2>2. CASE NameCall \/ DoneItem
    <3>1. Len(items) <= Len(script)
      BY DEF Typed, WorkTyped
    <3> QED BY <2>2, <3>1, AdvanceAccepts
  <2> QED BY <2>1, <2>2
<1> QED BY <1>1, <1>2, TypedAccept

\* Entries of the channel and last events may be delivered.
LEMMA Delivery == \A e : e \in Entries \/ e \in Chunks => e \in Deliveries
<1> DEFINE E == Evs
           L == LastEvs
<1>1. \A e : e \in [event : E, number : Nat] \/ e \in [event : L, number : Nat] => e \in [event : E \cup L, number : Nat]
  <2> HIDE DEF E, L
  <2> QED OBVIOUS
<1> QED BY <1>1 DEF Entries, Chunks, Deliveries

\* A sequence is its head and its tail.
LEMMA HeadTail ==
  ASSUME NEW S, NEW s \in Seq(S), s # <<>>
  PROVE  Head(s) \in S /\ Tail(s) \in Seq(S) /\ s = <<Head(s)>> \o Tail(s) /\ Len(Tail(s)) = Len(s) - 1
         /\ Len(s) \in Nat \ {0} /\ Head(s) = s[1] /\ \A n \in 1 .. Len(s) - 1 : Tail(s)[n] = s[n + 1]
  OBVIOUS

\* What was seen before the last event stays what it was.
LEMMA SeenLast ==
  ASSUME NEW S, NEW s \in Seq(S), NEW e
  PROVE  Front1(Append(s, e), Len(Append(s, e)) - 1) = s
<1>1. Len(Append(s, e)) - 1 = Len(s) /\ \A n \in 1 .. Len(s) : Append(s, e)[n] = s[n]
  OBVIOUS
<1>2. Front1(Append(s, e), Len(s)) = [n \in 1 .. Len(s) |-> s[n]]
  BY <1>1 DEF Front1
<1>3. [n \in 1 .. Len(s) |-> s[n]] = s
  OBVIOUS
<1> QED BY <1>1, <1>2, <1>3

\* Types: the worker's events are sent or given up.
LEMMA TypedSend ==
  ASSUME Typed, Send \/ Oversized \/ Panic
  PROVE  Typed' /\ Seen' = Seen
<1>1. CASE Send
  <2>1. outbox \in Seq(Evs) /\ outbox # <<>> /\ channel \in Seq(Entries) /\ number \in Nat
    BY <1>1 DEF Send, Typed, WorkTyped, PollTyped
  <2>2. Head(outbox) \in Evs /\ Tail(outbox) \in Seq(Evs)
    BY <2>1, HeadTail
  <2>3. [event |-> Head(outbox), number |-> number] \in Entries
    BY <2>1, <2>2 DEF Entries
  <2>4. channel' \in Seq(Entries)
    BY <1>1, <2>1, <2>3 DEF Send
  <2>5. WorkTyped'
    BY <1>1, <2>1, <2>2 DEF Send, Typed, WorkTyped, roundVars, turnVars
  <2>6. PollTyped' /\ Seen' = Seen
    BY <1>1, <2>4 DEF Send, Typed, PollTyped, consumerVars, Seen
  <2> QED BY <2>5, <2>6 DEF Typed
<1>2. CASE Oversized
  BY <1>2, PollSame DEF Oversized, Typed, WorkTyped, roundVars, turnVars
<1>3. CASE Panic
  BY <1>3, PollSame DEF Panic, Typed, WorkTyped, roundVars, turnVars
<1> QED BY <1>1, <1>2, <1>3

\* The worker's side is as it was.
LEMMA WorkSame ==
  ASSUME WorkTyped, UNCHANGED <<mode, pc, roundVars, outbox, number, turnVars, result>>
  PROVE  WorkTyped'
  BY DEF WorkTyped, roundVars, turnVars

\* The events that end a turn.
LEMMA LastType == \A s \in {"completed", "incomplete", "failed"} : Terminal(s) \in LastEvs /\ Error \in LastEvs
  BY DEF Terminal, Error, Event, LastEvs

\* Types: the steps of the client, and what it has seen.
LEMMA TypedPoll ==
  ASSUME Typed, Ending, Receive \/ Join \/ ChannelDrained \/ Persist \/ Yield \/ Drop
  PROVE  Typed' /\ (~Receive => Seen' = Seen) /\ (Receive => Seen' = Append(Seen, Head(channel)))
<1>1. UNCHANGED <<mode, pc, roundVars, outbox, number, turnVars, result>>
  BY DEF Receive, Join, ChannelDrained, Persist, Yield, Drop
<1>2. WorkTyped'
  BY <1>1, WorkSame DEF Typed
<1>w. PollTyped
  BY DEF Typed
<1>3. CASE Receive
  <2>1. channel \in Seq(Entries) /\ channel # <<>> /\ delivered = Seen /\ Seen \in Seq(Entries)
    BY <1>3 DEF Receive, Seen, Typed, PollTyped
  <2>2. Head(channel) \in Entries /\ Tail(channel) \in Seq(Entries)
    BY <2>1, HeadTail
  <2>3. Head(channel).number + 1 \in Nat
    BY <2>2 DEF Entries
  <2>4. Head(channel) \in Deliveries
    BY <2>2, Delivery
  <2>5. delivered' = Append(delivered, Head(channel)) /\ stream' = stream /\ chunk' = chunk
        /\ stream \in {"select", "drain"} /\ channel' = Tail(channel) /\ nextNumber' = Head(channel).number + 1
    BY <1>3 DEF Receive
  <2>6. Seen' = Append(Seen, Head(channel)) /\ Seen' \in Seq(Entries)
    BY <2>1, <2>2, <2>5 DEF Seen
  <2>7. delivered' \in Seq(Deliveries)
    BY <2>4, <2>5 DEF Typed, PollTyped
  <2>8. PollTyped'
    BY <2>2, <2>3, <2>5, <2>6, <2>7 DEF PollTyped
  <2> QED BY <1>2, <1>3, <2>6, <2>8 DEF Typed
<1>4. CASE Join \/ Drop
  <2>1. UNCHANGED <<channel, nextNumber, delivered>> /\ stream' \in {"drain", "dropped"} /\ stream # "ended"
    BY <1>4 DEF Join, Drop
  <2>2. Seen' = Seen
    BY <2>1 DEF Seen
  <2>3. PollTyped'
    BY <1>w, <2>1, <2>2 DEF PollTyped
  <2> QED BY <1>2, <2>2, <2>3, <1>4 DEF Typed, Receive, Join, Drop
<1>5. CASE ChannelDrained
  <2>1. UNCHANGED <<channel, nextNumber, delivered>> /\ stream' \in {"persist", "yield"} /\ stream = "drain"
    BY <1>5 DEF ChannelDrained, Ends
  <2>2. Seen' = Seen
    BY <2>1 DEF Seen
  <2>3. chunk' \in Chunks
    <3>1. number \in Nat /\ nextNumber \in Nat
      BY DEF Typed, WorkTyped, PollTyped
    <3>2. \A s \in {"completed", "incomplete", "failed"} : Terminal(s) \in LastEvs
      BY LastType
    <3>3. Error \in LastEvs
      BY LastType
    <3>4. result = "ok" => status \in {"completed", "incomplete", "failed"}
      BY DEF Ending, Typed, WorkTyped
    <3> QED BY <1>5, <3>1, <3>2, <3>3, <3>4 DEF ChannelDrained, Ends, Chunks
  <2>4. PollTyped'
    BY <1>w, <2>1, <2>2, <2>3 DEF PollTyped
  <2>5. ~Receive
    BY <1>5 DEF ChannelDrained, Receive
  <2> QED BY <1>2, <2>2, <2>4, <2>5 DEF Typed
<1>6. CASE Persist
  <2>1. UNCHANGED <<channel, nextNumber, delivered>> /\ stream' = "yield" /\ stream = "persist"
    BY <1>6 DEF Persist, Ends
  <2>2. Seen' = Seen
    BY <2>1 DEF Seen
  <2>3. chunk' \in Chunks
    <3>1. chunk \in Chunks /\ nextNumber \in Nat
      BY <2>1 DEF Typed, PollTyped
    <3>2. [event |-> Error, number |-> nextNumber] \in Chunks
      BY <3>1, LastType DEF Chunks
    <3> QED BY <1>6, <3>1, <3>2 DEF Persist, Ends
  <2>4. PollTyped'
    BY <1>w, <2>1, <2>2, <2>3 DEF PollTyped
  <2>5. ~Receive
    BY <2>1 DEF Receive
  <2> QED BY <1>2, <2>2, <2>4, <2>5 DEF Typed
<1>7. CASE Yield
  <2>1. UNCHANGED <<channel, nextNumber, chunk>> /\ stream' = "ended" /\ stream = "yield"
        /\ delivered' = Append(delivered, chunk) /\ chunk \in Chunks
    BY <1>7 DEF Yield, Typed, PollTyped
  <2>2. delivered \in Seq(Deliveries) /\ delivered = Seen
    BY <2>1 DEF Typed, PollTyped, Seen
  <2>3. Seen' = Seen
    BY <2>1, <2>2, SeenLast DEF Seen
  <2>4. delivered' \in Seq(Deliveries) /\ Len(delivered') > 0
    BY <2>1, <2>2, Delivery
  <2>5. PollTyped'
    BY <1>w, <2>1, <2>3, <2>4 DEF PollTyped
  <2>6. ~Receive
    BY <2>1 DEF Receive
  <2> QED BY <1>2, <2>3, <2>5, <2>6 DEF Typed
<1> QED BY <1>3, <1>4, <1>5, <1>6, <1>7

-----------------------------------------------------------------------------
(* How the turn ends and how its events are numbered.                      *)

Worker == Discover \/ CompactionTrigger \/ Return \/ BeginRound \/ UpstreamEnds \/ Execute
          \/ CloseRound \/ WorkerFails \/ AddItem \/ NameCall \/ DoneItem
Polling == Receive \/ Join \/ ChannelDrained \/ Persist \/ Yield \/ Drop

\* A step of the worker leaves the client's side alone; it returns at most once.
LEMMA WorkerStep ==
  ASSUME Typed, Ending, Worker
  PROVE  /\ UNCHANGED <<mode, number, channel, consumerVars>>
         /\ stream # "dropped" /\ outbox = <<>> /\ pc # "ended" /\ result = "none"
         /\ (result' # "none") = (pc' = "ended")
         /\ pc' = "ended" => outbox' = <<>>
         /\ pc' \in {"execute", "close", "return"} \/ result' = "ok" => status' # "in_progress"
<1>1. UNCHANGED <<mode, number, channel, consumerVars>>
  BY DEF Worker, Discover, CompactionTrigger, Return, BeginRound, UpstreamEnds, EndStream, Execute,
         CloseRound, WorkerFails, AddItem, NameCall, DoneItem
<1>2. stream # "dropped" /\ outbox = <<>> /\ pc # "ended"
  BY DEF Working, Worker, Discover, CompactionTrigger, Return, BeginRound, UpstreamEnds, EndStream, Execute,
         CloseRound, WorkerFails, AddItem, NameCall, DoneItem
<1>3. result = "none"
  BY <1>2 DEF Ending, Typed, WorkTyped
<1>4. CASE AddItem \/ NameCall \/ DoneItem
  <2>1. pc = "fetch" /\ UNCHANGED <<pc, turnVars, result>>
    BY <1>4 DEF AddItem, NameCall, DoneItem, Working
  <2> QED BY <1>1, <1>2, <1>3, <2>1
<1>5. CASE WorkerFails
  BY <1>1, <1>2, <1>3, <1>5 DEF WorkerFails
<1>6. CASE Discover \/ CompactionTrigger \/ Return \/ BeginRound \/ Execute
  BY <1>1, <1>2, <1>3, <1>6 DEF Ending, Working, Discover, CompactionTrigger, Return, BeginRound, Execute, turnVars
<1>7. CASE UpstreamEnds
  BY <1>1, <1>2, <1>3, <1>7 DEF UpstreamEnds, EndStream
<1>8. CASE CloseRound
  BY <1>1, <1>2, <1>3, <1>8 DEF Ending, Working, CloseRound
<1> QED BY <1>4, <1>5, <1>6, <1>7, <1>8 DEF Worker

\* How a turn ends, and its numbers: the start.
LEMMA EndingInit == StreamInit => Ending /\ Numbered
<1> SUFFICES ASSUME StreamInit PROVE Ending /\ Numbered
  OBVIOUS
<1>1. Ending
  BY DEF StreamInit, Ending
<1>2. Seen = <<>> /\ channel = <<>> /\ number = 0 /\ nextNumber = 0 /\ stream = "select"
  BY DEF StreamInit, Seen
<1>3. Numbered
  BY <1>2 DEF Numbered
<1> QED BY <1>1, <1>3

\* How a turn ends is preserved by every step.
LEMMA EndingNext == ASSUME Typed, Ending, StreamNext PROVE Ending'
<1>1. CASE Worker
  BY <1>1, WorkerStep DEF Ending, consumerVars
<1>2. CASE Send
  <2>1. result = "none"
    BY <1>2 DEF Send, Ending, Typed, WorkTyped
  <2> QED BY <1>2, <2>1 DEF Ending, Send, roundVars, turnVars, consumerVars
<1>3. CASE Oversized
  <2>1. result = "none"
    BY <1>3 DEF Oversized, Ending, Typed, WorkTyped
  <2> QED BY <1>3, <2>1 DEF Ending, Oversized, roundVars, turnVars, consumerVars
<1>4. CASE Panic
  <2>1. result = "none"
    BY <1>4 DEF Panic, Ending, Typed, WorkTyped
  <2> QED BY <1>4, <2>1 DEF Ending, Panic, roundVars, turnVars, consumerVars
<1>5. CASE Polling
  <2>1. UNCHANGED <<mode, pc, outbox, status, result>>
    BY <1>5 DEF Polling, Receive, Join, ChannelDrained, Persist, Yield, Drop, turnVars
  <2>2. CASE Receive
    BY <2>1, <2>2 DEF Ending, Receive
  <2>3. CASE Join \/ Drop
    BY <2>1, <2>3 DEF Ending, Join, Drop
  <2>4. CASE ChannelDrained
    <3>1. \A s \in {"completed", "incomplete", "failed"} : Terminal(s).type = s
      BY DEF Terminal, Event
    <3>2. Error.type = "error"
      BY DEF Error, Event
    <3> QED BY <2>1, <2>4, <3>1, <3>2 DEF Ending, ChannelDrained, Ends
  <2>5. CASE Persist
    <3>1. Error.type = "error" /\ \A s : Terminal(s).type = s
      BY DEF Terminal, Error, Event
    <3>2. stream = "persist" /\ stream' = "yield" /\ result = "ok" /\ chunk.event = Terminal(status)
          /\ UNCHANGED <<channel, delivered>>
      BY <2>5 DEF Persist, Ends, Ending
    <3>3. CASE chunk' = chunk /\ stored' = IF ShouldPersist THEN {History} ELSE {}
      <4>1. chunk'.event = Terminal(status) /\ chunk'.event.type = status
        BY <3>1, <3>2, <3>3
      <4>2. mode # "none" /\ status \in {"completed", "incomplete"} => stored' # {}
        BY <3>3 DEF ShouldPersist
      <4> HIDE DEF History
      <4> QED BY <2>1, <3>2, <4>1, <4>2 DEF Ending
    <3>4. CASE chunk'.event.type = "error"
      BY <2>1, <3>2, <3>4 DEF Ending
    <3> QED BY <2>5, <3>1, <3>3, <3>4 DEF Persist, Ends
  <2>6. CASE Yield
    <3>1. delivered' = Append(delivered, chunk) /\ delivered \in Seq(Deliveries) /\ stream = "yield"
          /\ stream' = "ended" /\ UNCHANGED <<channel, chunk, stored>>
      BY <2>6 DEF Yield, Typed, PollTyped
    <3>2. delivered'[Len(delivered')] = chunk
      BY <3>1
    <3> QED BY <2>1, <3>1, <3>2 DEF Ending
  <2> QED BY <1>5, <2>2, <2>3, <2>4, <2>5, <2>6 DEF Polling
<1>6. CASE Over
  BY <1>6 DEF Over, Ending, streamVars, turnVars, consumerVars
<1> QED BY <1>1, <1>2, <1>3, <1>4, <1>5, <1>6 DEF StreamNext, Work, Poll, Worker, Polling

\* The sequence numbers are preserved by every step.
LEMMA NumberedNext == ASSUME Typed, Ending, Numbered, StreamNext PROVE Numbered'
<1>0. /\ Seen \in Seq(Entries) /\ channel \in Seq(Entries) /\ Len(Seen) \in Nat /\ Len(channel) \in Nat
      /\ number \in Nat /\ nextNumber \in Nat
  BY DEF Typed, WorkTyped, PollTyped
<1>1. CASE Worker
  <2>1. UNCHANGED <<number, channel, stream, nextNumber, chunk>> /\ result = "none"
    BY <1>1, WorkerStep DEF consumerVars
  <2>2. Seen' = Seen
    BY <1>1, WorkerStep, PollSame DEF Typed
  <2> QED BY <2>1, <2>2 DEF Numbered
<1>2. CASE Send
  <2>1. result = "none" /\ result' = result /\ UNCHANGED <<stream, nextNumber, chunk>>
        /\ channel' = Append(channel, [event |-> Head(outbox), number |-> number]) /\ number' = number + 1
        /\ stream \notin {"persist", "yield", "ended"}
    BY <1>2 DEF Send, Ending, Typed, WorkTyped, consumerVars
  <2>2. Seen' = Seen
    BY <1>2, TypedSend
  <2> DEFINE c == [event |-> Head(outbox), number |-> number]
  <2>3. c.number = number
    OBVIOUS
  <2> HIDE DEF c
  <2>4. channel' = Append(channel, c)
    BY <2>1 DEF c
  <2>5. Len(channel') = Len(channel) + 1 /\ channel'[Len(channel) + 1] = c
        /\ \A n \in 1 .. Len(channel) : channel'[n] = channel[n]
    BY <1>0, <2>4
  <2>6. \A n \in 1 .. Len(channel') : channel'[n].number = Len(Seen) + n - 1
    <3>1. number = Len(Seen) + Len(channel) /\ \A n \in 1 .. Len(channel) : channel[n].number = Len(Seen) + n - 1
      BY <2>1 DEF Numbered
    <3> SUFFICES ASSUME NEW n \in 1 .. Len(channel') PROVE channel'[n].number = Len(Seen) + n - 1
      OBVIOUS
    <3>2. CASE n \in 1 .. Len(channel)
      BY <2>5, <3>1, <3>2
    <3>3. CASE n = Len(channel) + 1
      <4>1. channel'[n].number = number
        BY <2>3, <2>5, <3>3
      <4> QED BY <1>0, <3>1, <3>3, <4>1
    <3> QED BY <1>0, <2>5, <3>2, <3>3
  <2> QED BY <1>0, <2>1, <2>2, <2>5, <2>6 DEF Numbered
<1>3. CASE Oversized \/ Panic
  <2>1. result = "none" /\ UNCHANGED <<stream, nextNumber, chunk, channel>> /\ (result' # "error" => number' = number)
    BY <1>3 DEF Oversized, Panic, Ending, Typed, WorkTyped, consumerVars
  <2>2. Seen' = Seen
    BY <1>3, TypedSend
  <2> QED BY <2>1, <2>2 DEF Numbered
<1>4. CASE Receive
  <2>1. Seen' = Append(Seen, Head(channel))
    BY <1>4, TypedPoll
  <2>2. /\ channel # <<>> /\ channel' = Tail(channel) /\ nextNumber' = Head(channel).number + 1
        /\ UNCHANGED <<stream, result, number, chunk>> /\ stream \in {"select", "drain"}
    BY <1>4 DEF Receive
  <2>3. Head(channel) = channel[1] /\ Len(channel') = Len(channel) - 1 /\ Len(channel) \in Nat \ {0}
        /\ \A n \in 1 .. Len(channel) - 1 : channel'[n] = channel[n + 1]
    BY <1>0, <2>2, HeadTail
  <2>4. Len(Seen') = Len(Seen) + 1 /\ Seen'[Len(Seen) + 1] = channel[1]
        /\ \A n \in 1 .. Len(Seen) : Seen'[n] = Seen[n]
    BY <1>0, <2>1, <2>3
  <2>5. channel[1].number = Len(Seen)
    BY <1>0, <2>3 DEF Numbered
  <2>6. \A n \in 1 .. Len(Seen') : Seen'[n].number = n - 1
    BY <1>0, <2>4, <2>5 DEF Numbered
  <2>7. \A n \in 1 .. Len(channel') : channel'[n].number = Len(Seen') + n - 1
    BY <1>0, <2>3, <2>4 DEF Numbered
  <2>8. nextNumber' = Len(Seen')
    BY <2>2, <2>3, <2>4, <2>5
  <2>9. result' # "error" => number' = Len(Seen') + Len(channel')
    <3>1. result # "error" => number = Len(Seen) + Len(channel)
      BY DEF Numbered
    <3> QED BY <1>0, <2>2, <2>3, <2>4, <3>1
  <2>10. stream' \notin {"persist", "yield", "ended"}
    BY <2>2
  <2> QED BY <2>6, <2>7, <2>8, <2>9, <2>10 DEF Numbered
<1>5. CASE Join \/ ChannelDrained \/ Persist \/ Yield \/ Drop
  <2>1. ~Receive \/ Seen' = Append(Seen, Head(channel))
    BY <1>5, TypedPoll
  <2>2. UNCHANGED <<channel, nextNumber, number, result>>
    BY <1>5 DEF Join, ChannelDrained, Persist, Yield, Drop
  <2>3. Seen' = Seen
    <3>1. ~Receive
      <4>1. CASE Join \/ Drop
        BY <4>1 DEF Join, Drop, Receive
      <4>2. CASE ChannelDrained
        BY <4>2 DEF ChannelDrained, Receive
      <4>3. CASE Persist \/ Yield
        BY <4>3 DEF Persist, Yield, Receive
      <4> QED BY <1>5, <4>1, <4>2, <4>3
    <3> QED BY <1>5, <3>1, TypedPoll
  <2>4. stream' \in {"persist", "yield", "ended"} => chunk'.number = Len(Seen)
    <3>1. CASE Join \/ Drop
      BY <3>1 DEF Join, Drop
    <3>2. CASE ChannelDrained
      <4>1. channel = <<>> /\ Len(channel) = 0
        BY <3>2 DEF ChannelDrained
      <4>2. \E e : \/ result \in {"ok", "invalid_search"} /\ chunk' = [event |-> e, number |-> number]
                   \/ chunk' = [event |-> e, number |-> nextNumber]
        BY <3>2 DEF ChannelDrained, Ends
      <4> QED BY <1>0, <4>1, <4>2 DEF Numbered
    <3>3. CASE Persist
      <4>1. stream = "persist" /\ (chunk' = chunk \/ chunk' = [event |-> Error, number |-> nextNumber])
        BY <3>3 DEF Persist, Ends
      <4> QED BY <4>1 DEF Numbered
    <3>4. CASE Yield
      BY <3>4 DEF Yield, Numbered
    <3> QED BY <1>5, <3>1, <3>2, <3>3, <3>4
  <2> QED BY <2>2, <2>3, <2>4 DEF Numbered
<1>6. CASE Over
  <2>1. UNCHANGED <<number, channel, consumerVars, result>>
    BY <1>6 DEF Over, streamVars
  <2>2. Seen' = Seen
    BY <2>1, PollSame DEF Typed
  <2> QED BY <2>1, <2>2 DEF Numbered, consumerVars
<1> QED BY <1>1, <1>2, <1>3, <1>4, <1>5, <1>6 DEF StreamNext, Work, Poll, Worker

-----------------------------------------------------------------------------
(* What was sent.                                                          *)

\* Events of items have an index from 1.
LEMMA EvsIndex == \A e \in Evs : e.index \in Nat /\ (e.type \in {"added", "done"} => e.index \in Nat \ {0} /\ e \in ItemEvs)
  BY DEF Evs, ItemEvs

\* An event is among those of its item.
LEMMA OfFound ==
  ASSUME NEW S, NEW s \in Seq(S), NEW m \in 1 .. Len(s), s[m].index \in Nat
  PROVE  Of(s, s[m].index) # <<>>
  BY OfSome

\* What is sorted was there.
LEMMA ByIndexOrigin ==
  ASSUME script \in Seq(ItemKinds), NEW fs \in Seq(ItemEvs), NEW is, NEW m \in 1 .. Len(ByIndex(fs, is))
  PROVE  \E n \in 1 .. Len(fs) : /\ ByIndex(fs, is)[m] = fs[n] /\ fs[n].index \in is
                                 /\ fs[n].index \in 1 .. Len(script)
<1> DEFINE t == ByIndex(fs, is)
           x == t[m].index
<1>1. t \in Seq(ItemEvs) /\ x \in 1 .. Len(script) /\ Len(script) \in Nat /\ x \in Nat
  BY ByIndexFacts
<1>2. Of(t, x) = IF x \in 1 .. Len(script) /\ x \in is THEN Of(fs, x) ELSE <<>>
  BY <1>1, ByIndexFacts
<1> HIDE DEF t
<1>3. m \in 1 .. Len(t)
  BY DEF t
<1>4. PICK k \in 1 .. Len(Of(t, x)) : Of(t, x)[k] = t[m]
  BY <1>1, <1>3, OfSome
<1>5. x \in is /\ Of(t, x) = Of(fs, x)
  <2>1. Len(Of(t, x)) # 0
    BY <1>1, <1>4, OfType
  <2> QED BY <1>1, <1>2, <2>1
<1>6. PICK pos : Positions(fs, x, pos)
  BY <1>1, OfPositions
<1>7. pos[k] \in 1 .. Len(fs) /\ Of(fs, x)[k] = fs[pos[k]] /\ fs[pos[k]].index = x
  BY <1>4, <1>5, <1>6 DEF Positions
<1> QED BY <1>1, <1>4, <1>5, <1>7 DEF t

\* Rebasing two sequences one after the other.
LEMMA RebasedJoin ==
  ASSUME Len(combined) \in Nat, NEW s \in Seq(ItemEvs), NEW t \in Seq(ItemEvs)
  PROVE  Rebased(s \o t) = Rebased(s) \o Rebased(t)
<1> DEFINE u == s \o t
           c == Len(combined)
           r == Rebased(s)
           q == Rebased(t)
           w == r \o q
<1>1. u \in Seq(ItemEvs) /\ Len(u) = Len(s) + Len(t) /\ Len(s) \in Nat /\ Len(t) \in Nat
      /\ \A n \in 1 .. Len(u) : u[n] = IF n <= Len(s) THEN s[n] ELSE t[n - Len(s)]
  OBVIOUS
<1>2. /\ r \in Seq(ItemEvs) /\ Len(r) = Len(s) /\ \A n \in 1 .. Len(s) : r[n] = Moved(s[n], c)
      /\ q \in Seq(ItemEvs) /\ Len(q) = Len(t) /\ \A n \in 1 .. Len(t) : q[n] = Moved(t[n], c)
  BY RebasedFacts
<1> HIDE DEF u, r, q, c
<1>3. Rebased(u) \in Seq(ItemEvs) /\ Len(Rebased(u)) = Len(u) /\ \A n \in 1 .. Len(u) : Rebased(u)[n] = Moved(u[n], c)
  BY <1>1, RebasedFacts DEF c
<1>4. w \in Seq(ItemEvs) /\ Len(w) = Len(s) + Len(t)
      /\ \A n \in 1 .. Len(w) : w[n] = IF n <= Len(s) THEN r[n] ELSE q[n - Len(s)]
  BY <1>1, <1>2
<1> HIDE DEF w
<1>5. \A n \in 1 .. Len(u) : Rebased(u)[n] = w[n]
  <2> SUFFICES ASSUME NEW n \in 1 .. Len(u) PROVE Rebased(u)[n] = w[n]
    OBVIOUS
  <2>1. CASE n <= Len(s)
    <3>1. n \in 1 .. Len(s) /\ n \in 1 .. Len(w)
      BY <1>1, <1>4, <2>1
    <3> QED BY <1>1, <1>2, <1>3, <1>4, <2>1, <3>1
  <2>2. CASE ~(n <= Len(s))
    <3>1. n - Len(s) \in 1 .. Len(t) /\ n \in 1 .. Len(w)
      BY <1>1, <1>4, <2>2
    <3> QED BY <1>1, <1>2, <1>3, <1>4, <2>2, <3>1
  <2> QED BY <2>1, <2>2
<1>6. Rebased(u) = w
  BY <1>1, <1>3, <1>4, <1>5, SeqEqual
<1> QED BY <1>6 DEF u, w, r, q

\* Rebasing one event, or none.
LEMMA RebasedOne ==
  ASSUME Len(combined) \in Nat, NEW e \in ItemEvs
  PROVE  Rebased(<<e>>) = <<Moved(e, Len(combined))>> /\ Rebased(<<>>) = <<>>
  BY DEF Rebased, Moved

\* A moved event.
LEMMA MovedEvent ==
  ASSUME NEW t, NEW x \in Nat, NEW r, NEW c \in Nat
  PROVE  Moved(Event(t, x, r), c) = Event(t, c + x, r)
  BY DEF Moved, Event

\* The events of an item are the same wherever it stands, but for the index.
LEMMA StreamedFacts ==
  ASSUME round \in Nat, Len(combined) \in Nat, NEW its \in Seq(Slots), NEW i \in Nat \ {0}
  PROVE  /\ Streamed(its, i, i) \in Seq(ItemEvs)
         /\ Rebased(Streamed(its, i, i)) = Streamed(its, i, Len(combined) + i)
         /\ \A x : Streamed(its, i, x) = <<>> <=> Streamed(its, i, i) = <<>>
<1> DEFINE c == Len(combined)
           A(x) == Added(x, <<round, i>>)
           D(x) == Event("done", x, <<round, i>>)
<1>1. A(i) \in ItemEvs /\ D(i) \in ItemEvs
  BY FrameType DEF Added
<1>2. Moved(A(i), c) = A(c + i) /\ Moved(D(i), c) = D(c + i)
  BY MovedEvent DEF Added
<1>3. \A x : Both(x, <<round, i>>) = <<A(x)>> \o <<D(x)>>
  BY DEF Both, Added
<1> HIDE DEF A, D
<1>4. <<A(i)>> \in Seq(ItemEvs) /\ <<D(i)>> \in Seq(ItemEvs) /\ <<>> \in Seq(ItemEvs)
      /\ <<A(i)>> \o <<D(i)>> \in Seq(ItemEvs)
  BY <1>1
<1>5. Rebased(<<A(i)>>) = <<A(c + i)>> /\ Rebased(<<D(i)>>) = <<D(c + i)>> /\ Rebased(<<>>) = <<>>
  BY <1>1, <1>2, RebasedOne
<1>6. Rebased(<<A(i)>> \o <<D(i)>>) = <<A(c + i)>> \o <<D(c + i)>>
  BY <1>4, <1>5, RebasedJoin
<1>7. \A x : <<A(x)>> # <<>> /\ <<A(x)>> \o <<D(x)>> # <<>>
  OBVIOUS
<1>8. \/ \A x : Streamed(its, i, x) = <<>>
      \/ \A x : Streamed(its, i, x) = <<A(x)>>
      \/ \A x : Streamed(its, i, x) = <<A(x)>> \o <<D(x)>>
  BY <1>3 DEF Streamed, A
<1> QED BY <1>4, <1>5, <1>6, <1>7, <1>8

\* Two sorted sequences are sorted when nothing of the second starts before the first.
LEMMA SortedJoin ==
  ASSUME NEW s \in Seq(Evs), NEW t \in Seq(Evs), Sorted(s), Sorted(t),
         \A m \in 1 .. Len(s), n \in 1 .. Len(t) : Starts(s[m]) /\ Starts(t[n]) => s[m].index <= t[n].index
  PROVE  Sorted(s \o t)
<1> DEFINE u == s \o t
<1>1. Len(u) = Len(s) + Len(t) /\ Len(s) \in Nat /\ Len(t) \in Nat
      /\ (\A n \in 1 .. Len(s) : u[n] = s[n])
      /\ \A n \in 1 .. Len(u) : n > Len(s) => n - Len(s) \in 1 .. Len(t) /\ u[n] = t[n - Len(s)]
  OBVIOUS
<1> HIDE DEF u
<1>2. ASSUME NEW m \in 1 .. Len(u), NEW n \in 1 .. Len(u), m < n, Starts(u[m]), Starts(u[n])
      PROVE  u[m].index <= u[n].index
  <2>1. CASE n <= Len(s)
    <3>1. m \in 1 .. Len(s) /\ n \in 1 .. Len(s)
      BY <1>1, <1>2, <2>1
    <3> QED BY <1>1, <1>2, <3>1 DEF Sorted
  <2>2. CASE n > Len(s) /\ m <= Len(s)
    <3>1. m \in 1 .. Len(s) /\ n - Len(s) \in 1 .. Len(t)
      BY <1>1, <1>2, <2>2
    <3> QED BY <1>1, <1>2, <2>2, <3>1
  <2>3. CASE n > Len(s) /\ m > Len(s)
    <3>1. m - Len(s) \in 1 .. Len(t) /\ n - Len(s) \in 1 .. Len(t) /\ m - Len(s) < n - Len(s)
      BY <1>1, <1>2, <2>3
    <3> QED BY <1>1, <1>2, <2>3, <3>1 DEF Sorted
  <2> QED BY <1>1, <2>1, <2>2, <2>3
<1>3. Sorted(u)
  BY <1>2 DEF Sorted
<1> QED BY <1>3 DEF u

\* Ascending events are sorted.
LEMMA AscendingSorted == \A s : Ascending(s) => Sorted(s)
  BY DEF Ascending, Sorted

\* Rebasing keeps the order.
LEMMA RebasedSorted ==
  ASSUME Len(combined) \in Nat, NEW s \in Seq(ItemEvs), Sorted(s)
  PROVE  Sorted(Rebased(s))
<1> DEFINE r == Rebased(s)
<1>1. Len(r) = Len(s) /\ \A n \in 1 .. Len(s) : r[n].index = Len(combined) + s[n].index /\ r[n].type = s[n].type
  BY RebasedFacts
<1>2. \A n \in 1 .. Len(s) : s[n].index \in Nat
  BY MovedFacts
<1> HIDE DEF r
<1>3. Sorted(r)
  <2> SUFFICES ASSUME NEW m \in 1 .. Len(s), NEW n \in 1 .. Len(s), m < n, Starts(r[m]), Starts(r[n])
               PROVE  r[m].index <= r[n].index
    BY <1>1 DEF Sorted
  <2>1. Starts(s[m]) /\ Starts(s[n])
    BY <1>1 DEF Starts
  <2>2. s[m].index <= s[n].index
    BY <2>1 DEF Sorted
  <2> QED BY <1>1, <1>2, <2>2
<1> QED BY <1>3 DEF r

\* The event of an entry.
LEMMA EntryEvent == \A e \in Entries : e.event \in Evs
  BY DEF Entries

\* What was sent is a sequence of events.
LEMMA SentType == ASSUME Typed PROVE /\ EventsOf(Seen) \in Seq(Evs) /\ EventsOf(channel) \in Seq(Evs)
                                     /\ outbox \in Seq(Evs) /\ Sent \in Seq(Evs)
<1>1. Seen \in Seq(Entries) /\ channel \in Seq(Entries) /\ outbox \in Seq(Evs)
  BY DEF Typed, WorkTyped, PollTyped
<1>2. \A s \in Seq(Entries) : EventsOf(s) \in Seq(Evs)
  <2> SUFFICES ASSUME NEW s \in Seq(Entries) PROVE EventsOf(s) \in Seq(Evs)
    OBVIOUS
  <2>1. \A n \in 1 .. Len(s) : s[n].event \in Evs
    BY EntryEvent
  <2> QED BY <2>1 DEF EventsOf
<1> QED BY <1>1, <1>2 DEF Sent

\* The worker adds what it sends.
LEMMA SentWorker ==
  ASSUME Typed, outbox = <<>>, UNCHANGED <<channel, consumerVars>>, outbox' \in Seq(Evs)
  PROVE  Sent' = Sent \o outbox' /\ Sent \in Seq(Evs) /\ Sent' \in Seq(Evs)
<1>1. Seen' = Seen
  BY PollSame DEF Typed
<1>2. Sent' = (EventsOf(Seen) \o EventsOf(channel)) \o outbox'
  BY <1>1 DEF Sent
<1>3. Sent = (EventsOf(Seen) \o EventsOf(channel)) \o <<>>
  BY DEF Sent
<1>4. EventsOf(Seen) \o EventsOf(channel) \in Seq(Evs)
  BY SentType
<1> DEFINE w == EventsOf(Seen) \o EventsOf(channel)
<1> HIDE DEF w
<1>5. w \in Seq(Evs) /\ Sent' = w \o outbox' /\ Sent = w \o <<>>
  BY <1>2, <1>3, <1>4 DEF w
<1>6. Sent = w
  BY <1>5
<1> QED BY <1>5, <1>6

\* Sending, receiving and ending the stream leave what was sent as it is.
LEMMA EventsAppend ==
  ASSUME NEW S, NEW s \in Seq(S), NEW e
  PROVE  EventsOf(Append(s, e)) = Append(EventsOf(s), e.event)
<1>1. Len(Append(s, e)) = Len(s) + 1 /\ Append(s, e)[Len(s) + 1] = e /\ Len(s) \in Nat
      /\ \A n \in 1 .. Len(s) : Append(s, e)[n] = s[n]
  OBVIOUS
<1> DEFINE t == Append(s, e)
<1> HIDE DEF t
<1>2. EventsOf(t) = [n \in 1 .. Len(s) + 1 |-> IF n = Len(s) + 1 THEN e.event ELSE s[n].event]
  BY <1>1 DEF EventsOf, t
<1>3. Append([n \in 1 .. Len(s) |-> s[n].event], e.event)
        = [n \in 1 .. Len(s) + 1 |-> IF n = Len(s) + 1 THEN e.event ELSE s[n].event]
  BY <1>1
<1> QED BY <1>2, <1>3 DEF EventsOf, t

\* Putting an event into the channel changes nothing of what was sent.
LEMMA SentSend ==
  ASSUME Typed, Send
  PROVE  Sent' = Sent
<1> DEFINE h == Head(outbox)
           t == Tail(outbox)
           c == [event |-> h, number |-> number]
<1>1. outbox \in Seq(Evs) /\ outbox # <<>> /\ outbox' = t /\ channel' = Append(channel, c)
      /\ channel \in Seq(Entries)
  BY DEF Send, Typed, WorkTyped, PollTyped
<1>2. h \in Evs /\ t \in Seq(Evs) /\ outbox = <<h>> \o t
  BY <1>1, HeadTail
<1>3. Seen' = Seen
  BY TypedSend
<1>4. c.event = h
  OBVIOUS
<1> HIDE DEF h, t, c
<1>5. EventsOf(channel') = Append(EventsOf(channel), h)
  BY <1>1, <1>4, EventsAppend
<1> DEFINE a == EventsOf(Seen)
           b == EventsOf(channel)
<1>6. a \in Seq(Evs) /\ b \in Seq(Evs)
  BY SentType
<1> HIDE DEF a, b
<1>7. (a \o Append(b, h)) \o t = (a \o b) \o (<<h>> \o t)
  <2> DEFINE l == (a \o Append(b, h)) \o t
             r == (a \o b) \o (<<h>> \o t)
  <2>1. Append(b, h) = b \o <<h>>
    BY <1>2, <1>6
  <2>2. a \o (b \o <<h>>) = (a \o b) \o <<h>>
    BY <1>2, <1>6
  <2>3. ((a \o b) \o <<h>>) \o t = (a \o b) \o (<<h>> \o t)
    <3>1. a \o b \in Seq(Evs) /\ <<h>> \in Seq(Evs)
      BY <1>2, <1>6
    <3> DEFINE d == a \o b
               g == <<h>>
    <3> HIDE DEF d, g
    <3>2. (d \o g) \o t = d \o (g \o t)
      BY <1>2, <3>1 DEF d, g
    <3> QED BY <3>2 DEF d, g
  <2> QED BY <2>1, <2>2, <2>3
<1>8. Sent' = (a \o Append(b, h)) \o t
  BY <1>1, <1>3, <1>5 DEF Sent, a, b
<1>9. Sent = (a \o b) \o (<<h>> \o t)
  BY <1>2 DEF Sent, a, b
<1> QED BY <1>7, <1>8, <1>9

\* Nor does the client.
LEMMA SentPoll ==
  ASSUME Typed, Ending, Polling
  PROVE  Sent' = Sent
<1>1. outbox' = outbox
  BY DEF Polling, Receive, Join, ChannelDrained, Persist, Yield, Drop
<1>2. CASE Receive
  <2>1. Seen' = Append(Seen, Head(channel)) /\ channel # <<>> /\ channel' = Tail(channel)
        /\ channel \in Seq(Entries) /\ Seen \in Seq(Entries)
    BY <1>2, TypedPoll DEF Receive, Typed, PollTyped
  <2> DEFINE c == Head(channel)
             t == channel'
             a == EventsOf(Seen)
             b == EventsOf(t)
  <2>2. c \in Entries /\ t \in Seq(Entries) /\ channel = <<c>> \o t
    BY <2>1, HeadTail
  <2>3. c.event \in Evs
    BY <2>2 DEF Entries
  <2>4. a \in Seq(Evs) /\ b \in Seq(Evs) /\ outbox \in Seq(Evs)
    <3>1. \A n \in 1 .. Len(t) : t[n].event \in Evs
      BY <2>2, EntryEvent
    <3>2. b \in Seq(Evs)
      BY <2>2, <3>1 DEF EventsOf
    <3> QED BY <3>2, SentType
  <2>5. EventsOf(Seen') = Append(a, c.event)
    BY <2>1, EventsAppend
  <2>6. EventsOf(channel) = <<c.event>> \o b
    <3>1. Len(channel) = Len(t) + 1 /\ channel[1] = c /\ Len(t) \in Nat /\ \A n \in 1 .. Len(t) : t[n] = channel[n + 1]
      BY <2>1, HeadTail
    <3>2. EventsOf(channel) \in Seq(Evs) /\ Len(EventsOf(channel)) = Len(channel)
          /\ \A n \in 1 .. Len(channel) : EventsOf(channel)[n] = channel[n].event
      BY <2>1, SentType DEF EventsOf
    <3>3. Len(b) = Len(t) /\ \A n \in 1 .. Len(t) : b[n] = t[n].event
      BY <2>2 DEF EventsOf
    <3> DEFINE w == <<c.event>> \o b
    <3>4. w \in Seq(Evs) /\ Len(w) = Len(t) + 1 /\ w[1] = c.event /\ \A n \in 1 .. Len(t) : w[n + 1] = b[n]
      <4> HIDE DEF b, c, t
      <4> QED BY <2>3, <2>4, <3>3
    <3> HIDE DEF w, b, c, t
    <3>5. \A n \in 1 .. Len(channel) : EventsOf(channel)[n] = w[n]
      <4> SUFFICES ASSUME NEW n \in 1 .. Len(channel) PROVE EventsOf(channel)[n] = w[n]
        OBVIOUS
      <4>1. CASE n = 1
        BY <3>1, <3>2, <3>4, <4>1
      <4>2. CASE n # 1
        <5>1. n - 1 \in 1 .. Len(t) /\ (n - 1) + 1 = n
          BY <3>1, <4>2
        <5>2. w[n] = b[n - 1] /\ b[n - 1] = t[n - 1].event /\ t[n - 1] = channel[n]
          BY <3>1, <3>3, <3>4, <5>1
        <5> QED BY <3>2, <5>2
      <4> QED BY <4>1, <4>2
    <3>6. EventsOf(channel) = w
      BY <3>1, <3>2, <3>4, <3>5, SeqEqual
    <3> QED BY <3>6 DEF w, b
  <2> HIDE DEF a, b
  <2>7. Append(a, c.event) \o b = a \o (<<c.event>> \o b)
    <3> DEFINE g == <<c.event>>
               f == c.event
    <3>1. f \in Evs
      BY <2>3
    <3> HIDE DEF f
    <3>2. Append(a, f) \o b = a \o (<<f>> \o b)
      BY <2>4, <3>1
    <3> QED BY <3>2 DEF f
  <2>8. Sent' = (Append(a, c.event) \o b) \o outbox
    BY <1>1, <2>5 DEF Sent, a, b
  <2>9. Sent = (a \o (<<c.event>> \o b)) \o outbox
    BY <2>6 DEF Sent, a, b
  <2> QED BY <2>7, <2>8, <2>9
<1>3. CASE ~Receive
  <2>1. Seen' = Seen
    BY <1>3, TypedPoll DEF Polling
  <2>2. channel' = channel
    BY <1>3 DEF Polling, Join, ChannelDrained, Persist, Yield, Drop
  <2> QED BY <1>1, <2>1, <2>2 DEF Sent
<1> QED BY <1>2, <1>3

-----------------------------------------------------------------------------
(* StreamDelivery::accept.                                                 *)

\* In a round every item's events are sent or held back.
Split(sent, held, its) ==
    /\ \A i \in Nat \ {0} : Of(sent, Len(combined) + i) =
            IF i < Boundary(its) THEN Streamed(its, i, Len(combined) + i) ELSE <<>>
    /\ \A i \in 1 .. Len(script) :
            Of(held, i) = IF i < Boundary(its) THEN <<>> ELSE Streamed(its, i, i)

\* What an item gets when it advances. The boundary moves back only over items that have
\* no events yet, and forward only from the item that advances.
Advances(its, frames) ==
    /\ \A n \in 1 .. Len(frames) : frames[n].index \in 1 .. Len(script)
    /\ \A j \in 1 .. Len(script) : Streamed(its, j, j) = Streamed(items, j, j) \o Of(frames, j)
    /\ \A j \in 1 .. Len(script) :
            Boundary(its) <= j /\ j < Boundary(items) => Streamed(its, j, j) = <<>>
    /\ \A j \in 1 .. Len(script) :
            Boundary(items) <= j /\ j < Boundary(its) => Of(frames, j) = <<>> \/ Streamed(items, j, j) = <<>>
    /\ \A n \in 1 .. Len(frames), j \in 1 .. Len(script) :
            Starts(frames[n]) /\ frames[n].index < Boundary(its) /\ Streamed(items, j, j) # <<>> =>
                /\ j < Boundary(items) => j <= frames[n].index
                /\ Boundary(items) <= j /\ j < Boundary(its) => frames[n].index <= j

\* The events of an index after sorting.
LEMMA ByIndexAt ==
  ASSUME script \in Seq(ItemKinds), NEW fs \in Seq(ItemEvs), NEW is, NEW j \in 1 .. Len(script)
  PROVE  Of(ByIndex(fs, is), j) = IF j \in is THEN Of(fs, j) ELSE <<>>
<1>1. j \in Nat
  OBVIOUS
<1> QED BY <1>1, ByIndexFacts

\* Nothing before or behind.
LEMMA ConcatEmpty ==
  ASSUME NEW S, NEW s \in Seq(S), NEW t \in Seq(S)
  PROVE  /\ s \o <<>> = s /\ <<>> \o s = s
         /\ s \o t = <<>> => s = <<>> /\ t = <<>>
<1>1. s \o <<>> = s /\ <<>> \o s = s
  OBVIOUS
<1>2. ASSUME s \o t = <<>> PROVE s = <<>> /\ t = <<>>
  <2>1. Len(s \o t) = Len(s) + Len(t) /\ Len(s) \in Nat /\ Len(t) \in Nat /\ Len(<<>>) = 0
    OBVIOUS
  <2>2. Len(s) = 0 /\ Len(t) = 0
    BY <1>2, <2>1
  <2> QED BY <2>2
<1> QED BY <1>1, <1>2

\* StreamDelivery::accept keeps the split: what is below the new boundary was sent, what is not
\* is held back, and what was sent is sorted.
LEMMA AcceptContent ==
  ASSUME Typed, NEW sent \in Seq(Evs), Split(sent, deferred, items), Sorted(sent),
         NEW its \in Seq(Slots), Len(its) <= Len(script), NEW frames \in Seq(ItemEvs),
         Accept(its, frames), Advances(its, frames)
  PROVE  /\ outbox' \in Seq(ItemEvs)
         /\ \A n \in 1 .. Len(outbox') : outbox'[n].index > Len(combined)
         /\ \A i \in Nat \ {0} : Of(sent \o outbox', Len(combined) + i) =
                IF i < Boundary(its) THEN Streamed(its, i, Len(combined) + i) ELSE <<>>
         /\ \A i \in 1 .. Len(script) :
                Of(deferred', i) = IF i < Boundary(its) THEN <<>> ELSE Streamed(its, i, i)
         /\ Sorted(sent \o outbox')
<1> DEFINE b == Boundary(items)
           d == Boundary(its)
           c == Len(combined)
           L == Len(script)
           below == 1 .. d - 1
           from == d .. L
           fb == ByIndex(frames, below)
           held == deferred \o ByIndex(frames, from)
           hb == IF d # b THEN ByIndex(held, below) ELSE <<>>
           out == fb \o hb
           e(j) == Streamed(items, j, j)
           f(j) == Streamed(its, j, j)
           w(j) == Of(frames, j)
<1>1. /\ script \in Seq(ItemKinds) /\ L \in Nat /\ items \in Seq(Slots) /\ Len(items) <= L
      /\ deferred \in Seq(ItemEvs) /\ c \in Nat /\ round \in Nat
  BY ConstantsAssumption DEF Typed, WorkTyped
<1>2. b \in Nat \ {0} /\ d \in Nat \ {0} /\ b <= L + 1 /\ d <= L + 1
  BY <1>1, BoundaryFacts
<1>3. /\ outbox' = Rebased(out)
      /\ deferred' = IF d # b THEN ByIndex(held, from) ELSE held
  BY DEF Accept
<1>4. ByIndex(frames, from) \in Seq(ItemEvs) /\ held \in Seq(ItemEvs)
  <2>1. ByIndex(frames, from) \in Seq(ItemEvs)
    BY <1>1, ByIndexFacts
  <2> QED BY <1>1, <2>1
<1>5. fb \in Seq(ItemEvs) /\ hb \in Seq(ItemEvs) /\ out \in Seq(ItemEvs)
  <2>1. fb \in Seq(ItemEvs)
    BY <1>1, ByIndexFacts
  <2>2. ByIndex(held, below) \in Seq(ItemEvs)
    BY <1>1, <1>4, ByIndexFacts
  <2>3. hb \in Seq(ItemEvs)
    BY <2>2
  <2> HIDE DEF fb, hb
  <2> QED BY <2>1, <2>3
<1>a. \A j \in 1 .. L : (j \in below <=> j < d) /\ (j \in from <=> ~(j < d))
  BY <1>1, <1>2
<1>b. /\ fb = ByIndex(frames, below) /\ held = deferred \o ByIndex(frames, from) /\ out = fb \o hb
      /\ d # b => hb = ByIndex(held, below)
      /\ d = b => hb = <<>>
  <2>1. fb = ByIndex(frames, below)
    OBVIOUS
  <2>2. held = deferred \o ByIndex(frames, from)
    OBVIOUS
  <2>3. out = fb \o hb
    OBVIOUS
  <2>4. hb = IF d # b THEN ByIndex(held, below) ELSE <<>>
    BY DEF hb
  <2> HIDE DEF fb, hb, held, out
  <2> QED BY <2>1, <2>2, <2>3, <2>4
<1>d. ASSUME NEW m \in 1 .. Len(ByIndex(frames, below))
      PROVE  \E q \in 1 .. Len(frames) : /\ ByIndex(frames, below)[m] = frames[q]
                                        /\ frames[q].index \in below /\ frames[q].index \in 1 .. L
  <2> HIDE DEF below
  <2> QED BY <1>1, ByIndexOrigin
<1>e. ASSUME NEW m \in 1 .. Len(ByIndex(held, below))
      PROVE  \E q \in 1 .. Len(held) : /\ ByIndex(held, below)[m] = held[q]
                                      /\ held[q].index \in below /\ held[q].index \in 1 .. L
  <2> HIDE DEF below, held
  <2> QED BY <1>1, <1>4, ByIndexOrigin
<1>c. \A i \in below : i < d
  BY <1>1, <1>2
<1> HIDE DEF b, d, below, from, fb, held, hb, out
<1>6. \A j \in 1 .. L : /\ e(j) \in Seq(ItemEvs) /\ f(j) \in Seq(ItemEvs) /\ w(j) \in Seq(ItemEvs)
                        /\ f(j) = e(j) \o w(j)
  <2>1. \A j \in 1 .. L : e(j) \in Seq(ItemEvs) /\ f(j) \in Seq(ItemEvs)
    BY <1>1, StreamedFacts
  <2>2. \A j \in 1 .. L : w(j) \in Seq(ItemEvs)
    BY <1>1, OfType
  <2> QED BY <2>1, <2>2 DEF Advances
<1>7. \A j \in 1 .. L : d <= j /\ j < b => f(j) = <<>>
  BY DEF Advances, b, d
<1>8. \A j \in 1 .. L : b <= j /\ j < d => w(j) = <<>> \/ e(j) = <<>>
  BY DEF Advances, b, d
<1>9. \A j \in 1 .. L : Of(deferred, j) = IF j < b THEN <<>> ELSE e(j)
  BY DEF Split, b, d
<1>10. ASSUME NEW j \in 1 .. L PROVE Of(fb, j) = IF j < d THEN w(j) ELSE <<>>
  <2>1. Of(ByIndex(frames, below), j) = IF j \in below THEN w(j) ELSE <<>>
    BY <1>1, ByIndexAt
  <2> QED BY <1>a, <1>b, <2>1
<1>11. ASSUME NEW j \in 1 .. L
       PROVE  Of(held, j) = (IF j < b THEN <<>> ELSE e(j)) \o (IF j < d THEN <<>> ELSE w(j))
  <2> DEFINE g == ByIndex(frames, from)
  <2>1. Of(g, j) = IF j \in from THEN w(j) ELSE <<>>
    BY <1>1, ByIndexAt
  <2>2. g \in Seq(ItemEvs) /\ deferred \in Seq(ItemEvs) /\ j \in Nat
    BY <1>1, <1>4
  <2>3. held = deferred \o g
    BY <1>b
  <2> HIDE DEF g
  <2>4. Of(held, j) = Of(deferred, j) \o Of(g, j)
    BY <2>2, <2>3, OfConcat
  <2>5. Of(g, j) = IF j < d THEN <<>> ELSE w(j)
    BY <1>a, <2>1
  <2>6. Of(deferred, j) = IF j < b THEN <<>> ELSE e(j)
    BY <1>9
  <2> QED BY <2>4, <2>5, <2>6
<1>12. ASSUME NEW j \in 1 .. L PROVE Of(ByIndex(held, below), j) = IF j < d THEN Of(held, j) ELSE <<>>
  <2>1. Of(ByIndex(held, below), j) = IF j \in below THEN Of(held, j) ELSE <<>>
    BY <1>1, <1>4, ByIndexAt
  <2> QED BY <1>a, <2>1
<1>13. ASSUME NEW j \in 1 .. L PROVE Of(ByIndex(held, from), j) = IF j < d THEN <<>> ELSE Of(held, j)
  <2>1. Of(ByIndex(held, from), j) = IF j \in from THEN Of(held, j) ELSE <<>>
    BY <1>1, <1>4, ByIndexAt
  <2> QED BY <1>a, <2>1
\* The parts of what is sent.
<1>14. ASSUME NEW j \in 1 .. L
       PROVE  Of(out, j) = IF j < d THEN w(j) \o (IF d # b /\ b <= j THEN e(j) ELSE <<>>) ELSE <<>>
  <2>1. Of(out, j) = Of(fb, j) \o Of(hb, j)
    <3>1. j \in Nat
      OBVIOUS
    <3> QED BY <1>5, <1>b, <3>1, OfConcat
  <2>2. Of(hb, j) = IF d # b /\ j < d THEN Of(held, j) ELSE <<>>
    <3>1. CASE d # b
      BY <1>b, <1>12, <3>1
    <3>2. CASE d = b
      <4>1. hb = <<>>
        BY <1>b, <3>2
      <4> QED BY <3>2, <4>1, OfEmpty
    <3> QED BY <3>1, <3>2
  <2>3. w(j) \in Seq(ItemEvs) /\ e(j) \in Seq(ItemEvs)
    BY <1>6
  <2> DEFINE v == w(j)
             u == e(j)
  <2>4. Of(fb, j) = IF j < d THEN v ELSE <<>>
    BY <1>10
  <2>5. j < d => Of(held, j) = (IF j < b THEN <<>> ELSE u) \o <<>>
    BY <1>11
  <2>6. v \in Seq(ItemEvs) /\ u \in Seq(ItemEvs)
    BY <2>3
  <2>7. Of(out, j) = IF j < d THEN v \o (IF d # b /\ b <= j THEN u ELSE <<>>) ELSE <<>>
    <3> HIDE DEF v, u, out, hb, fb, held
    <3>1. CASE ~(j < d)
      <4>1. Of(out, j) = <<>> \o <<>>
        BY <2>1, <2>2, <2>4, <3>1
      <4> QED BY <3>1, <4>1
    <3>2. CASE j < d /\ d # b /\ b <= j
      <4>1. Of(fb, j) = v
        BY <2>4, <3>2
      <4>2. ~(j < b)
        BY <1>2, <3>2
      <4>3. Of(hb, j) = u \o <<>>
        BY <2>2, <2>5, <3>2, <4>2
      <4>4. u \o <<>> = u
        BY <2>6
      <4> QED BY <2>1, <3>2, <4>1, <4>3, <4>4
    <3>3. CASE j < d /\ ~(d # b /\ b <= j)
      <4>1. Of(hb, j) = <<>> \/ Of(hb, j) = <<>> \o <<>>
        BY <1>2, <2>2, <2>5, <3>3
      <4>2. Of(hb, j) = <<>>
        BY <4>1
      <4>3. v \o <<>> = v /\ Of(fb, j) = v
        BY <2>4, <2>6, <3>3
      <4>4. Of(out, j) = v
        BY <2>1, <4>2, <4>3
      <4> QED BY <3>3, <4>3, <4>4
    <3> QED BY <3>1, <3>2, <3>3
  <2> QED BY <2>7
<1>15. /\ outbox' \in Seq(ItemEvs)
       /\ \A n \in 1 .. Len(outbox') : outbox'[n].index > c
       /\ \A j \in Nat : Of(outbox', c + j) = Rebased(Of(out, j))
       /\ Len(outbox') = Len(out)
       /\ \A n \in 1 .. Len(out) : outbox'[n].index = c + out[n].index /\ outbox'[n].type = out[n].type
  <2> HIDE DEF out
  <2>1. /\ outbox' \in Seq(ItemEvs) /\ Len(outbox') = Len(out)
        /\ \A n \in 1 .. Len(out) : outbox'[n].index = c + out[n].index /\ outbox'[n].type = out[n].type
    BY <1>1, <1>3, <1>5, RebasedFacts
  <2>2. \A n \in 1 .. Len(out) : out[n].index \in Nat \ {0}
    <3> SUFFICES ASSUME NEW n \in 1 .. Len(out) PROVE out[n].index \in Nat \ {0}
      OBVIOUS
    <3>1. out[n] \in ItemEvs
      BY <1>5
    <3> QED BY <3>1 DEF ItemEvs
  <2>3. \A j \in Nat : Of(outbox', c + j) = Rebased(Of(out, j))
    <3> SUFFICES ASSUME NEW j \in Nat PROVE Of(Rebased(out), c + j) = Rebased(Of(out, j))
      BY <1>3
    <3>1. Len(combined) \in Nat
      BY <1>1
    <3> QED BY <1>5, <3>1, OfRebased
  <2>4. ASSUME NEW n \in 1 .. Len(out) PROVE c + out[n].index > c
    <3>1. out[n].index \in Nat \ {0} /\ c \in Nat
      BY <1>1, <2>2
    <3> HIDE DEF c
    <3> QED BY <3>1
  <2> HIDE DEF c
  <2> QED BY <2>1, <2>3, <2>4
<1>16. ASSUME NEW j \in Nat \ {0}
       PROVE  Of(sent \o outbox', c + j) = IF j < d THEN Streamed(its, j, c + j) ELSE <<>>
  <2>1. outbox' \in Seq(Evs) /\ c + j \in Nat
    BY <1>1, <1>15, ItemEvsEvs
  <2>2. Of(sent \o outbox', c + j) = Of(sent, c + j) \o Rebased(Of(out, j))
    <3>1. Of(sent \o outbox', c + j) = Of(sent, c + j) \o Of(outbox', c + j)
      BY <2>1, OfConcat
    <3> QED BY <1>15, <3>1
  <2>3. Of(sent, c + j) = IF j < b THEN Streamed(items, j, c + j) ELSE <<>>
    BY DEF Split, b, d
  <2>4. CASE j \in 1 .. L
    <3> DEFINE u == e(j)
               v == w(j)
               g == f(j)
               uu == Streamed(items, j, c + j)
               gg == Streamed(its, j, c + j)
               vv == Rebased(v)
    <3>1. /\ u \in Seq(ItemEvs) /\ v \in Seq(ItemEvs) /\ g = u \o v /\ g \in Seq(ItemEvs)
      BY <1>6, <2>4
    <3>2. uu = Rebased(u) /\ gg = Rebased(g)
      BY <1>1, StreamedFacts
    <3>3. d <= j /\ j < b => g = <<>>
      BY <1>7, <2>4
    <3>4. b <= j /\ j < d => v = <<>> \/ u = <<>>
      BY <1>8, <2>4
    <3>5. Of(out, j) = IF j < d THEN v \o (IF d # b /\ b <= j THEN u ELSE <<>>) ELSE <<>>
      BY <1>14, <2>4
    <3>6. Of(sent, c + j) = IF j < b THEN uu ELSE <<>>
      BY <2>3
    <3> HIDE DEF u, v, g, uu, gg, out, b, d
    <3>7. gg = uu \o vv /\ vv \in Seq(ItemEvs) /\ uu \in Seq(ItemEvs)
      BY <1>1, <3>1, <3>2, RebasedJoin, RebasedFacts
    <3>8. Rebased(<<>>) = <<>>
      BY DEF Rebased
    <3> HIDE DEF vv
    <3>9. CASE j < d /\ j < b
      <4>0. ~(d # b /\ b <= j)
        BY <1>2, <3>9
      <4>1. Of(out, j) = v \o <<>>
        BY <3>5, <3>9, <4>0
      <4>2. v \o <<>> = v
        BY <3>1
      <4>3. Rebased(Of(out, j)) = vv /\ Of(sent, c + j) = uu
        BY <3>6, <3>9, <4>1, <4>2 DEF vv
      <4> QED BY <2>2, <3>7, <3>9, <4>3 DEF gg, d
    <3>10. CASE j < d /\ ~(j < b)
      <4>1. Of(out, j) = v \o u /\ Of(sent, c + j) = <<>>
        BY <1>2, <3>5, <3>6, <3>10
      <4>2. v = <<>> \/ u = <<>>
        BY <1>2, <3>4, <3>10
      <4>3. v \o u = g
        BY <3>1, <4>2
      <4>4. Rebased(Of(out, j)) = gg
        BY <3>2, <4>1, <4>3
      <4>5. <<>> \o gg = gg
        BY <3>7
      <4> QED BY <2>2, <3>10, <4>1, <4>4, <4>5 DEF gg, d
    <3>11. CASE ~(j < d)
      <4>1. Rebased(Of(out, j)) = <<>>
        BY <3>5, <3>8, <3>11
      <4>2. Of(sent, c + j) = <<>>
        <5>1. CASE j < b
          <6>1. g = <<>>
            BY <1>2, <3>3, <3>11, <5>1
          <6>2. u = <<>>
            BY <3>1, <6>1, ConcatEmpty
          <6> QED BY <3>2, <3>6, <3>8, <5>1, <6>2
        <5> QED BY <3>6, <5>1
      <4>3. Of(sent \o outbox', c + j) = <<>>
        BY <2>2, <4>1, <4>2
      <4> QED BY <3>11, <4>3 DEF d
    <3> QED BY <3>9, <3>10, <3>11
  <2>5. CASE j \notin 1 .. L
    <3>1. j > L
      BY <1>1, <2>5
    <3>2. \A i \in Nat \ {0} : i > L => Streamed(items, i, c + i) = <<>> /\ Streamed(its, i, c + i) = <<>>
      BY <1>1 DEF Streamed
    <3>3. Of(out, j) = <<>>
      <4>1. \A n \in 1 .. Len(fb) : fb[n].index # j
        <5>1. \A n \in 1 .. Len(ByIndex(frames, below)) : ByIndex(frames, below)[n].index \in 1 .. L
          BY <1>1, ByIndexFacts
        <5> QED BY <1>1, <1>b, <3>1, <5>1
      <4>2. \A n \in 1 .. Len(hb) : hb[n].index # j
        <5>1. CASE d # b
          <6>1. \A n \in 1 .. Len(ByIndex(held, below)) : ByIndex(held, below)[n].index \in 1 .. L
            BY <1>1, <1>4, ByIndexFacts
          <6> QED BY <1>1, <1>b, <3>1, <5>1, <6>1
        <5>2. CASE d = b
          BY <1>b, <5>2
        <5> QED BY <5>1, <5>2
      <4>3. Of(fb, j) = <<>> /\ Of(hb, j) = <<>>
        BY <1>5, <4>1, <4>2, OfNone
      <4>4. Of(fb \o hb, j) = Of(fb, j) \o Of(hb, j)
        BY <1>5, OfConcat
      <4> QED BY <1>b, <4>3, <4>4
    <3>4. Of(sent, c + j) = <<>> /\ Streamed(its, j, c + j) = <<>>
      BY <2>3, <3>1, <3>2
    <3>5. Rebased(<<>>) = <<>>
      BY DEF Rebased
    <3> HIDE DEF out
    <3> QED BY <2>2, <3>3, <3>4, <3>5
  <2> QED BY <2>4, <2>5
<1>17. ASSUME NEW j \in 1 .. L
       PROVE  Of(deferred', j) = IF j < d THEN <<>> ELSE f(j)
  <2> DEFINE u == e(j)
             v == w(j)
             g == f(j)
  <2>1. /\ u \in Seq(ItemEvs) /\ v \in Seq(ItemEvs) /\ g = u \o v
    BY <1>6
  <2>2. Of(held, j) = (IF j < b THEN <<>> ELSE u) \o (IF j < d THEN <<>> ELSE v)
    BY <1>11
  <2>3. d <= j /\ j < b => g = <<>>
    BY <1>7
  <2> HIDE DEF u, v, g
  <2>4. CASE d # b
    <3>1. Of(deferred', j) = IF j < d THEN <<>> ELSE Of(held, j)
      BY <1>3, <1>13, <2>4
    <3>2. CASE ~(j < d)
      <4>1. CASE j < b
        <5>1. g = <<>>
          BY <1>2, <2>3, <3>2, <4>1
        <5>2. u = <<>> /\ v = <<>>
          BY <2>1, <5>1, ConcatEmpty
        <5> HIDE DEF held, d, b
        <5>3. Of(held, j) = <<>> \o <<>>
          BY <2>2, <3>2, <4>1, <5>2
        <5> QED BY <3>1, <3>2, <5>1, <5>3 DEF g, d
      <4>2. CASE ~(j < b)
        <5> HIDE DEF held, d, b
        <5>1. Of(held, j) = g
          BY <2>1, <2>2, <3>2, <4>2
        <5> QED BY <3>1, <3>2, <5>1 DEF g, d
      <4> QED BY <4>1, <4>2
    <3> QED BY <3>1, <3>2 DEF g
  <2>5. CASE d = b
    <3>1. deferred' = held
      BY <1>3, <2>5
    <3> HIDE DEF held, d, b
    <3>2. Of(held, j) = IF j < d THEN <<>> \o <<>> ELSE u \o v
      BY <2>2, <2>5
    <3>3. Of(held, j) = IF j < d THEN <<>> ELSE g
      BY <2>1, <3>2
    <3> QED BY <3>1, <3>3 DEF g, d
  <2> QED BY <2>4, <2>5
\* The order of the items.
<1>18. Sorted(out)
  <2>1. Sorted(fb) /\ Sorted(hb)
    <3>1. Sorted(fb)
      BY <1>1, <1>b, ByIndexFacts, AscendingSorted
    <3>2. Sorted(ByIndex(held, below))
      BY <1>1, <1>4, ByIndexFacts, AscendingSorted
    <3>3. Sorted(<<>>)
      BY DEF Sorted
    <3> QED BY <1>b, <3>1, <3>2, <3>3
  <2>2. ASSUME NEW m \in 1 .. Len(fb), NEW n \in 1 .. Len(hb), Starts(fb[m]), Starts(hb[n])
        PROVE  fb[m].index <= hb[n].index
    <3>1. PICK q \in 1 .. Len(frames) : fb[m] = frames[q] /\ frames[q].index \in below
      BY <1>b, <1>d
    <3>2. d # b
      <4>1. ASSUME d = b PROVE FALSE
        <5>1. hb = <<>>
          BY <1>b, <4>1
        <5> QED BY <5>1
      <4> QED BY <4>1
    <3>3. hb = ByIndex(held, below) /\ n \in 1 .. Len(ByIndex(held, below))
      BY <1>b, <3>2
    <3>4. PICK k \in 1 .. Len(held) : hb[n] = held[k] /\ held[k].index \in below /\ held[k].index \in 1 .. L
      BY <1>e, <3>3
    <3> DEFINE j == held[k].index
    <3>5. Of(held, j) # <<>> /\ j \in 1 .. L /\ j < d
      <4>1. j \in Nat /\ j < d
        <5>1. j \in below /\ j \in 1 .. L
          BY <3>4
        <5> HIDE DEF j
        <5> QED BY <1>1, <1>c, <5>1
      <4> QED BY <1>4, <3>4, <4>1, OfFound
    <3>6. b <= j /\ e(j) # <<>>
      <4>1. Of(held, j) = (IF j < b THEN <<>> ELSE e(j)) \o <<>>
        BY <1>11, <3>5
      <4> HIDE DEF e
      <4>2. CASE j < b
        <5>1. Of(held, j) = <<>> \o <<>>
          BY <4>1, <4>2
        <5> QED BY <3>5, <5>1
      <4>3. CASE ~(j < b)
        <5>1. Of(held, j) = e(j) \o <<>>
          BY <4>1, <4>3
        <5>2. <<>> \o <<>> = <<>>
          OBVIOUS
        <5>3. e(j) # <<>>
          BY <3>5, <5>1, <5>2
        <5>4. b <= j
          <6>1. j \in Nat
            BY <1>1, <3>5
          <6> HIDE DEF j
          <6> QED BY <1>2, <4>3, <6>1
        <5> QED BY <5>3, <5>4
      <4> QED BY <4>2, <4>3
    <3>7. frames[q].index < d /\ Starts(frames[q])
      BY <1>c, <2>2, <3>1
    <3>8. frames[q].index <= j
      BY <3>5, <3>6, <3>7 DEF Advances, b, d
    <3> QED BY <3>1, <3>4, <3>8
  <2>3. fb \in Seq(Evs) /\ hb \in Seq(Evs)
    BY <1>5, ItemEvsEvs
  <2> QED BY <1>b, <2>1, <2>2, <2>3, SortedJoin
<1>19. Sorted(outbox')
  <2> HIDE DEF out
  <2> QED BY <1>1, <1>3, <1>5, <1>18, RebasedSorted
<1>20. ASSUME NEW m \in 1 .. Len(sent), NEW n \in 1 .. Len(outbox'), Starts(sent[m]), Starts(outbox'[n])
       PROVE  sent[m].index <= outbox'[n].index
  <2> DEFINE x == sent[m].index
             k == out[n].index
  <2>1. n \in 1 .. Len(out) /\ outbox'[n].index = c + k /\ Starts(out[n])
    BY <1>15, <1>20 DEF Starts
  <2>2. x \in Nat /\ Of(sent, x) # <<>>
    <3>1. x \in Nat
      BY EvsIndex
    <3> QED BY <3>1, OfFound
  <2>3. k \in 1 .. L /\ k < d /\
        \/ \E q \in 1 .. Len(frames) : out[n] = frames[q]
        \/ b <= k
    <3>1. CASE n \in 1 .. Len(fb)
      <4>1. out[n] = fb[n]
        BY <1>5, <1>b, <3>1
      <4>2. PICK q \in 1 .. Len(frames) : fb[n] = frames[q] /\ frames[q].index \in below /\ frames[q].index \in 1 .. L
        BY <1>b, <1>d, <3>1
      <4>3. k = frames[q].index
        BY <4>1, <4>2
      <4> HIDE DEF k
      <4> QED BY <1>c, <4>1, <4>2, <4>3
    <3>2. CASE n \notin 1 .. Len(fb)
      <4>1. n - Len(fb) \in 1 .. Len(hb) /\ out[n] = hb[n - Len(fb)]
        BY <1>5, <1>b, <2>1, <3>2
      <4> DEFINE p == n - Len(fb)
      <4>2. d # b
        <5>1. ASSUME d = b PROVE FALSE
          <6>1. hb = <<>> /\ p \in 1 .. Len(hb)
            BY <1>b, <4>1, <5>1
          <6> QED BY <6>1
        <5> QED BY <5>1
      <4>3. hb = ByIndex(held, below) /\ p \in 1 .. Len(ByIndex(held, below))
        BY <1>b, <4>1, <4>2
      <4>4. PICK y \in 1 .. Len(held) : hb[p] = held[y] /\ held[y].index \in below /\ held[y].index \in 1 .. L
        <5> HIDE DEF p
        <5> QED BY <1>e, <4>3
      <4>5. k = held[y].index
        BY <4>1, <4>4
      <4>6. k \in 1 .. L /\ k < d
        <5> HIDE DEF k
        <5> QED BY <1>c, <4>4, <4>5
      <4>7. Of(held, k) # <<>>
        <5> HIDE DEF k, held
        <5>1. held[y].index \in Nat /\ Of(held, held[y].index) # <<>>
          BY <1>1, <1>4, <4>5, <4>6, OfFound
        <5> QED BY <4>5, <5>1
      <4>8. b <= k
        <5>1. Of(held, k) = (IF k < b THEN <<>> ELSE e(k)) \o <<>>
          BY <1>11, <4>6
        <5>2. ASSUME k < b PROVE FALSE
          <6>1. Of(held, k) = <<>> \o <<>>
            BY <5>1, <5>2
          <6> HIDE DEF held, k
          <6> QED BY <4>7, <6>1
        <5> HIDE DEF k
        <5> QED BY <1>1, <1>2, <4>6, <5>2
      <4> QED BY <4>6, <4>8
    <3> QED BY <3>1, <3>2
  <2>4. CASE x <= c
    <3> HIDE DEF x, k, out
    <3>1. c <= c + k
      BY <1>1, <2>3
    <3> QED BY <1>1, <2>1, <2>2, <2>3, <2>4, <3>1 DEF x
  <2>5. CASE x > c
    <3> DEFINE j == x - c
    <3>1. j \in Nat \ {0} /\ x = c + j
      BY <1>1, <2>2, <2>5
    <3>2. j < b /\ Streamed(items, j, c + j) # <<>>
      <4>1. Of(sent, c + j) = IF j < b THEN Streamed(items, j, c + j) ELSE <<>>
        <5> HIDE DEF j
        <5> QED BY <3>1 DEF Split, b
      <4>2. Of(sent, c + j) # <<>>
        BY <2>2, <3>1
      <4> HIDE DEF j
      <4> QED BY <4>1, <4>2
    <3>3. e(j) # <<>> /\ j \in 1 .. L
      <4> HIDE DEF j
      <4>1. e(j) # <<>>
        BY <1>1, <3>1, <3>2, StreamedFacts
      <4> QED BY <1>1, <1>2, <3>1, <3>2, <4>1
    <3>4. j <= k
      <4>1. CASE b <= k
        <5> HIDE DEF j, k
        <5> QED BY <1>1, <1>2, <2>3, <3>1, <3>2, <4>1
      <4>2. CASE \E q \in 1 .. Len(frames) : out[n] = frames[q]
        <5>1. PICK q \in 1 .. Len(frames) : out[n] = frames[q]
          BY <4>2
        <5>2. Starts(frames[q]) /\ frames[q].index = k /\ frames[q].index < d
          BY <2>1, <2>3, <5>1
        <5>3. j <= frames[q].index
          <6> HIDE DEF j
          <6> QED BY <3>2, <3>3, <5>2 DEF Advances, b, d
        <5> QED BY <5>2, <5>3
      <4> QED BY <2>3, <4>1, <4>2
    <3> HIDE DEF j, k, out
    <3> QED BY <1>1, <2>1, <2>3, <3>1, <3>4
  <2> QED BY <1>1, <2>2, <2>4, <2>5
<1>21. Sorted(sent \o outbox')
  BY <1>15, <1>19, <1>20, ItemEvsEvs, SortedJoin
<1> QED BY <1>15, <1>16, <1>17, <1>21 DEF d

-----------------------------------------------------------------------------
(* Items advance.                                                          *)

Bad(its, j) == j \in 1 .. Len(its) /\ (its[j].state = "unnamed" \/ its[j].kind \in GatewayKinds)

\* The boundary is the first item that is hidden or not named.
LEMMA BoundaryBad ==
  ASSUME NEW its \in Seq(Slots), script \in Seq(ItemKinds)
  PROVE  /\ Boundary(its) \in Nat \ {0} /\ Boundary(its) <= Len(script) + 1
         /\ \A j \in Nat : Bad(its, j) => Boundary(its) <= j
         /\ Boundary(its) = Len(script) + 1 \/ Bad(its, Boundary(its))
<1> DEFINE b == Boundary(its)
<1>1. /\ b \in Nat \ {0} /\ b <= Len(script) + 1
      /\ \A i \in 1 .. Len(its) : i < b => its[i].state # "unnamed" /\ ~IsHidden(its[i])
      /\ b = Len(script) + 1 \/
            /\ b \in 1 .. Len(its)
            /\ its[b].state = "unnamed" \/ IsHidden(its[b])
  BY BoundaryFacts
<1> HIDE DEF b
<1>2. ASSUME NEW j \in Nat, Bad(its, j) PROVE b <= j
  <2>1. j \in 1 .. Len(its) /\ (its[j].state = "unnamed" \/ IsHidden(its[j]))
    BY <1>2 DEF Bad, IsHidden
  <2>2. ~(j < b)
    BY <1>1, <2>1 DEF IsHidden
  <2> QED BY <1>1, <2>2
<1>3. b = Len(script) + 1 \/ Bad(its, b)
  BY <1>1 DEF Bad, IsHidden
<1> QED BY <1>1, <1>2, <1>3 DEF b

\* The fields of the event of an item.
LEMMA FrameIndex == \A t, i : /\ ItemFrame(t, i).index = i /\ ItemFrame(t, i).type = t
                              /\ ItemFrame(t, i) = Event(t, i, <<round, i>>)
  BY DEF ItemFrame, Event

\* A new item advances.
LEMMA AddItemAdvances ==
  ASSUME Typed, NEW its \in Seq(Slots), NEW frames \in Seq(ItemEvs),
         Len(its) <= Len(script),
         Len(its) = Len(items) + 1, \A i \in 1 .. Len(items) : its[i] = items[i],
         \/ its[Len(its)].state = "open" /\ its[Len(its)].kind \notin GatewayKinds
            /\ frames = <<ItemFrame("added", Len(its))>>
         \/ its[Len(its)].state \in {"open", "unnamed"} /\ frames = <<>>
            /\ (its[Len(its)].state = "unnamed" \/ its[Len(its)].kind \in GatewayKinds)
  PROVE  Advances(its, frames)
<1> DEFINE a == Len(its)
           L == Len(script)
           b == Boundary(items)
           d == Boundary(its)
           A == ItemFrame("added", a)
<1>1. /\ script \in Seq(ItemKinds) /\ items \in Seq(Slots) /\ L \in Nat /\ Len(items) \in Nat /\ a \in 1 .. L
      /\ a = Len(items) + 1
  BY DEF Typed, WorkTyped
<1>2. /\ b \in Nat \ {0} /\ b <= L + 1 /\ (b = L + 1 \/ Bad(items, b))
      /\ d \in Nat \ {0} /\ d <= L + 1 /\ (d = L + 1 \/ Bad(its, d))
      /\ (\A j \in Nat : Bad(items, j) => b <= j)
      /\ (\A j \in Nat : Bad(its, j) => d <= j)
  BY <1>1, BoundaryBad
<1>3. \A j \in Nat : j # a => (Bad(its, j) <=> Bad(items, j))
  BY <1>1 DEF Bad
<1>4. \A j \in Nat : j > Len(items) => ~Bad(items, j)
  BY <1>1 DEF Bad
<1>f. A.index = a /\ A = Added(a, <<round, a>>) /\ A \in ItemEvs
  BY <1>1, FrameItem, FrameIndex DEF Added
<1>5. \A j \in Nat \ {0} : j # a => Streamed(its, j, j) = Streamed(items, j, j)
  <2> SUFFICES ASSUME NEW j \in Nat \ {0}, j # a PROVE Streamed(its, j, j) = Streamed(items, j, j)
    OBVIOUS
  <2>1. CASE j \in 1 .. Len(items)
    <3>1. ~(j > Len(its)) /\ ~(j > Len(items)) /\ its[j] = items[j]
      BY <1>1, <2>1
    <3> QED BY <3>1 DEF Streamed
  <2>2. CASE j > Len(items)
    <3>1. j > Len(its)
      BY <1>1, <2>2
    <3> QED BY <2>2, <3>1 DEF Streamed
  <2> QED BY <1>1, <2>1, <2>2
<1>6. Streamed(items, a, a) = <<>> /\ \A j \in Nat : j > Len(items) => Streamed(items, j, j) = <<>>
  BY <1>1 DEF Streamed
<1>7. CASE its[a].state = "open" /\ its[a].kind \notin GatewayKinds /\ frames = <<A>>
  <2>1. ~Bad(its, a)
    BY <1>7 DEF Bad
  <2>2. Streamed(its, a, a) = <<A>>
    <3>1. a \in Nat /\ ~(a > Len(its))
      BY <1>1
    <3> QED BY <1>7, <1>f, <3>1 DEF Streamed
  <2> HIDE DEF a, b, d, A
  <2>3. \A j \in Nat : Bad(its, j) <=> Bad(items, j)
    BY <1>1, <1>3, <1>4, <2>1
  <2>4. d = b
    <3>1. b <= d
      BY <1>2, <2>3
    <3>2. d <= b
      BY <1>2, <2>3
    <3> QED BY <1>2, <3>1, <3>2
  <2>5. \A n \in 1 .. Len(frames) : frames[n] = A
    BY <1>7
  <2>6. \A j \in 1 .. L : Of(frames, j) = IF j = a THEN <<A>> ELSE <<>>
    <3> SUFFICES ASSUME NEW j \in 1 .. L PROVE Of(frames, j) = IF j = a THEN <<A>> ELSE <<>>
      OBVIOUS
    <3>1. j \in Nat
      OBVIOUS
    <3>i. \A n \in 1 .. Len(frames) : frames[n].index = a
      BY <1>f, <2>5
    <3>2. CASE j = a
      <4>1. Of(frames, j) = frames
        BY <3>i, <3>1, <3>2, OfAll
      <4> QED BY <1>7, <3>2, <4>1
    <3>3. CASE j # a
      <4>1. \A n \in 1 .. Len(frames) : frames[n].index # j
        BY <3>i, <3>3
      <4>2. Of(frames, j) = <<>>
        BY <3>1, <4>1, OfNone
      <4> QED BY <3>3, <4>2
    <3> QED BY <3>2, <3>3
  <2>7. \A j \in 1 .. L : Streamed(its, j, j) = Streamed(items, j, j) \o Of(frames, j)
    <3> SUFFICES ASSUME NEW j \in 1 .. L PROVE Streamed(its, j, j) = Streamed(items, j, j) \o Of(frames, j)
      OBVIOUS
    <3>1. j \in Nat \ {0} /\ round \in Nat /\ Len(combined) \in Nat
      BY ConstantsAssumption DEF Typed, WorkTyped
    <3>2. Streamed(items, j, j) \in Seq(ItemEvs)
      BY <1>1, <3>1, StreamedFacts
    <3>3. CASE j = a
      <4>1. <<>> \o <<A>> = <<A>>
        OBVIOUS
      <4> QED BY <1>6, <2>2, <2>6, <3>3, <4>1
    <3>4. CASE j # a
      <4>1. Of(frames, j) = <<>> /\ Streamed(its, j, j) = Streamed(items, j, j)
        BY <1>5, <2>6, <3>1, <3>4
      <4>2. Streamed(items, j, j) \o <<>> = Streamed(items, j, j)
        BY <3>2, ConcatEmpty
      <4> QED BY <4>1, <4>2
    <3> QED BY <3>3, <3>4
  <2>8. \A j \in 1 .. L : ~(d <= j /\ j < b) /\ ~(b <= j /\ j < d)
    BY <1>1, <1>2, <2>4
  <2>9. \A j \in 1 .. L : Streamed(items, j, j) # <<>> => j <= a
    BY <1>1, <1>6
  <2> QED BY <1>1, <1>f, <2>5, <2>7, <2>8, <2>9 DEF Advances, b, d
<1>8. CASE frames = <<>> /\ (its[a].state = "unnamed" \/ its[a].kind \in GatewayKinds)
  <2>1. Bad(its, a)
    BY <1>1, <1>8 DEF Bad
  <2>2. Streamed(its, a, a) = <<>>
    BY <1>8 DEF Streamed
  <2>3. \A j \in Nat : Of(frames, j) = <<>>
    BY <1>8, OfEmpty
  <2>4. Len(frames) = 0
    BY <1>8
  <2> HIDE DEF a, b, d, A
  <2>5. d <= b
    <3>1. Bad(items, b) => Bad(its, b)
      BY <1>1, <1>2, <1>3, <1>4, <2>1
    <3> QED BY <1>2, <3>1
  <2>6. d < b => d = a
    <3>1. ASSUME d < b, d # a PROVE FALSE
      <4>1. Bad(its, d)
        BY <1>2, <3>1
      <4>2. Bad(items, d)
        BY <1>2, <1>3, <3>1, <4>1
      <4> QED BY <1>2, <3>1, <4>2
    <3> QED BY <3>1
  <2>7. \A j \in 1 .. L : Streamed(its, j, j) = Streamed(items, j, j) \o Of(frames, j)
    <3> SUFFICES ASSUME NEW j \in 1 .. L PROVE Streamed(its, j, j) = Streamed(items, j, j) \o Of(frames, j)
      OBVIOUS
    <3>1. j \in Nat \ {0} /\ round \in Nat /\ Len(combined) \in Nat
      BY ConstantsAssumption DEF Typed, WorkTyped
    <3>2. Streamed(items, j, j) \in Seq(ItemEvs)
      BY <1>1, <3>1, StreamedFacts
    <3>3. Streamed(its, j, j) = Streamed(items, j, j)
      BY <1>5, <1>6, <2>2, <3>1
    <3> QED BY <2>3, <3>1, <3>2, <3>3
  <2>8. \A j \in 1 .. L : d <= j /\ j < b => Streamed(its, j, j) = <<>>
    <3> SUFFICES ASSUME NEW j \in 1 .. L, d <= j, j < b PROVE Streamed(its, j, j) = <<>>
      OBVIOUS
    <3>1. d = a /\ j \in Nat
      BY <1>2, <2>6
    <3> QED BY <1>1, <1>5, <1>6, <2>2, <3>1
  <2>9. \A j \in 1 .. L : ~(b <= j /\ j < d)
    BY <1>1, <1>2, <2>5
  <2> QED BY <1>1, <2>4, <2>7, <2>8, <2>9 DEF Advances, b, d
<1> QED BY <1>7, <1>8

\* An item that is named or done advances.
LEMMA AdvanceAdvances ==
  ASSUME Typed, NEW its \in Seq(Slots), NEW frames \in Seq(ItemEvs), NEW i \in 1 .. Len(items),
         Len(its) = Len(items),
         \A j \in 1 .. Len(items) : j # i => its[j] = items[j],
         its[i].kind = items[i].kind, its[i].state \in {"open", "done"},
         items[i].state # "done", its[i].state = "open" => items[i].state = "unnamed",
         frames = Frames(i, its[i].state)
  PROVE  Advances(its, frames)
<1> DEFINE L == Len(script)
           b == Boundary(items)
           d == Boundary(its)
           A == ItemFrame("added", i)
           D == ItemFrame("done", i)
<1>1. /\ script \in Seq(ItemKinds) /\ items \in Seq(Slots) /\ L \in Nat /\ Len(items) \in Nat /\ i \in 1 .. L
      /\ Len(items) <= L /\ round \in Nat /\ Len(combined) \in Nat /\ i \in Nat
  BY ConstantsAssumption DEF Typed, WorkTyped
<1>2. /\ b \in Nat \ {0} /\ b <= L + 1 /\ (b = L + 1 \/ Bad(items, b))
      /\ d \in Nat \ {0} /\ d <= L + 1 /\ (d = L + 1 \/ Bad(its, d))
      /\ (\A j \in Nat : Bad(items, j) => b <= j)
      /\ (\A j \in Nat : Bad(its, j) => d <= j)
  BY <1>1, BoundaryBad
<1>3. \A j \in Nat : j # i => (Bad(its, j) <=> Bad(items, j))
  BY <1>1 DEF Bad
<1>f. /\ A.index = i /\ A = Added(i, <<round, i>>) /\ A \in ItemEvs
      /\ D.index = i /\ D = Event("done", i, <<round, i>>) /\ D \in ItemEvs /\ D.type = "done"
  <2>1. A \in ItemEvs /\ D \in ItemEvs
    BY <1>1, FrameItem
  <2>2. A.index = i /\ A = Event("added", i, <<round, i>>)
    BY FrameIndex
  <2>3. D.index = i /\ D = Event("done", i, <<round, i>>) /\ D.type = "done"
    BY FrameIndex
  <2> QED BY <2>1, <2>2, <2>3 DEF Added
<1>5. \A j \in Nat \ {0} : j # i => Streamed(its, j, j) = Streamed(items, j, j)
  <2> SUFFICES ASSUME NEW j \in Nat \ {0}, j # i PROVE Streamed(its, j, j) = Streamed(items, j, j)
    OBVIOUS
  <2>1. j > Len(items) \/ its[j] = items[j]
    BY <1>1
  <2> QED BY <2>1 DEF Streamed
<1>b. Both(i, <<round, i>>) = <<A>> \o <<D>>
  <2>1. Both(i, <<round, i>>) = <<Added(i, <<round, i>>)>> \o <<Event("done", i, <<round, i>>)>>
    BY DEF Both, Added
  <2> HIDE DEF A, D
  <2> QED BY <1>f, <2>1
<1>s. \A j \in 1 .. L : Streamed(items, j, j) \in Seq(ItemEvs) /\ j \in Nat
  BY <1>1, StreamedFacts
<1>i. ~(i > Len(items)) /\ ~(i > Len(its))
  BY <1>1
<1>e. <<>> \o <<D>> = <<D>>
  OBVIOUS
<1> HIDE DEF A, D
\* The events of the item are of the item.
<1>6. CASE items[i].kind \in GatewayKinds
  <2>1. frames = <<>> /\ Streamed(its, i, i) = <<>> /\ Streamed(items, i, i) = <<>>
    BY <1>6 DEF Frames, Streamed
  <2>2. Bad(its, i) /\ Bad(items, i)
    BY <1>1, <1>6 DEF Bad
  <2>3. d = b
    <3> HIDE DEF b, d
    <3>1. \A j \in Nat : Bad(its, j) <=> Bad(items, j)
      BY <1>3, <2>2
    <3> QED BY <1>2, <3>1
  <2>4. (\A j \in Nat : Of(frames, j) = <<>>) /\ Len(frames) = 0
    BY <2>1, OfEmpty
  <2>5. \A j \in 1 .. L : Streamed(its, j, j) = Streamed(items, j, j)
    BY <1>5, <1>s, <2>1
  <2>6. \A j \in 1 .. L : Streamed(its, j, j) = Streamed(items, j, j) \o Of(frames, j)
    <3> SUFFICES ASSUME NEW j \in 1 .. L PROVE Streamed(its, j, j) = Streamed(items, j, j) \o Of(frames, j)
      OBVIOUS
    <3>1. Streamed(items, j, j) \o <<>> = Streamed(items, j, j)
      BY <1>s, ConcatEmpty
    <3> QED BY <1>s, <2>4, <2>5, <3>1
  <2> HIDE DEF b, d
  <2>7. \A j \in 1 .. L : ~(d <= j /\ j < b) /\ ~(b <= j /\ j < d)
    BY <1>1, <1>2, <2>3
  <2>8. \A n \in 1 .. Len(frames) : FALSE
    BY <2>4
  <2> QED BY <2>6, <2>7, <2>8 DEF Advances, b, d
<1>7. CASE items[i].kind \notin GatewayKinds
  <2>1. /\ frames \in {<<A>>, <<D>>, <<A>> \o <<D>>}
        /\ Streamed(its, i, i) = Streamed(items, i, i) \o frames
        /\ items[i].state = "unnamed" => Streamed(items, i, i) = <<>>
        /\ items[i].state # "unnamed" => frames = <<D>>
    <3>1. CASE items[i].state = "unnamed" /\ its[i].state = "open"
      <4>1. frames = <<A>> /\ Streamed(its, i, i) = <<A>> /\ Streamed(items, i, i) = <<>>
        BY <1>7, <1>f, <1>i, <3>1 DEF Frames, Streamed, A
      <4> QED BY <3>1, <4>1
    <3>2. CASE items[i].state = "unnamed" /\ its[i].state = "done"
      <4>1. frames = <<A>> \o <<D>> /\ Streamed(its, i, i) = <<A>> \o <<D>> /\ Streamed(items, i, i) = <<>>
        BY <1>7, <1>b, <1>i, <3>2 DEF Frames, Streamed, A, D
      <4>2. <<>> \o (<<A>> \o <<D>>) = <<A>> \o <<D>>
        OBVIOUS
      <4> QED BY <3>2, <4>1, <4>2
    <3>3. CASE items[i].state # "unnamed"
      <4>0. items[i].state = "open" /\ its[i].state = "done"
        <5>1. items[i] \in Slots /\ i \in 1 .. Len(items)
          BY <1>1
        <5>2. items[i].state \in {"unnamed", "open", "done"}
          BY <5>1 DEF Slots
        <5> QED BY <3>3, <5>2
      <4>1. frames = <<>> \o <<D>> /\ Streamed(its, i, i) = <<A>> \o <<D>> /\ Streamed(items, i, i) = <<A>>
        BY <1>7, <1>f, <1>b, <1>i, <4>0 DEF Frames, Streamed, A, D
      <4> QED BY <1>e, <3>3, <4>1
    <3> QED BY <3>1, <3>2, <3>3
  <2>2. \A n \in 1 .. Len(frames) : frames[n] = A \/ frames[n] = D
    BY <2>1
  <2>3. \A n \in 1 .. Len(frames) : frames[n].index = i
    BY <1>f, <2>2
  <2>4. \A j \in 1 .. L : Of(frames, j) = IF j = i THEN frames ELSE <<>>
    <3> SUFFICES ASSUME NEW j \in 1 .. L PROVE Of(frames, j) = IF j = i THEN frames ELSE <<>>
      OBVIOUS
    <3>1. j \in Nat
      OBVIOUS
    <3>2. CASE j = i
      BY <2>3, <3>1, <3>2, OfAll
    <3>3. CASE j # i
      BY <2>3, <3>1, <3>3, OfNone
    <3> QED BY <3>2, <3>3
  <2>5. \A j \in 1 .. L : Streamed(its, j, j) = Streamed(items, j, j) \o Of(frames, j)
    <3> SUFFICES ASSUME NEW j \in 1 .. L PROVE Streamed(its, j, j) = Streamed(items, j, j) \o Of(frames, j)
      OBVIOUS
    <3>1. CASE j = i
      BY <2>1, <2>4, <3>1
    <3>2. CASE j # i
      <4>1. Of(frames, j) = <<>> /\ Streamed(its, j, j) = Streamed(items, j, j)
        BY <1>5, <1>s, <2>4, <3>2
      <4>2. Streamed(items, j, j) \o <<>> = Streamed(items, j, j)
        BY <1>s, ConcatEmpty
      <4> QED BY <4>1, <4>2
    <3> QED BY <3>1, <3>2
  <2>6. ~Bad(its, i) /\ (Bad(items, i) <=> items[i].state = "unnamed")
    BY <1>1, <1>7 DEF Bad
  <2> HIDE DEF b, d
  <2>7. b <= d /\ (b # i => d = b) /\ (b = i => items[i].state = "unnamed")
    <3>1. b <= d
      <4>1. Bad(its, d) => Bad(items, d)
        BY <1>2, <1>3, <2>6
      <4> QED BY <1>2, <4>1
    <3>2. b # i => d <= b
      <4>1. b # i => (Bad(items, b) => Bad(its, b))
        BY <1>2, <1>3
      <4> QED BY <1>2, <4>1
    <3>3. b = i => Bad(items, i)
      BY <1>1, <1>2
    <3> QED BY <1>2, <2>6, <3>1, <3>2, <3>3
  <2>8. \A j \in 1 .. L : ~(d <= j /\ j < b)
    BY <1>1, <1>2, <2>7
  <2>9. \A j \in 1 .. L : b <= j /\ j < d => Of(frames, j) = <<>> \/ Streamed(items, j, j) = <<>>
    <3> SUFFICES ASSUME NEW j \in 1 .. L, b <= j, j < d
                 PROVE  Of(frames, j) = <<>> \/ Streamed(items, j, j) = <<>>
      OBVIOUS
    <3>1. b = i
      BY <1>1, <1>2, <2>7
    <3> QED BY <2>1, <2>4, <2>7, <3>1
  <2>10. ASSUME NEW n \in 1 .. Len(frames), NEW j \in 1 .. L, Starts(frames[n]), frames[n].index < d
         PROVE  (j < b => j <= i) /\ (b <= j /\ j < d => i <= j)
    <3>1. items[i].state = "unnamed"
      <4>1. CASE frames = <<D>>
        <5>1. frames[n] = D
          BY <4>1
        <5> QED BY <1>f, <2>10, <5>1 DEF Starts
      <4>2. CASE frames # <<D>>
        BY <2>1, <4>2
      <4> QED BY <4>1, <4>2
    <3>2. b <= i
      BY <1>1, <1>2, <2>6, <3>1
    <3>3. i < d
      BY <2>3, <2>10
    <3>4. b = i
      BY <1>1, <1>2, <2>7, <3>2, <3>3
    <3> QED BY <1>1, <1>2, <3>4
  <2> QED BY <1>1, <2>3, <2>5, <2>8, <2>9, <2>10 DEF Advances, b, d
<1> QED BY <1>6, <1>7

-----------------------------------------------------------------------------
(* The steps of the worker.                                                *)

\* The items of earlier rounds get no more events.
LEMMA ClosedKept ==
  ASSUME Typed, NEW sent \in Seq(Evs), NEW out \in Seq(Evs), NEW n \in Nat,
         \A k \in 1 .. Len(out) : out[k].index > n \/ out[k].index = 0,
         \A x \in 1 .. n : ClosedAt(sent, x)
  PROVE  \A x \in 1 .. n : ClosedAt(sent \o out, x)
<1> SUFFICES ASSUME NEW x \in 1 .. n PROVE ClosedAt(sent \o out, x)
  OBVIOUS
<1>1. x \in Nat
  OBVIOUS
<1>2. \A k \in 1 .. Len(out) : out[k].index # x
  OBVIOUS
<1>3. Of(out, x) = <<>>
  BY <1>1, <1>2, OfNone
<1>4. Of(sent, x) \in Seq(Evs)
  BY <1>1, OfType
<1>5. Of(sent \o out, x) = Of(sent, x) \o Of(out, x)
  BY <1>1, OfConcat
<1>6. Of(sent \o out, x) = Of(sent, x)
  BY <1>3, <1>4, <1>5, ConcatEmpty
<1> QED BY <1>6 DEF ClosedAt

\* Every step of an item is accepted and advances it.
LEMMA ItemsAdvance ==
  ASSUME Typed, AddItem \/ NameCall \/ DoneItem
  PROVE  \E its \in Seq(Slots), frames \in Seq(ItemEvs) :
            Len(its) <= Len(script) /\ Accept(its, frames) /\ Advances(its, frames)
<1>1. CASE AddItem
  <2>1. PICK its \in Seq(Slots), frames \in Seq(ItemEvs) :
            /\ Len(its) <= Len(script) /\ Accept(its, frames)
            /\ Len(its) = Len(items) + 1 /\ \A i \in 1 .. Len(items) : its[i] = items[i]
            /\ \/ its[Len(its)].state = "open" /\ its[Len(its)].kind \notin GatewayKinds
                  /\ frames = <<ItemFrame("added", Len(its))>>
               \/ its[Len(its)].state \in {"open", "unnamed"} /\ frames = <<>>
                  /\ (its[Len(its)].state = "unnamed" \/ its[Len(its)].kind \in GatewayKinds)
    BY <1>1, AddItemAccepts
  <2>2. Advances(its, frames)
    BY <2>1, AddItemAdvances
  <2> QED BY <2>1, <2>2
<1>2. CASE NameCall \/ DoneItem
  <2>1. PICK its \in Seq(Slots), frames \in Seq(ItemEvs), i \in 1 .. Len(items) :
            /\ Len(its) = Len(items) /\ Accept(its, frames)
            /\ \A j \in 1 .. Len(items) : j # i => its[j] = items[j]
            /\ its[i].kind = items[i].kind /\ its[i].state \in {"open", "done"}
            /\ items[i].state # "done"
            /\ its[i].state = "open" => items[i].state = "unnamed"
            /\ frames = Frames(i, its[i].state)
    BY <1>2, AdvanceAccepts
  <2>2. Advances(its, frames)
    BY <2>1, AdvanceAdvances
  <2>3. Len(its) <= Len(script)
    BY <2>1 DEF Typed, WorkTyped
  <2> QED BY <2>1, <2>2, <2>3
<1> QED BY <1>1, <1>2

\* Content: the steps of items.
LEMMA ItemsStreaming ==
  ASSUME Typed, Sound, Streaming, AddItem \/ NameCall \/ DoneItem
  PROVE  Streaming'
<1>1. PICK its \in Seq(Slots), frames \in Seq(ItemEvs) :
          Len(its) <= Len(script) /\ Accept(its, frames) /\ Advances(its, frames)
  BY ItemsAdvance
<1>2. /\ pc = "fetch" /\ pc' = "fetch" /\ outbox = <<>> /\ stream # "dropped"
      /\ UNCHANGED <<mode, round, script, begun, number, turnVars, result, channel, consumerVars>>
  BY DEF AddItem, NameCall, DoneItem, Working
<1>3. items' = its /\ combined' = combined /\ script' = script /\ round' = round
  BY <1>1, <1>2 DEF Accept, turnVars
<1>c. Len(combined) \in Nat /\ Base = Len(combined) /\ Base' = Len(combined)
  BY <1>2, <1>3 DEF Typed, WorkTyped, Base
<1>4. Content(Sent) /\ Held /\ Beginning /\ Listed
  BY DEF Streaming
<1>5. Split(Sent, deferred, items) /\ Sorted(Sent)
  BY <1>2, <1>4, <1>c DEF Split, Content, Current, Held
<1>s. Sent \in Seq(Evs)
  BY SentType
<1>6. /\ outbox' \in Seq(ItemEvs)
      /\ \A n \in 1 .. Len(outbox') : outbox'[n].index > Len(combined)
      /\ \A i \in Nat \ {0} : Of(Sent \o outbox', Len(combined) + i) =
            IF i < Boundary(its) THEN Streamed(its, i, Len(combined) + i) ELSE <<>>
      /\ \A i \in 1 .. Len(script) :
            Of(deferred', i) = IF i < Boundary(its) THEN <<>> ELSE Streamed(its, i, i)
      /\ Sorted(Sent \o outbox')
  BY <1>1, <1>5, <1>s, AcceptContent
<1>o. outbox' \in Seq(Evs)
  BY <1>6, ItemEvsEvs
<1>7. Sent' = Sent \o outbox'
  BY <1>2, <1>o, SentWorker
<1>8. Boundary(items)' = Boundary(its)
  BY <1>3 DEF Boundary, IsHidden
<1>9. \A i, x : Streamed(items, i, x)' = Streamed(its, i, x)
  BY <1>3 DEF Streamed, Added, Both
<1>10. Beginning'
  BY <1>2, <1>4 DEF Beginning
<1>11. Held'
  BY <1>2, <1>3, <1>6, <1>8, <1>9 DEF Held
<1>12. Listed'
  BY <1>2, <1>3, <1>4, <1>c DEF Listed
<1>13. Content(Sent)'
  <2>1. \A i \in Nat \ {0} : Of(Sent', Base' + i) = Current(i)'
    BY <1>2, <1>6, <1>7, <1>8, <1>9, <1>c DEF Current
  <2>2. \A x \in 1 .. Base : ClosedAt(Sent, x)
    BY <1>2, <1>4 DEF Content, Beginning
  <2>3. \A x \in 1 .. Base : ClosedAt(Sent \o outbox', x)
    BY <1>6, <1>c, <1>o, <1>s, <2>2, ClosedKept
  <2>4. \A x \in 1 .. Base' : ClosedAt(Sent, x)'
    BY <1>3, <1>7, <1>c, <2>3 DEF ClosedAt
  <2>5. Sorted(Sent)'
    BY <1>6, <1>7 DEF Sorted
  <2> QED BY <1>2, <2>1, <2>4, <2>5 DEF Content
<1> QED BY <1>10, <1>11, <1>12, <1>13 DEF Streaming

-----------------------------------------------------------------------------
\* Nothing is sorted.
LEMMA OfSilent ==
  ASSUME NEW s, s = <<>>
  PROVE  (\A x : Of(s, x) = <<>>) /\ Sorted(s)
<1>1. \A n \in 1 .. Len(s) : FALSE
  OBVIOUS
<1> QED BY <1>1, OfEmpty DEF Sorted

\* Content: the start.
LEMMA StreamingInit == ASSUME StreamInit PROVE Streaming
<1>1. /\ pc = "new" /\ round = 1 /\ items = <<>> /\ deferred = <<>> /\ begun = FALSE /\ combined = <<>>
      /\ outbox = <<>> /\ channel = <<>> /\ delivered = <<>> /\ stream = "select"
  BY DEF StreamInit
<1>2. Seen = <<>> /\ EventsOf(<<>>) = <<>>
  BY <1>1 DEF Seen, EventsOf
<1>3. Sent = <<>>
  BY <1>1, <1>2 DEF Sent
<1>4. Base = 0 /\ Len(combined) = 0
  BY <1>1 DEF Base
<1>5. Beginning /\ Held
  BY <1>1, <1>3 DEF Beginning, Held
<1>6. Listed
  BY <1>1, <1>4 DEF Listed
<1>7. Content(Sent)
  <2>1. \A i : Current(i) = <<>>
    BY <1>1 DEF Current
  <2> QED BY <1>1, <1>3, <2>1, OfSilent DEF Content
<1> QED BY <1>5, <1>6, <1>7 DEF Streaming

\* Content: a step of the client, or of the channel.
LEMMA StreamingSame ==
  ASSUME Streaming, Sound, Sent' = Sent, UNCHANGED <<pc, roundVars, combined>>
  PROVE  Streaming'
<1>1. pc' = pc /\ round' = round /\ script' = script /\ items' = items /\ deferred' = deferred
      /\ begun' = begun /\ combined' = combined
  BY DEF roundVars
<1>2. Boundary(items)' = Boundary(items) /\ InitialRun' = InitialRun
  BY <1>1 DEF Boundary, IsHidden, InitialRun, GatewayCalls, KindOf
<1>3. \A i, x : Streamed(items, i, x)' = Streamed(items, i, x)
  BY <1>1 DEF Streamed, Added, Both
<1>4. Base' = Base /\ \A i : IsGateway(i)' = IsGateway(i)
  BY <1>1 DEF Base, IsGateway, KindOf
<1>5. \A i : Current(i)' = Current(i)
  BY <1>1, <1>2, <1>3, <1>4 DEF Current, Added, Both
<1>6. Beginning /\ Held /\ Listed /\ Content(Sent)
  BY DEF Streaming
<1>7. Beginning' /\ Held'
  BY <1>1, <1>2, <1>3, <1>6 DEF Beginning, Held
<1>8. Listed'
  BY <1>1, <1>4, <1>6 DEF Listed, KindOf
<1>9. Content(Sent)'
  <2>1. AllNamed' = AllNamed /\ Sorted(Sent)' = Sorted(Sent)
    BY <1>1 DEF AllNamed, Sorted
  <2>2. \A x : ClosedAt(Sent, x)' = ClosedAt(Sent, x)
    BY <1>1 DEF ClosedAt, Added, Both
  <2> QED BY <1>1, <1>4, <1>5, <1>6, <2>1, <2>2 DEF Content
<1> QED BY <1>7, <1>8, <1>9 DEF Streaming

\* A worker that takes a step has not failed.
LEMMA SoundWorker ==
  ASSUME Typed, Ending, Worker
  PROVE  Sound /\ (Sound' => result' \in {"none", "ok"})
BY WorkerStep DEF Sound

\* The first events of a turn.
LEMMA OpeningFacts ==
  ASSUME NEW is \in Seq(OutItems)
  PROVE  LET out == LifecycleEvents \o AddedAndDone(is)
         IN  /\ out \in Seq(Evs) /\ Sorted(out)
             /\ \A x \in Nat \ {0} : Of(out, x) = IF x \in 1 .. Len(is) THEN Both(x, is[x]) ELSE <<>>
<1> DEFINE a == AddedAndDone(is)
<1>1. /\ a \in Seq(ItemEvs) /\ Ascending(a)
      /\ \A j \in Nat : Of(a, j) = IF j \in 1 .. Len(is) THEN Both(j, is[j]) ELSE <<>>
  BY AddedAndDoneFacts
<1>2. a \in Seq(Evs)
  BY <1>1, ItemEvsEvs
<1> HIDE DEF a
<1>3. \A n \in 1 .. Len(LifecycleEvents) : ~Starts(LifecycleEvents[n])
  BY LifecycleFacts DEF Starts
<1>4. LifecycleEvents \in Seq(Evs)
  BY LifecycleFacts
<1>5. Sorted(LifecycleEvents)
  BY <1>3 DEF Sorted
<1>6. Sorted(LifecycleEvents \o a)
  BY <1>1, <1>2, <1>3, <1>4, <1>5, AscendingSorted, SortedJoin
<1>7. ASSUME NEW x \in Nat \ {0}
      PROVE  Of(LifecycleEvents \o a, x) = IF x \in 1 .. Len(is) THEN Both(x, is[x]) ELSE <<>>
  <2>1. Of(LifecycleEvents \o a, x) = Of(LifecycleEvents, x) \o Of(a, x)
    BY <1>2, <1>4, OfConcat
  <2>2. Of(LifecycleEvents, x) = <<>>
    BY LifecycleFacts
  <2>3. Of(a, x) \in Seq(Evs)
    BY <1>2, OfType
  <2>4. <<>> \o Of(a, x) = Of(a, x)
    BY <2>3, ConcatEmpty
  <2> QED BY <1>1, <2>1, <2>2, <2>4
<1>8. LifecycleEvents \o a \in Seq(Evs)
  BY <1>2, <1>4
<1> QED BY <1>6, <1>7, <1>8 DEF a

\* Content: the listed servers head the output.
LEMMA DiscoverStreaming ==
  ASSUME Typed, Streaming, Sound, Discover
  PROVE  Streaming'
<1>1. /\ pc = "new" /\ pc' = "round" /\ outbox = <<>> /\ outbox' = <<>> /\ round' = round
      /\ items' = items /\ deferred' = deferred /\ begun' = begun
      /\ combined' = [i \in 1 .. Discovered |-> ListItem(i)] /\ UNCHANGED <<channel, consumerVars>>
  BY DEF Discover, Working, roundVars
<1>2. Beginning /\ Held /\ Listed /\ Content(Sent)
  BY DEF Streaming
<1>3. items = <<>> /\ begun = FALSE /\ Sent = <<>> /\ deferred = <<>>
  BY <1>1, <1>2 DEF Beginning, Held
<1>4. Sent' = <<>>
  <2>1. Sent' = Sent \o <<>>
    BY <1>1, SentWorker
  <2> QED BY <1>3, <2>1
<1>5. Len(combined') = Discovered /\ Discovered \in Nat /\ \A x \in 1 .. Discovered : combined'[x] = ListItem(x)
  BY <1>1, ConstantsAssumption
<1>6. Base' = Discovered
  BY <1>1, <1>5 DEF Base
<1>7. Beginning' /\ Held'
  BY <1>1, <1>3, <1>4, <1>5 DEF Beginning, Held
<1>8. Listed'
  <2>1. round > 0
    BY DEF Typed, WorkTyped
  <2>2. \A x \in 1 .. Discovered : combined'[x].round = 0
    BY <1>5 DEF ListItem, Item
  <2> QED BY <1>1, <1>5, <1>6, <2>1, <2>2 DEF Listed
<1>9. Content(Sent)'
  <2>1. \A i : Current(i)' = <<>>
    BY <1>1 DEF Current
  <2>2. (\A x : Of(Sent', x) = <<>>) /\ Sorted(Sent)'
    BY <1>4, OfSilent DEF Sorted
  <2> QED BY <1>1, <1>3, <2>1, <2>2 DEF Content
<1> QED BY <1>7, <1>8, <1>9 DEF Streaming

\* Content: a summary is the output.
LEMMA TriggerStreaming ==
  ASSUME Typed, Streaming, Sound, CompactionTrigger
  PROVE  Streaming'
<1> DEFINE out == LifecycleEvents \o AddedAndDone(<<Compaction>>)
<1>1. /\ pc = "new" /\ pc' = "return" /\ outbox = <<>> /\ outbox' = out /\ round' = round
      /\ items' = items /\ deferred' = deferred /\ begun' = begun
      /\ combined' = <<Compaction>> /\ UNCHANGED <<channel, consumerVars>>
  BY DEF CompactionTrigger, Working, roundVars
<1>2. Beginning /\ Held /\ Listed /\ Content(Sent)
  BY DEF Streaming
<1>3. items = <<>> /\ begun = FALSE /\ Sent = <<>> /\ deferred = <<>>
  BY <1>1, <1>2 DEF Beginning, Held
<1>t. <<Compaction>> \in Seq(OutItems) /\ Len(<<Compaction>>) = 1 /\ <<Compaction>>[1] = Compaction
  BY ListType
<1>4. /\ out \in Seq(Evs) /\ Sorted(out)
      /\ \A x \in Nat \ {0} : Of(out, x) = IF x \in 1 .. Len(<<Compaction>>) THEN Both(x, <<Compaction>>[x]) ELSE <<>>
  BY <1>t, OpeningFacts
<1> HIDE DEF out
<1>5. Sent' = out
  <2>1. Sent' = Sent \o out
    BY <1>1, <1>4, SentWorker
  <2> QED BY <1>3, <1>4, <2>1, ConcatEmpty
<1>6. Base' = 1 /\ Len(combined') = 1 /\ combined'[1] = Compaction
  BY <1>1, <1>t DEF Base
<1>7. Beginning' /\ Held'
  BY <1>1, <1>3 DEF Beginning, Held
<1>8. Listed'
  <2>1. round > 0
    BY DEF Typed, WorkTyped
  <2>2. Compaction.round = 0
    BY DEF Compaction, Item
  <2> QED BY <1>1, <1>6, <2>1, <2>2 DEF Listed
<1>9. Content(Sent)'
  <2>1. \A i : Current(i)' = <<>>
    BY <1>1 DEF Current
  <2>2. \A i \in Nat \ {0} : Of(Sent', Base' + i) = <<>>
    BY <1>4, <1>5, <1>6, <1>t
  <2>3. \A x \in 1 .. Base' : ClosedAt(Sent, x)'
    <3>1. Of(Sent', 1) = Both(1, Compaction)
      BY <1>4, <1>5, <1>t
    <3>2. Compaction.kind = "compaction"
      BY DEF Compaction, Item
    <3> QED BY <1>6, <3>1, <3>2 DEF ClosedAt, Records, Both
  <2>4. Sorted(Sent)'
    BY <1>4, <1>5 DEF Sorted
  <2> QED BY <1>1, <2>1, <2>2, <2>3, <2>4 DEF Content
<1> QED BY <1>7, <1>8, <1>9 DEF Streaming

\* Content: the summary is returned.
LEMMA ReturnStreaming ==
  ASSUME Typed, Streaming, Sound, Return
  PROVE  Streaming'
<1>1. /\ pc = "return" /\ pc' = "ended" /\ outbox = <<>> /\ outbox' = <<>> /\ round' = round
      /\ items' = items /\ deferred' = deferred /\ begun' = begun /\ combined' = combined
      /\ UNCHANGED <<channel, consumerVars>>
  BY DEF Return, Working, roundVars, turnVars
<1>2. Beginning /\ Held /\ Listed /\ Content(Sent)
  BY DEF Streaming
<1>3. items = <<>> /\ Len(items) = 0 /\ Len(combined) \in Nat
  BY <1>1, <1>2 DEF Beginning, Typed, WorkTyped
<1>4. Sent' = Sent
  <2>1. Sent' = Sent \o <<>> /\ Sent \in Seq(Evs)
    BY <1>1, SentWorker
  <2> QED BY <2>1, ConcatEmpty
<1>6. Base' = Len(combined) /\ Base = Len(combined)
  BY <1>1, <1>3 DEF Base
<1>7. Beginning' /\ Held'
  BY <1>1 DEF Beginning, Held
<1>8. Listed'
  BY <1>1, <1>2, <1>3, <1>6 DEF Listed
<1>9. Content(Sent)'
  <2>1. \A i : Current(i) = <<>>
    BY <1>1 DEF Current
  <2>2. ASSUME NEW i \in Nat \ {0} PROVE Current(i)' = <<>>
    <3>1. i > Len(items) /\ ~(i <= Len(items))
      BY <1>3
    <3>2. ~IsGateway(i)'
      BY <1>1, <3>1 DEF IsGateway
    <3> QED BY <1>1, <3>1, <3>2 DEF Current, Streamed
  <2>3. \A x : ClosedAt(Sent, x)' = ClosedAt(Sent, x)
    BY <1>1, <1>4 DEF ClosedAt, Added, Both
  <2>4. Sorted(Sent)' = Sorted(Sent)
    BY <1>4 DEF Sorted
  <2> QED BY <1>1, <1>2, <1>4, <1>6, <2>1, <2>2, <2>3, <2>4 DEF Content
<1> QED BY <1>7, <1>8, <1>9 DEF Streaming

\* Content: a round begins.
LEMMA BeginStreaming ==
  ASSUME Typed, Streaming, Sound, BeginRound
  PROVE  Streaming'
<1> DEFINE out == LifecycleEvents \o AddedAndDone(combined)
<1>1. /\ pc = "round" /\ pc' = "fetch" /\ outbox = <<>> /\ round' = round
      /\ outbox' = (IF begun THEN <<>> ELSE out)
      /\ items' = <<>> /\ deferred' = deferred /\ begun' = TRUE /\ combined' = combined
      /\ UNCHANGED <<channel, consumerVars>>
  BY DEF BeginRound, Working, turnVars
<1>2. Beginning /\ Held /\ Listed /\ Content(Sent)
  BY DEF Streaming
<1>3. deferred = <<>> /\ Len(combined) \in Nat /\ combined \in Seq(OutItems)
  BY <1>1, <1>2 DEF Held, Typed, WorkTyped
<1>4. /\ out \in Seq(Evs) /\ Sorted(out)
      /\ \A x \in Nat \ {0} : Of(out, x) = IF x \in 1 .. Len(combined) THEN Both(x, combined[x]) ELSE <<>>
  BY <1>3, OpeningFacts
<1> HIDE DEF out
<1>6. Base' = Len(combined) /\ Base = Len(combined)
  BY <1>1 DEF Base
<1>7. Beginning'
  BY <1>1 DEF Beginning
<1>e. \A i \in Nat \ {0} : i > Len(<<>>)
  OBVIOUS
<1>8. Held'
  BY <1>1, <1>3, <1>e, OfEmpty DEF Held, Streamed
<1>9. Listed'
  BY <1>1, <1>2, <1>6 DEF Listed
<1>10. Content(Sent)'
  <2>1. \A i \in Nat \ {0} : Current(i)' = <<>>
    BY <1>1, <1>e DEF Current, Streamed
  <2>2. /\ \A i \in Nat \ {0} : Of(Sent', Base' + i) = <<>>
        /\ \A x \in 1 .. Base' : ClosedAt(Sent, x)'
        /\ Sorted(Sent')
    <3>1. CASE begun
      <4>1. Sent' = Sent
        <5>1. Sent' = Sent \o <<>> /\ Sent \in Seq(Evs)
          BY <1>1, <3>1, SentWorker
        <5> QED BY <5>1, ConcatEmpty
      <4>2. \A i : Current(i) = <<>>
        BY <1>1 DEF Current
      <4>3. \A x : ClosedAt(Sent, x)' = ClosedAt(Sent, x)
        BY <1>1, <4>1 DEF ClosedAt, Added, Both
      <4> QED BY <1>1, <1>2, <1>6, <3>1, <4>1, <4>2, <4>3 DEF Content
    <3>2. CASE ~begun
      <4>1. Sent' = out
        <5>1. Sent = <<>>
          BY <1>1, <1>2, <3>2 DEF Beginning
        <5>2. Sent' = Sent \o out
          BY <1>1, <1>4, <3>2, SentWorker
        <5> QED BY <1>4, <5>1, <5>2, ConcatEmpty
      <4>2. ASSUME NEW x \in 1 .. Len(combined) PROVE ClosedAt(Sent, x)'
        <5>1. x \in Nat \ {0}
          OBVIOUS
        <5>2. combined[x].kind = "list" /\ combined'[x] = combined[x]
          <6>1. combined[x] = ListItem(x)
            BY <1>1, <1>2, <3>2 DEF Beginning
          <6>2. ListItem(x).kind = "list"
            BY DEF ListItem, Item
          <6> QED BY <1>1, <6>1, <6>2
        <5>3. Of(Sent', x) = Both(x, combined[x])
          BY <1>4, <4>1, <5>1
        <5> QED BY <5>2, <5>3 DEF ClosedAt, Records, Both
      <4>3. \A i \in Nat \ {0} : Of(Sent', Len(combined) + i) = <<>>
        BY <1>3, <1>4, <4>1
      <4> QED BY <1>4, <1>6, <4>1, <4>2, <4>3
    <3> QED BY <3>1, <3>2
  <2>3. Sorted(Sent)'
    BY <2>2 DEF Sorted
  <2> QED BY <1>1, <2>1, <2>2, <2>3 DEF Content
<1> QED BY <1>7, <1>8, <1>9, <1>10 DEF Streaming

-----------------------------------------------------------------------------
(* The end of a round.                                                     *)

\* What the worker sends at a step of its own.
LEMMA SentJoin ==
  ASSUME Typed, outbox = <<>>, UNCHANGED <<channel, consumerVars>>, outbox' \in Seq(ItemEvs),
         Len(combined) \in Nat
  PROVE  /\ Sent' = Sent \o outbox' /\ Sent \in Seq(Evs) /\ outbox' \in Seq(Evs)
         /\ \A i \in Nat \ {0} : Of(Sent', Len(combined) + i) =
                Of(Sent, Len(combined) + i) \o Of(outbox', Len(combined) + i)
<1>1. outbox' \in Seq(Evs)
  BY ItemEvsEvs
<1>2. Sent' = Sent \o outbox' /\ Sent \in Seq(Evs)
  BY <1>1, SentWorker
<1>3. ASSUME NEW i \in Nat \ {0}
      PROVE  Of(Sent \o outbox', Len(combined) + i) =
                Of(Sent, Len(combined) + i) \o Of(outbox', Len(combined) + i)
  <2>1. Len(combined) + i \in Nat
    OBVIOUS
  <2> QED BY <1>1, <1>2, <2>1, OfConcat
<1> QED BY <1>1, <1>2, <1>3

\* What starts behind what.
LEMMA SortedBehind ==
  ASSUME NEW sent \in Seq(Evs), NEW out \in Seq(Evs), Sorted(sent), Sorted(out),
         Len(combined) \in Nat,
         \A n \in 1 .. Len(out) : out[n].index > Len(combined),
         \A i, j \in Nat \ {0} :
            /\ \E k \in 1 .. Len(Of(sent, Len(combined) + i)) : Starts(Of(sent, Len(combined) + i)[k])
            /\ \E k \in 1 .. Len(Of(out, Len(combined) + j)) : Starts(Of(out, Len(combined) + j)[k])
            => i <= j
  PROVE  Sorted(sent \o out)
<1> DEFINE c == Len(combined)
<1> HIDE DEF c
<1>c. c = Len(combined) /\ c \in Nat
  BY DEF c
<1>1. ASSUME NEW m \in 1 .. Len(sent), NEW n \in 1 .. Len(out), Starts(sent[m]), Starts(out[n])
      PROVE  sent[m].index <= out[n].index
  <2> DEFINE x == sent[m].index
             y == out[n].index
  <2>1. x \in Nat /\ y \in Nat /\ y > c
    <3>1. sent[m] \in Evs /\ out[n] \in Evs
      OBVIOUS
    <3> QED BY <1>c, <3>1, EvsIndex
  <2>2. \E k \in 1 .. Len(Of(sent, x)) : Of(sent, x)[k] = sent[m]
    BY <2>1, OfSome
  <2>3. \E k \in 1 .. Len(Of(out, y)) : Of(out, y)[k] = out[n]
    BY <2>1, OfSome
  <2> HIDE DEF x, y
  <2>4. CASE x <= c
    BY <2>1, <2>4, <1>c DEF x, y
  <2>5. CASE x > c
    <3> DEFINE i == x - c
               j == y - c
    <3>1. i \in Nat \ {0} /\ j \in Nat \ {0} /\ c + i = x /\ c + j = y
      BY <2>1, <2>5, <1>c
    <3> HIDE DEF i, j
    <3>2. \E k \in 1 .. Len(Of(sent, c + i)) : Starts(Of(sent, c + i)[k])
      BY <1>1, <2>2, <3>1
    <3>3. \E k \in 1 .. Len(Of(out, c + j)) : Starts(Of(out, c + j)[k])
      BY <1>1, <2>3, <3>1
    <3>4. i <= j
      BY <1>c, <3>1, <3>2, <3>3
    <3> QED BY <2>1, <3>1, <3>4, <1>c DEF x, y
  <2> QED BY <2>1, <2>4, <2>5, <1>c
<1> QED BY <1>1, SortedJoin

\* A call of the gateway's own is behind the boundary.
LEMMA GatewayBehind ==
  ASSUME Typed, NEW i \in 1 .. Len(items)
  PROVE  /\ i \in GatewayCalls <=> items[i].state # "unnamed" /\ items[i].kind \in GatewayKinds
         /\ i \in GatewayCalls => Boundary(items) <= i /\ Boundary(items) \in Nat
         /\ i \in GatewayCalls => \A x : Streamed(items, i, x) = <<>>
         /\ IsGateway(i) <=> KindOf(i) = "gateway"
         /\ KindOf(i) = "gateway" => i \in GatewayCalls
         /\ i \in InitialRun => i \in GatewayCalls
         /\ i \notin GatewayCalls => \A t : Plan(t, i) = <<>>
         /\ KindOf(i) # "gateway" => \A t : Plan(t, i) = <<>>
         /\ KindOf(i) = "gateway" => \A t : Plan(t, i) = <<Event(t, Len(combined) + i, <<round, i>>)>>
<1>1. items \in Seq(Slots) /\ script \in Seq(ItemKinds) /\ DOMAIN items = 1 .. Len(items)
  BY DEF Typed, WorkTyped
<1>2. i \in GatewayCalls <=> items[i].state # "unnamed" /\ items[i].kind \in GatewayKinds
  BY <1>1 DEF GatewayCalls, KindOf, GatewayKinds
<1>3. ASSUME i \in GatewayCalls PROVE Boundary(items) <= i /\ Boundary(items) \in Nat
  <2>1. Bad(items, i)
    BY <1>2, <1>3 DEF Bad
  <2> QED BY <1>1, <2>1, BoundaryBad
<1>4. IsGateway(i) <=> KindOf(i) = "gateway"
  BY DEF IsGateway
<1>5. KindOf(i) = "gateway" => i \in GatewayCalls
  BY <1>1 DEF GatewayCalls, GatewayKinds
<1>6. i \in InitialRun => i \in GatewayCalls
  BY DEF InitialRun
<1>7. i \in GatewayCalls => \A x : Streamed(items, i, x) = <<>>
  BY <1>2 DEF Streamed
<1>8. /\ KindOf(i) # "gateway" => \A t : Plan(t, i) = <<>>
      /\ KindOf(i) = "gateway" => \A t : Plan(t, i) = <<Event(t, Len(combined) + i, <<round, i>>)>>
  BY DEF Plan
<1> QED BY <1>2, <1>3, <1>4, <1>5, <1>6, <1>7, <1>8

\* Content: the upstream's stream ends.
LEMMA EndStreaming ==
  ASSUME Typed, Streaming, Sound, NEW s \in {"completed", "incomplete"}, EndStream(s)
  PROVE  Streaming'
<1> DEFINE out == Plans("added", InitialRun)
<1>1. /\ pc = "fetch" /\ pc' = "execute" /\ outbox = <<>> /\ outbox' = out /\ round' = round
      /\ items' = items /\ deferred' = deferred /\ begun' = begun /\ combined' = combined
      /\ script' = script /\ UNCHANGED <<channel, consumerVars>>
  BY DEF EndStream, Working, roundVars
<1>2. Beginning /\ Held /\ Listed /\ Content(Sent)
  BY DEF Streaming
<1>3. items \in Seq(Slots) /\ Len(combined) \in Nat /\ round \in Nat /\ Len(items) \in Nat
  BY DEF Typed, WorkTyped
<1>4. /\ out \in Seq(ItemEvs) /\ Ascending(out)
      /\ \A i \in Nat \ {0} : Of(out, Len(combined) + i) =
                IF i \in 1 .. Len(items) THEN InitialPart(i) ELSE <<>>
      /\ \A k \in 1 .. Len(out) : out[k].index > Len(combined)
  BY <1>3, InitialFacts
<1> HIDE DEF out
<1>5. /\ Sent' = Sent \o out /\ Sent \in Seq(Evs) /\ out \in Seq(Evs)
      /\ \A i \in Nat \ {0} : Of(Sent', Len(combined) + i) =
                Of(Sent, Len(combined) + i) \o Of(out, Len(combined) + i)
  <2>1. outbox' \in Seq(ItemEvs)
    BY <1>1, <1>4
  <2> QED BY <1>1, <1>3, <2>1, SentJoin
<1>6. Base = Len(combined) /\ Base' = Len(combined)
  BY <1>1 DEF Base
<1>7. Boundary(items)' = Boundary(items) /\ InitialRun' = InitialRun
      /\ \A i : IsGateway(i)' = IsGateway(i)
  BY <1>1 DEF Boundary, IsHidden, InitialRun, GatewayCalls, KindOf, IsGateway
<1>8. \A i, x : Streamed(items, i, x)' = Streamed(items, i, x)
  BY <1>1 DEF Streamed, Added, Both
<1>9. Beginning'
  BY <1>1, <1>2 DEF Beginning
<1>10. Held'
  BY <1>1, <1>2, <1>7, <1>8 DEF Held
<1>11. Listed'
  BY <1>1, <1>2, <1>6 DEF Listed
<1>o. \A i \in Nat \ {0} : Of(Sent, Len(combined) + i) =
         IF i < Boundary(items) THEN Streamed(items, i, Len(combined) + i) ELSE <<>>
  BY <1>1, <1>2, <1>6 DEF Content, Current
<1>p. ASSUME NEW i \in 1 .. Len(items)
      PROVE  InitialPart(i) = IF IsGateway(i) /\ i \in InitialRun
                              THEN <<Added(Len(combined) + i, <<round, i>>)>> ELSE <<>>
  BY GatewayBehind DEF InitialPart, Added
<1>12. Content(Sent)'
  <2>1. ASSUME NEW i \in Nat \ {0} PROVE Of(Sent', Base' + i) = Current(i)'
    <3> DEFINE x == Len(combined) + i
    <3>1. Current(i)' = IF IsGateway(i) THEN IF i \in InitialRun THEN <<Added(x, <<round, i>>)>> ELSE <<>>
                        ELSE IF i < Boundary(items) THEN Streamed(items, i, x) ELSE <<>>
      BY <1>1, <1>6, <1>7, <1>8 DEF Current, Added
    <3>2. Of(Sent', x) = Of(Sent, x) \o Of(out, x)
      BY <1>5
    <3>3. Of(Sent, x) = IF i < Boundary(items) THEN Streamed(items, i, x) ELSE <<>>
      BY <1>o
    <3>4. Of(Sent, x) \in Seq(Evs) /\ Of(out, x) \in Seq(Evs)
      BY <1>3, <1>5, OfType
    <3>g. Of(out, x) = IF i \in 1 .. Len(items) THEN InitialPart(i) ELSE <<>>
      BY <1>4
    <3> HIDE DEF x
    <3>5. CASE i \in 1 .. Len(items) /\ IsGateway(i)
      <4>1. Of(Sent, x) = <<>>
        BY <3>3, <3>5, GatewayBehind
      <4>2. Of(Sent', x) = Of(out, x)
        BY <3>2, <3>4, <4>1, ConcatEmpty
      <4> QED BY <1>6, <1>p, <3>1, <3>5, <3>g, <4>2 DEF x
    <3>6. CASE i \in 1 .. Len(items) /\ ~IsGateway(i)
      <4>1. Of(out, x) = <<>>
        BY <1>p, <3>6, <3>g
      <4>2. Of(Sent', x) = Of(Sent, x)
        BY <3>2, <3>4, <4>1, ConcatEmpty
      <4> QED BY <1>6, <3>1, <3>3, <3>6, <4>2 DEF x
    <3>7. CASE i \notin 1 .. Len(items)
      <4>1. ~IsGateway(i)
        BY <1>3, <3>7 DEF IsGateway
      <4>2. Of(Sent', x) = Of(Sent, x)
        BY <3>2, <3>4, <3>7, <3>g, ConcatEmpty
      <4> QED BY <1>6, <3>1, <3>3, <4>1, <4>2 DEF x
    <3> QED BY <3>5, <3>6, <3>7
  <2>2. \A x \in 1 .. Base' : ClosedAt(Sent, x)'
    <3>1. \A x \in 1 .. Base : ClosedAt(Sent, x)
      BY <1>1, <1>2 DEF Content, Beginning
    <3>2. \A x \in 1 .. Base : ClosedAt(Sent \o out, x)
      BY <1>3, <1>4, <1>5, <1>6, <3>1, ClosedKept
    <3> QED BY <1>1, <1>5, <1>6, <3>2 DEF ClosedAt, Added, Both
  <2>3. Sorted(Sent)'
    <3>1. Sorted(Sent) /\ Sorted(out)
      BY <1>1, <1>2, <1>4, AscendingSorted DEF Content
    <3>2. ASSUME NEW i \in Nat \ {0}, NEW j \in Nat \ {0},
                 NEW k \in 1 .. Len(Of(Sent, Len(combined) + i)),
                 NEW l \in 1 .. Len(Of(out, Len(combined) + j))
          PROVE  i <= j
      <4>1. Of(Sent, Len(combined) + i) # <<>> /\ Of(out, Len(combined) + j) # <<>>
        OBVIOUS
      <4>2. i < Boundary(items)
        BY <1>o, <4>1
      <4>3. j \in 1 .. Len(items) /\ IsGateway(j)
        BY <1>4, <1>p, <4>1
      <4>4. Boundary(items) <= j /\ Boundary(items) \in Nat
        BY <4>3, GatewayBehind
      <4> QED BY <4>2, <4>4
    <3>3. Sorted(Sent \o out)
      BY <1>3, <1>4, <1>5, <3>1, <3>2, SortedBehind
    <3> QED BY <1>5, <3>3 DEF Sorted
  <2> QED BY <1>1, <2>1, <2>2, <2>3 DEF Content
<1> QED BY <1>9, <1>10, <1>11, <1>12 DEF Streaming

-----------------------------------------------------------------------------
\* A named item that is not the gateway's has events.
LEMMA StreamedStates ==
  ASSUME NEW i \in 1 .. Len(items), items \in Seq(Slots), i \notin GatewayCalls, AllNamed, NEW x
  PROVE  Streamed(items, i, x) # <<>>
<1>1. items[i].state # "unnamed" /\ items[i].kind \notin GatewayKinds
  BY DEF AllNamed, GatewayCalls, KindOf
<1>2. ~(i > Len(items))
  OBVIOUS
<1>3. \A e : <<e>> # <<>>
  OBVIOUS
<1>4. \A e, f : <<e, f>> # <<>>
  OBVIOUS
<1> QED BY <1>1, <1>2, <1>3, <1>4 DEF Streamed, Both

\* What the end of the round shows of an item, by its kind.
LEMMA ExecuteParts ==
  ASSUME Typed, pc = "execute", Held, NEW i \in 1 .. Len(items)
  PROVE  LET x == Len(combined) + i
         IN  /\ KindOf(i) = "gateway" =>
                    ExecutePart(i) = (IF i \in InitialRun THEN <<>> ELSE <<Added(x, <<round, i>>)>>)
                                     \o <<Event("done", x, <<round, i>>)>>
             /\ KindOf(i) # "gateway" =>
                    ExecutePart(i) = IF i < Boundary(items) THEN <<>> ELSE Streamed(items, i, x)
<1> DEFINE x == Len(combined) + i
           A == <<Added(x, <<round, i>>)>>
           D == <<Event("done", x, <<round, i>>)>>
<1>1. /\ items \in Seq(Slots) /\ round \in Nat /\ Len(combined) \in Nat /\ i \in Nat \ {0}
      /\ i \in 1 .. Len(script)
  BY DEF Typed, WorkTyped
<1>2. Of(deferred, i) = IF i < Boundary(items) THEN <<>> ELSE Streamed(items, i, i)
  BY <1>1 DEF Held
<1>3. Rebased(Streamed(items, i, i)) = Streamed(items, i, x) /\ Streamed(items, i, i) \in Seq(ItemEvs)
  BY <1>1, StreamedFacts
<1>4. Rebased(<<>>) = <<>>
  BY DEF Rebased
<1>5. Rebased(Of(deferred, i)) = IF i < Boundary(items) THEN <<>> ELSE Streamed(items, i, x)
  BY <1>2, <1>3, <1>4
<1>g. \A t : Plan(t, i) = IF KindOf(i) = "gateway" THEN <<Event(t, x, <<round, i>>)>> ELSE <<>>
  BY DEF Plan
<1>a. A = <<Event("added", x, <<round, i>>)>>
  BY DEF Added
<1>e. /\ <<>> \o <<>> = <<>>
      /\ (<<>> \o D) \o <<>> = <<>> \o D
      /\ (A \o D) \o <<>> = A \o D
  <2> HIDE DEF A, D
  <2>1. A \in Seq({A[1]}) /\ D \in Seq({D[1]})
    BY DEF A, D
  <2> QED BY <2>1
<1>s. Streamed(items, i, x) \in Seq(ItemEvs)
  <2>1. Rebased(Streamed(items, i, i)) \in Seq(ItemEvs)
    BY <1>1, <1>3, RebasedFacts
  <2> QED BY <1>3, <2>1
<1> HIDE DEF A, D
<1>6. CASE KindOf(i) = "gateway"
  <2>1. i \in GatewayCalls /\ Streamed(items, i, x) = <<>>
    BY <1>6, GatewayBehind
  <2>2. Rebased(Of(deferred, i)) = <<>>
    BY <1>5, <2>1
  <2>3. Plan("added", i) = A /\ Plan("done", i) = D
    BY <1>6, <1>a, <1>g DEF D
  <2>4. ExecutePart(i) = ((IF i \in InitialRun THEN <<>> ELSE A) \o D) \o <<>>
    BY <2>1, <2>2, <2>3 DEF ExecutePart
  <2> QED BY <1>6, <1>e, <2>4 DEF A, D
<1>7. CASE KindOf(i) # "gateway"
  <2>1. Plan("added", i) = <<>> /\ Plan("done", i) = <<>>
    BY <1>7, <1>g
  <2>2. ExecutePart(i) = (<<>> \o <<>>) \o Rebased(Of(deferred, i))
    BY <2>1 DEF ExecutePart
  <2>3. Rebased(Of(deferred, i)) \in Seq(ItemEvs)
    BY <1>5, <1>s
  <2>4. ExecutePart(i) = Rebased(Of(deferred, i))
    BY <1>e, <2>2, <2>3, ConcatEmpty
  <2> QED BY <1>5, <1>7, <2>4
<1> QED BY <1>6, <1>7

\* The first calls start before the others and what was held back.
LEMMA InitialFirst ==
  ASSUME Typed, pc = "execute", Held, AllNamed,
         NEW i \in 1 .. Len(items), NEW j \in 1 .. Len(items),
         i \in InitialRun, j \notin InitialRun,
         KindOf(j) = "gateway" \/ (j \notin GatewayCalls /\ ~(j < Boundary(items)))
  PROVE  i <= j
<1>1. /\ items \in Seq(Slots) /\ Len(items) \in Nat /\ DOMAIN items = 1 .. Len(items)
      /\ script \in Seq(ItemKinds) /\ Len(items) <= Len(script) /\ Len(script) \in Nat
  BY DEF Typed, WorkTyped
<1>2. i \in GatewayCalls /\ GatewayCalls \subseteq 1 .. Len(items)
  BY <1>1 DEF InitialRun, GatewayCalls
<1>3. deferred # <<>>
  <2> SUFFICES ASSUME deferred = <<>> PROVE FALSE
    OBVIOUS
  <2>1. j \notin GatewayCalls /\ ~(j < Boundary(items))
    BY <1>2, GatewayBehind DEF InitialRun
  <2>2. Of(deferred, j) = Streamed(items, j, j)
    BY <1>1, <2>1 DEF Held
  <2>3. Of(deferred, j) = <<>>
    BY OfEmpty
  <2> QED BY <1>1, <2>1, <2>2, <2>3, StreamedStates
<1>4. PICK g \in GatewayCalls : \A k \in GatewayCalls : g <= k
  <2>1. GatewayCalls \subseteq Nat /\ GatewayCalls # {}
    BY <1>1, <1>2
  <2> QED BY <2>1, Ofs!Least
<1>5. Min(GatewayCalls) = g
  <2> DEFINE P(y) == y \in GatewayCalls /\ \A k \in GatewayCalls : y <= k
  <2>1. P(g)
    BY <1>4
  <2>2. \A y : P(y) => y = g
    BY <1>1, <1>2, <1>4
  <2> QED BY <1>4, <2>1, <2>2 DEF Min
<1>6. /\ \A k \in 1 .. g - 1 : KindOf(k) # "custom"
      /\ \A k \in g .. i : k \in GatewayCalls
  BY <1>3, <1>5 DEF InitialRun
<1>7. g <= j
  <2>1. CASE KindOf(j) = "gateway"
    BY <1>4, <2>1, GatewayBehind
  <2>2. CASE ~(j < Boundary(items))
    <3>1. Boundary(items) \in Nat \ {0} /\ (Boundary(items) = Len(script) + 1 \/ Bad(items, Boundary(items)))
      BY <1>1, BoundaryBad
    <3>2. Bad(items, Boundary(items))
      BY <1>1, <2>2, <3>1
    <3>3. Boundary(items) \in GatewayCalls
      BY <3>2, GatewayBehind DEF Bad, AllNamed
    <3> QED BY <1>1, <1>2, <1>4, <2>2, <3>1, <3>3
  <2> QED BY <2>1, <2>2
<1> SUFFICES ASSUME j < i PROVE FALSE
  BY <1>1
<1>8. j \in GatewayCalls
  BY <1>1, <1>2, <1>6, <1>7
<1>9. \A k \in g .. j : k \in GatewayCalls
  BY <1>1, <1>2, <1>6
<1>10. j \in InitialRun
  BY <1>3, <1>5, <1>6, <1>8, <1>9 DEF InitialRun
<1> QED BY <1>10

-----------------------------------------------------------------------------
\* What is shown of an item as started by the end of the round.
LEMMA ExecuteStarts ==
  ASSUME Typed, pc = "execute", Held, NEW j \in 1 .. Len(items),
         NEW k \in 1 .. Len(ExecutePart(j)), Starts(ExecutePart(j)[k])
  PROVE  /\ j \notin InitialRun
         /\ KindOf(j) = "gateway" \/ (j \notin GatewayCalls /\ ~(j < Boundary(items)))
<1> DEFINE x == Len(combined) + j
           D == Event("done", x, <<round, j>>)
<1>1. CASE KindOf(j) = "gateway"
  <2>1. ExecutePart(j) = (IF j \in InitialRun THEN <<>> ELSE <<Added(x, <<round, j>>)>>) \o <<D>>
    BY <1>1, ExecuteParts
  <2>2. j \notin InitialRun
    <3> SUFFICES ASSUME j \in InitialRun PROVE FALSE
      OBVIOUS
    <3>1. ~Starts(D)
      BY DEF Starts, Event
    <3> HIDE DEF D
    <3>2. ExecutePart(j) = <<>> \o <<D>>
      BY <2>1
    <3>3. <<>> \o <<D>> = <<D>>
      OBVIOUS
    <3>4. ExecutePart(j)[k] = D
      BY <3>2, <3>3
    <3> QED BY <3>1, <3>4
  <2> QED BY <1>1, <2>2
<1>2. CASE KindOf(j) # "gateway"
  <2>1. ExecutePart(j) = IF j < Boundary(items) THEN <<>> ELSE Streamed(items, j, x)
    BY <1>2, ExecuteParts
  <2>2. ExecutePart(j) # <<>>
    OBVIOUS
  <2> HIDE DEF x
  <2>3. ~(j < Boundary(items)) /\ Streamed(items, j, x) # <<>>
    BY <2>1, <2>2
  <2>4. j \notin GatewayCalls
    BY <2>3, GatewayBehind
  <2>5. j \notin InitialRun
    BY <2>4, GatewayBehind
  <2> QED BY <2>3, <2>4, <2>5
<1> QED BY <1>1, <1>2

\* Content: the end of a round is shown.
LEMMA ExecuteStreaming ==
  ASSUME Typed, Streaming, Sound, Execute
  PROVE  Streaming'
<1> DEFINE out == ExecuteOutbox
<1>1. /\ pc = "execute" /\ pc' = "close" /\ outbox = <<>> /\ outbox' = out /\ round' = round
      /\ items' = items /\ deferred' = <<>> /\ begun' = begun /\ combined' = combined
      /\ UNCHANGED <<channel, consumerVars>>
  BY DEF Execute, Working, turnVars, ExecuteOutbox
<1>2. Beginning /\ Held /\ Listed /\ Content(Sent)
  BY DEF Streaming
<1>3. items \in Seq(Slots) /\ Len(combined) \in Nat /\ round \in Nat /\ Len(items) \in Nat
      /\ deferred \in Seq(ItemEvs)
  BY DEF Typed, WorkTyped
<1>4. /\ out \in Seq(ItemEvs) /\ Ascending(out)
      /\ \A i \in Nat \ {0} : Of(out, Len(combined) + i) =
                IF i \in 1 .. Len(items) THEN ExecutePart(i) ELSE <<>>
      /\ \A k \in 1 .. Len(out) : out[k].index > Len(combined)
  BY <1>3, ExecuteFacts
<1> HIDE DEF out
<1>5. /\ Sent' = Sent \o out /\ Sent \in Seq(Evs) /\ out \in Seq(Evs)
      /\ \A i \in Nat \ {0} : Of(Sent', Len(combined) + i) =
                Of(Sent, Len(combined) + i) \o Of(out, Len(combined) + i)
  <2>1. outbox' \in Seq(ItemEvs)
    BY <1>1, <1>4
  <2> QED BY <1>1, <1>3, <2>1, SentJoin
<1>6. Base = Len(combined) /\ Base' = Len(combined)
  BY <1>1 DEF Base
<1>7. \A i : IsGateway(i)' = IsGateway(i)
  BY <1>1 DEF KindOf, IsGateway
<1>8. \A i, x : Streamed(items, i, x)' = Streamed(items, i, x)
  BY <1>1 DEF Streamed, Added, Both
<1>9. Beginning'
  BY <1>1, <1>2 DEF Beginning
<1>10. Held'
  BY <1>1 DEF Held
<1>11. Listed'
  BY <1>1, <1>2, <1>6 DEF Listed
<1>o. \A i \in Nat \ {0} : Of(Sent, Len(combined) + i) =
         IF IsGateway(i) THEN IF i \in InitialRun THEN <<Added(Len(combined) + i, <<round, i>>)>> ELSE <<>>
         ELSE IF i < Boundary(items) THEN Streamed(items, i, Len(combined) + i) ELSE <<>>
  BY <1>1, <1>2, <1>6 DEF Content, Current
<1>12. Content(Sent)'
  <2>1. ASSUME NEW i \in Nat \ {0} PROVE Of(Sent', Base' + i) = Current(i)'
    <3> DEFINE x == Len(combined) + i
               A == Added(x, <<round, i>>)
               D == Event("done", x, <<round, i>>)
    <3>1. Current(i)' = IF IsGateway(i) THEN Both(x, <<round, i>>) ELSE Streamed(items, i, x)
      BY <1>1, <1>6, <1>7, <1>8 DEF Current, Both
    <3>2. Of(Sent', x) = Of(Sent, x) \o Of(out, x)
      BY <1>5
    <3>3. Of(Sent, x) = IF IsGateway(i) THEN IF i \in InitialRun THEN <<A>> ELSE <<>>
                        ELSE IF i < Boundary(items) THEN Streamed(items, i, x) ELSE <<>>
      BY <1>o
    <3>4. Of(Sent, x) \in Seq(Evs) /\ Of(out, x) \in Seq(Evs)
      BY <1>3, <1>5, OfType
    <3>g. Of(out, x) = IF i \in 1 .. Len(items) THEN ExecutePart(i) ELSE <<>>
      BY <1>4
    <3>b. Both(x, <<round, i>>) = <<A>> \o <<D>>
      BY DEF Both, Added
    <3>p. i \in 1 .. Len(items) =>
            /\ IsGateway(i) => ExecutePart(i) = (IF i \in InitialRun THEN <<>> ELSE <<A>>) \o <<D>>
            /\ ~IsGateway(i) => ExecutePart(i) = IF i < Boundary(items) THEN <<>> ELSE Streamed(items, i, x)
      BY <1>1, <1>2, ExecuteParts DEF IsGateway
    <3> HIDE DEF x, A, D
    <3>e. <<>> \o <<D>> = <<D>> /\ <<>> \o (<<A>> \o <<D>>) = <<A>> \o <<D>>
      OBVIOUS
    <3>5. CASE i \in 1 .. Len(items) /\ IsGateway(i)
      <4>1. Of(Sent', x) = <<A>> \o <<D>>
        BY <3>2, <3>3, <3>5, <3>e, <3>g, <3>p
      <4> QED BY <1>6, <3>1, <3>5, <3>b, <4>1 DEF x
    <3>6. CASE i \in 1 .. Len(items) /\ ~IsGateway(i)
      <4>1. Of(Sent', x) = Streamed(items, i, x)
        BY <3>2, <3>3, <3>4, <3>6, <3>g, <3>p, ConcatEmpty
      <4> QED BY <1>6, <3>1, <3>6, <4>1 DEF x
    <3>7. CASE i \notin 1 .. Len(items)
      <4>0. i > Len(items)
        BY <1>3, <3>7
      <4>1. ~IsGateway(i)
        BY <1>3, <3>7 DEF IsGateway
      <4>2. Streamed(items, i, x) = <<>>
        BY <4>0 DEF Streamed
      <4>3. Of(Sent', x) = <<>>
        BY <3>2, <3>3, <3>7, <3>g, <4>1, <4>2
      <4> QED BY <1>6, <3>1, <4>1, <4>2, <4>3 DEF x
    <3> QED BY <3>5, <3>6, <3>7
  <2>2. \A x \in 1 .. Base' : ClosedAt(Sent, x)'
    <3>1. \A x \in 1 .. Base : ClosedAt(Sent, x)
      BY <1>1, <1>2 DEF Content, Beginning
    <3>2. \A x \in 1 .. Base : ClosedAt(Sent \o out, x)
      BY <1>3, <1>4, <1>5, <1>6, <3>1, ClosedKept
    <3> QED BY <1>1, <1>5, <1>6, <3>2 DEF ClosedAt, Added, Both
  <2>3. ASSUME AllNamed PROVE Sorted(Sent)'
    <3>1. Sorted(Sent) /\ Sorted(out)
      BY <1>1, <1>2, <1>4, AscendingSorted DEF Content
    <3>2. ASSUME NEW i \in Nat \ {0}, NEW j \in Nat \ {0},
                 NEW k \in 1 .. Len(Of(Sent, Len(combined) + i)),
                 NEW l \in 1 .. Len(Of(out, Len(combined) + j)),
                 Starts(Of(out, Len(combined) + j)[l])
          PROVE  i <= j
      <4>1. Of(Sent, Len(combined) + i) # <<>> /\ Of(out, Len(combined) + j) # <<>>
        OBVIOUS
      <4>2. j \in 1 .. Len(items) /\ Of(out, Len(combined) + j) = ExecutePart(j)
        BY <1>4, <4>1
      <4>3. /\ j \notin InitialRun
            /\ KindOf(j) = "gateway" \/ (j \notin GatewayCalls /\ ~(j < Boundary(items)))
        BY <1>1, <1>2, <3>2, <4>2, ExecuteStarts
      <4>4. CASE IsGateway(i)
        <5>1. i \in 1 .. Len(items) /\ i \in InitialRun
          <6>1. i \in InitialRun
            BY <1>o, <4>1, <4>4
          <6> QED BY <1>3, <4>4, <6>1 DEF IsGateway
        <5> QED BY <1>1, <1>2, <2>3, <4>2, <4>3, <5>1, InitialFirst
      <4>5. CASE ~IsGateway(i)
        <5>1. i < Boundary(items)
          BY <1>o, <4>1, <4>5
        <5>2. Boundary(items) <= j /\ Boundary(items) \in Nat
          <6>1. Boundary(items) \in Nat
            BY <1>3, BoundaryFacts DEF Typed, WorkTyped
          <6>2. CASE KindOf(j) = "gateway"
            BY <4>2, <6>2, GatewayBehind
          <6>3. CASE ~(j < Boundary(items))
            BY <1>3, <4>2, <6>1, <6>3
          <6> QED BY <4>3, <6>2, <6>3
        <5> QED BY <5>1, <5>2
      <4> QED BY <4>4, <4>5
    <3>3. Sorted(Sent \o out)
      BY <1>3, <1>4, <1>5, <3>1, <3>2, SortedBehind
    <3> QED BY <1>5, <3>3 DEF Sorted
  <2>4. AllNamed' = AllNamed
    BY <1>1 DEF AllNamed
  <2> QED BY <1>1, <2>1, <2>2, <2>3, <2>4 DEF Content
<1> QED BY <1>9, <1>10, <1>11, <1>12 DEF Streaming

-----------------------------------------------------------------------------
\* At the end of a round what was shown of its items is what is shown of a closed round.
LEMMA ClosedItem ==
  ASSUME Typed, NEW i \in 1 .. Len(items), NEW x \in Nat, NEW sent,
         Of(sent, x) = IF IsGateway(i) THEN Both(x, <<round, i>>) ELSE Streamed(items, i, x),
         NEW it, it = Item(round, i, KindOf(i)), AllNamed
  PROVE  /\ it.kind \in Records \cup {"gateway"} => Of(sent, x) = Both(x, <<it.round, it.place>>)
         /\ it.kind \notin Records
         /\ it.kind = "handlerless" => Of(sent, x) = <<>>
         /\ it.kind \in {"message", "function", "custom"} =>
               Of(sent, x) = <<Added(x, <<it.round, it.place>>)>> \/ Of(sent, x) = Both(x, <<it.round, it.place>>)
<1>1. it.kind = KindOf(i) /\ it.round = round /\ it.place = i
  BY DEF Item
<1>2. KindOf(i) \in ItemKinds /\ items[i] \in Slots
  BY OutputType DEF Typed, WorkTyped
<1>3. ItemKinds \cap Records = {} /\ ~(i > Len(items))
  BY DEF ItemKinds, Records
<1>4. IsGateway(i) <=> KindOf(i) = "gateway"
  BY GatewayBehind
<1>5. CASE KindOf(i) = "gateway"
  BY <1>1, <1>3, <1>4, <1>5 DEF Records
<1>6. CASE KindOf(i) = "handlerless"
  <2>1. items[i].kind \in GatewayKinds
    BY <1>6 DEF KindOf, GatewayKinds
  <2>2. Of(sent, x) = <<>>
    BY <1>4, <1>6, <2>1 DEF Streamed
  <2> QED BY <1>1, <1>6, <2>2 DEF Records
<1>7. CASE KindOf(i) \in {"message", "function", "custom"}
  <2>1. items[i].state # "unnamed" /\ items[i].kind = KindOf(i)
    BY DEF AllNamed, KindOf
  <2>2. items[i].kind \notin GatewayKinds
    BY <1>7, <2>1 DEF GatewayKinds
  <2>3. Of(sent, x) = Streamed(items, i, x)
    BY <1>4, <1>7
  <2>4. Streamed(items, i, x) = <<Added(x, <<round, i>>)>> \/ Streamed(items, i, x) = Both(x, <<round, i>>)
    BY <1>3, <2>1, <2>2 DEF Streamed
  <2> QED BY <1>1, <1>7, <2>3, <2>4 DEF Records
<1> QED BY <1>2, <1>5, <1>6, <1>7 DEF ItemKinds

\* Content: a round is recorded, and the next begins or the turn ends.
LEMMA CloseStreaming ==
  ASSUME Typed, Streaming, Sound, CloseRound
  PROVE  Streaming'
<1> DEFINE L == Len(combined)
           M == Len(items)
<1>1. /\ pc = "close" /\ outbox = <<>> /\ outbox' = <<>>
      /\ items' = items /\ deferred' = deferred /\ begun' = begun /\ combined' = combined \o OutputItems
      /\ \/ pc' = "round" /\ round' = round + 1 /\ Continues
         \/ pc' = "ended" /\ round' = round
      /\ UNCHANGED <<channel, consumerVars>>
  BY DEF CloseRound, Working
<1>2. Beginning /\ Held /\ Listed /\ Content(Sent)
  BY DEF Streaming
<1>3. items \in Seq(Slots) /\ L \in Nat /\ round \in Nat /\ M \in Nat /\ combined \in Seq(OutItems)
  BY DEF Typed, WorkTyped
<1>4. /\ OutputItems \in Seq(OutItems) /\ Len(OutputItems) = M
      /\ \A i \in 1 .. M : OutputItems[i] = Item(round, i, KindOf(i))
  BY <1>3, OutputType
<1> HIDE DEF L, M
<1>l. L = Len(combined) /\ M = Len(items)
  BY DEF L, M
<1>5. /\ Len(combined') = L + M
      /\ \A x \in 1 .. L : combined'[x] = combined[x]
      /\ \A i \in 1 .. M : combined'[L + i] = Item(round, i, KindOf(i))
  <2>1. Len(combined') = L + M
    <3>1. \A s, t \in Seq(OutItems) : Len(s \o t) = Len(s) + Len(t)
      OBVIOUS
    <3> QED BY <1>1, <1>3, <1>4, <1>l, <3>1
  <2>2. ASSUME NEW x \in 1 .. L PROVE combined'[x] = combined[x]
    BY <1>1, <1>3, <1>4, <1>l
  <2>3. ASSUME NEW i \in 1 .. M PROVE combined'[L + i] = OutputItems[i]
    <3>1. L + i \in 1 .. L + M /\ ~(L + i <= L) /\ (L + i) - L = i
      BY <1>3
    <3>2. \A k \in 1 .. L + M : (combined \o OutputItems)[k] =
             IF k <= L THEN combined[k] ELSE OutputItems[k - L]
      BY <1>3, <1>4, <1>l
    <3> QED BY <1>1, <3>1, <3>2
  <2> QED BY <1>4, <2>1, <2>2, <2>3
<1>6. Sent' = Sent
  <2>1. Sent' = Sent \o <<>> /\ Sent \in Seq(Evs)
    BY <1>1, SentWorker
  <2> QED BY <2>1, ConcatEmpty
<1>7. Base = L /\ (pc' = "ended" => Base' = L) /\ (pc' = "round" => Base' = L + M)
  BY <1>1, <1>3, <1>5, <1>l DEF Base
<1>8. \A i : KindOf(i)' = KindOf(i) /\ IsGateway(i)' = IsGateway(i)
  BY <1>1 DEF KindOf, IsGateway
<1>9. begun /\ deferred = <<>>
  BY <1>1, <1>2 DEF Beginning, Held
<1>10. Beginning' /\ Held'
  BY <1>1, <1>9 DEF Beginning, Held
<1>o. \A i \in Nat \ {0} : Of(Sent, L + i) =
         IF IsGateway(i) THEN Both(L + i, <<round, i>>) ELSE Streamed(items, i, L + i)
  BY <1>1, <1>2, <1>7 DEF Content, Current
<1>n. pc' = "round" => AllNamed
  BY <1>1, <1>3, <1>l DEF Continues, HasClientOwned, KindOf, AllNamed
<1>11. Listed'
  <2>1. CASE pc' = "ended"
    BY <1>1, <1>2, <1>5, <1>7, <1>8, <1>l, <2>1 DEF Listed
  <2>2. CASE pc' = "round"
    <3>1. ASSUME NEW x \in 1 .. L + M PROVE combined'[x].round < round'
      <4>1. round' = round + 1
        BY <1>1, <2>2
      <4>2. CASE x \in 1 .. L
        <5>1. combined[x] \in OutItems
          BY <1>3, <1>l, <4>2
        <5>2. combined[x].round \in Nat
          BY <5>1 DEF OutItems
        <5> QED BY <1>2, <1>3, <1>5, <1>7, <4>1, <4>2, <5>2 DEF Listed
      <4>3. CASE x \notin 1 .. L
        <5> DEFINE i == x - L
        <5>1. i \in 1 .. M /\ L + i = x
          BY <1>3, <4>3
        <5> HIDE DEF i
        <5>2. combined'[x] = Item(round, i, KindOf(i))
          BY <1>5, <5>1
        <5> QED BY <1>3, <4>1, <5>2 DEF Item
      <4> QED BY <4>2, <4>3
    <3> QED BY <1>3, <1>7, <2>2, <3>1 DEF Listed
  <2> QED BY <1>1, <2>1, <2>2
<1>12. Content(Sent)'
  <2>1. ASSUME NEW i \in Nat \ {0} PROVE Of(Sent', Base' + i) = Current(i)'
    <3>1. CASE pc' = "ended"
      <4>1. Current(i)' = IF IsGateway(i) THEN Both(L + i, <<round, i>>) ELSE Streamed(items, i, L + i)
        BY <1>1, <1>7, <1>8, <3>1 DEF Current, Both, Streamed, Added
      <4> QED BY <1>6, <1>7, <1>o, <3>1, <4>1
    <3>2. CASE pc' = "round"
      <4>1. Current(i)' = <<>>
        BY <3>2 DEF Current
      <4> DEFINE j == M + i
      <4>2. j \in Nat \ {0} /\ j > M /\ ~(j <= M) /\ L + j = Base' + i
        BY <1>3, <1>7, <3>2
      <4> HIDE DEF j
      <4>3. ~IsGateway(j) /\ Streamed(items, j, L + j) = <<>>
        BY <1>l, <4>2 DEF IsGateway, Streamed
      <4> QED BY <1>6, <1>o, <4>1, <4>2, <4>3
    <3> QED BY <1>1, <3>1, <3>2
  <2>c. ASSUME NEW x \in 1 .. L PROVE ClosedAt(Sent, x)'
    <3>1. ClosedAt(Sent, x)
      BY <1>2, <1>7, <1>9 DEF Content
    <3> QED BY <1>5, <1>6, <3>1 DEF ClosedAt, Added, Both
  <2>2. \A x \in 1 .. Base' : ClosedAt(Sent, x)'
    <3>1. CASE pc' = "ended"
      BY <1>7, <2>c, <3>1
    <3>2. CASE pc' = "round"
      <4> SUFFICES ASSUME NEW x \in 1 .. L + M, x \notin 1 .. L PROVE ClosedAt(Sent, x)'
        BY <1>7, <2>c, <3>2
      <4> DEFINE i == x - L
      <4>1. i \in 1 .. M /\ L + i = x /\ i \in Nat \ {0} /\ x \in Nat
        BY <1>3
      <4> HIDE DEF i
      <4>2. combined'[x] = Item(round, i, KindOf(i))
        BY <1>5, <4>1
      <4>3. Of(Sent, x) = IF IsGateway(i) THEN Both(x, <<round, i>>) ELSE Streamed(items, i, x)
        BY <1>o, <4>1
      <4> DEFINE it == Item(round, i, KindOf(i))
      <4>4. /\ it.kind \in Records \cup {"gateway"} => Of(Sent, x) = Both(x, <<it.round, it.place>>)
            /\ it.kind \notin Records
            /\ it.kind = "handlerless" => Of(Sent, x) = <<>>
            /\ it.kind \in {"message", "function", "custom"} =>
                  Of(Sent, x) = <<Added(x, <<it.round, it.place>>)>> \/ Of(Sent, x) = Both(x, <<it.round, it.place>>)
        BY <1>l, <1>n, <3>2, <4>1, <4>3, ClosedItem
      <4> HIDE DEF it
      <4>5. combined'[x] = it /\ Of(Sent', x) = Of(Sent, x)
        BY <1>6, <4>2 DEF it
      <4> QED BY <4>4, <4>5 DEF ClosedAt, Added, Both
    <3> QED BY <1>1, <3>1, <3>2
  <2>3. AllNamed' = AllNamed /\ Sorted(Sent)' = Sorted(Sent)
    BY <1>1, <1>6 DEF AllNamed, Sorted
  <2>4. AllNamed => Sorted(Sent)
    BY <1>1, <1>2 DEF Content
  <2> QED BY <1>1, <1>n, <2>1, <2>2, <2>3, <2>4 DEF Content
<1> QED BY <1>10, <1>11, <1>12 DEF Streaming

\* Content is preserved by every step.
LEMMA StreamingNext == ASSUME Typed, Ending, Streaming, StreamNext PROVE Streaming'
<1>1. CASE Worker
  <2>1. Sound /\ (Sound' => result' \in {"none", "ok"})
    BY <1>1, SoundWorker
  <2>2. CASE Discover
    BY <2>1, <2>2, DiscoverStreaming
  <2>3. CASE CompactionTrigger
    BY <2>1, <2>3, TriggerStreaming
  <2>4. CASE Return
    BY <2>1, <2>4, ReturnStreaming
  <2>5. CASE BeginRound
    BY <2>1, <2>5, BeginStreaming
  <2>6. CASE UpstreamEnds
    <3>1. PICK s \in {"completed", "incomplete", "failed"} : EndStream(s)
      BY <2>6 DEF UpstreamEnds
    <3>2. CASE s = "failed"
      <4>1. status' = "failed" /\ result' = "ok"
        BY <3>1, <3>2 DEF EndStream
      <4> QED BY <4>1 DEF Streaming, Sound
    <3>3. CASE s # "failed"
      BY <2>1, <3>1, <3>3, EndStreaming
    <3> QED BY <3>2, <3>3
  <2>7. CASE Execute
    BY <2>1, <2>7, ExecuteStreaming
  <2>8. CASE CloseRound
    BY <2>1, <2>8, CloseStreaming
  <2>9. CASE WorkerFails
    <3>1. result' \notin {"none", "ok"}
      BY <2>9 DEF WorkerFails
    <3> QED BY <2>1, <3>1 DEF Streaming
  <2>10. CASE AddItem \/ NameCall \/ DoneItem
    BY <2>1, <2>10, ItemsStreaming
  <2> QED BY <1>1, <2>2, <2>3, <2>4, <2>5, <2>6, <2>7, <2>8, <2>9, <2>10 DEF Worker
<1>2. CASE Panic \/ Oversized
  <2>1. result' \notin {"none", "ok"}
    BY <1>2 DEF Panic, Oversized
  <2> QED BY <2>1 DEF Streaming, Sound
<1>3. CASE Send
  <2>1. Sent' = Sent /\ UNCHANGED <<pc, roundVars, combined, result, status>>
    BY <1>3, SentSend DEF Send, turnVars
  <2>2. Sound' = Sound
    BY <2>1 DEF Sound
  <2> QED BY <2>1, <2>2, StreamingSame DEF Streaming
<1>4. CASE Polling
  <2>1. Sent' = Sent /\ UNCHANGED <<pc, roundVars, combined, result, status>>
    BY <1>4, SentPoll DEF Polling, Receive, Join, ChannelDrained, Persist, Yield, Drop, turnVars
  <2>2. Sound' = Sound
    BY <2>1 DEF Sound
  <2> QED BY <2>1, <2>2, StreamingSame DEF Streaming
<1>5. CASE UNCHANGED streamVars
  <2>1. Sent' = Sent /\ UNCHANGED <<pc, roundVars, combined, result, status>>
    BY <1>5 DEF streamVars, turnVars, consumerVars, roundVars, Sent, EventsOf, Seen, Front1
  <2>2. Sound' = Sound
    BY <2>1 DEF Sound
  <2> QED BY <2>1, <2>2, StreamingSame DEF Streaming
<1> QED BY <1>1, <1>2, <1>3, <1>4, <1>5
        DEF StreamNext, Work, Worker, Poll, Polling, Over

-----------------------------------------------------------------------------
(* What the client has seen of a turn that ended well.                     *)

At(s, t, x) == {n \in 1 .. Len(s) : s[n].type = t /\ s[n].index = x}

\* Of an item without events nothing stands in the sequence.
LEMMA AtNothing ==
  ASSUME NEW s \in Seq(Evs), NEW x \in Nat \ {0}, Of(s, x) = <<>>
  PROVE  \A t : At(s, t, x) = {}
<1> SUFFICES ASSUME NEW n \in 1 .. Len(s), s[n].index = x PROVE FALSE
  BY DEF At
<1>1. Of(s, x) # <<>>
  BY OfFound
<1> QED BY <1>1

\* Of an item that was started there is one event.
LEMMA AtAdded ==
  ASSUME NEW s \in Seq(Evs), NEW x \in Nat \ {0}, NEW r, Of(s, x) = <<Added(x, r)>>
  PROVE  /\ \E m : At(s, "added", x) = {m} /\ s[m].item = r
         /\ At(s, "done", x) = {}
<1> DEFINE A == Added(x, r)
<1>1. A.type = "added" /\ A.item = r
  BY AddedFacts
<1> HIDE DEF A
<1>2. PICK pos : Positions(s, x, pos)
  <2>1. x \in Nat
    OBVIOUS
  <2> QED BY <2>1, OfPositions
<1> DEFINE o == Of(s, x)
<1>3. Len(o) = 1 /\ o[1] = A
  BY DEF A
<1> HIDE DEF o
<1>4. /\ pos[1] \in 1 .. Len(s) /\ s[pos[1]] = A /\ s[pos[1]].index = x
      /\ \A n \in 1 .. Len(s) : s[n].index = x => pos[1] = n
  <2>1. /\ pos \in [1 .. Len(o) -> 1 .. Len(s)]
        /\ \A k \in 1 .. Len(o) : o[k] = s[pos[k]] /\ s[pos[k]].index = x
        /\ \A n \in 1 .. Len(s) : s[n].index = x => \E k \in 1 .. Len(o) : pos[k] = n
    BY <1>2 DEF Positions, o
  <2>2. \A k : k \in 1 .. Len(o) <=> k = 1
    BY <1>3
  <2> QED BY <1>3, <2>1, <2>2
<1>5. At(s, "added", x) = {pos[1]} /\ s[pos[1]].item = r
  BY <1>1, <1>4 DEF At
<1>6. At(s, "done", x) = {}
  BY <1>1, <1>4 DEF At
<1> QED BY <1>5, <1>6

\* Of an item that was started and done there are two, in this order.
LEMMA AtBoth ==
  ASSUME NEW s \in Seq(Evs), NEW x \in Nat \ {0}, NEW r, Of(s, x) = Both(x, r)
  PROVE  \E m, n \in 1 .. Len(s) :
            /\ m < n /\ At(s, "added", x) = {m} /\ At(s, "done", x) = {n}
            /\ s[m].item = r /\ s[n].item = r
<1> DEFINE o == Of(s, x)
<1>1. /\ Len(o) = 2 /\ o[1].type = "added" /\ o[2].type = "done"
      /\ o[1].item = r /\ o[2].item = r
  BY BothFacts
<1>2. PICK pos : Positions(s, x, pos)
  <2>1. x \in Nat
    OBVIOUS
  <2> QED BY <2>1, OfPositions
<1> HIDE DEF o
<1>3. /\ pos \in [1 .. Len(o) -> 1 .. Len(s)]
      /\ \A k \in 1 .. Len(o) : o[k] = s[pos[k]] /\ s[pos[k]].index = x
      /\ \A k, l \in 1 .. Len(o) : k < l => pos[k] < pos[l]
      /\ \A n \in 1 .. Len(s) : s[n].index = x => \E k \in 1 .. Len(o) : pos[k] = n
  BY <1>2 DEF Positions, o
<1>4. \A k : k \in 1 .. Len(o) <=> k = 1 \/ k = 2
  BY <1>1
<1>5. /\ pos[1] \in 1 .. Len(s) /\ pos[2] \in 1 .. Len(s) /\ pos[1] < pos[2]
      /\ s[pos[1]] = o[1] /\ s[pos[2]] = o[2] /\ s[pos[1]].index = x /\ s[pos[2]].index = x
      /\ \A n \in 1 .. Len(s) : s[n].index = x => n = pos[1] \/ n = pos[2]
  <2>1. 1 \in 1 .. Len(o) /\ 2 \in 1 .. Len(o)
    BY <1>4
  <2>2. pos[1] < pos[2]
    BY <1>3, <2>1
  <2>3. \A n \in 1 .. Len(s) : s[n].index = x => n = pos[1] \/ n = pos[2]
    BY <1>3, <1>4
  <2> QED BY <1>3, <2>1, <2>2, <2>3
<1>6. At(s, "added", x) = {pos[1]}
  BY <1>1, <1>5 DEF At
<1>7. At(s, "done", x) = {pos[2]}
  BY <1>1, <1>5 DEF At
<1> QED BY <1>1, <1>5, <1>6, <1>7

\* The end of a turn that ended well.
LEMMA AnsweredFacts ==
  ASSUME Typed, Ending, Streaming, Answered
  PROVE  /\ pc = "ended" /\ Sound
         /\ Content(Sent) /\ Listed
         /\ Sent \in Seq(Evs) /\ Len(delivered) = Len(Sent) + 1
         /\ \A n \in 1 .. Len(Sent) : delivered[n].event = Sent[n]
         /\ \A t \in {"added", "done"} : Shown(t) = {n \in 1 .. Len(Sent) : Sent[n].type = t}
<1>1. /\ stream = "ended" /\ delivered \in Seq(Deliveries) /\ Len(delivered) > 0 /\ Len(delivered) \in Nat
      /\ delivered[Len(delivered)].event.type \in {"completed", "incomplete"}
  BY DEF Answered, Last, Typed, PollTyped
<1>2. delivered[Len(delivered)] = chunk
  BY <1>1 DEF Ending
<1>3. /\ result = "ok" /\ chunk.event = Terminal(status) /\ pc = "ended" /\ outbox = <<>> /\ channel = <<>>
  BY <1>1, <1>2 DEF Ending
<1>4. status # "failed"
  BY <1>1, <1>2, <1>3 DEF Terminal, Event
<1>5. Sound
  BY <1>3, <1>4 DEF Sound
<1>6. Content(Sent) /\ Listed
  BY <1>5 DEF Streaming
<1>7. Sent = EventsOf(Seen) /\ Sent \in Seq(Evs)
  <2>1. EventsOf(Seen) \in Seq(Evs)
    BY SentType
  <2>2. EventsOf(channel) = <<>>
    BY <1>3 DEF EventsOf
  <2>3. Sent = (EventsOf(Seen) \o <<>>) \o <<>>
    BY <1>3, <2>2 DEF Sent
  <2> QED BY <2>1, <2>3, ConcatEmpty
<1>8. Seen = [n \in 1 .. Len(delivered) - 1 |-> delivered[n]]
  BY <1>1 DEF Seen, Front1
<1>9. Len(Seen) = Len(delivered) - 1
  BY <1>1, <1>8
<1>10. Sent = [n \in 1 .. Len(delivered) - 1 |-> delivered[n].event]
  BY <1>7, <1>8, <1>9 DEF EventsOf
<1>11. Len(delivered) = Len(Sent) + 1 /\ \A n \in 1 .. Len(Sent) : delivered[n].event = Sent[n]
  BY <1>1, <1>10
<1>12. ASSUME NEW t \in {"added", "done"} PROVE Shown(t) = {n \in 1 .. Len(Sent) : Sent[n].type = t}
  <2>1. DOMAIN delivered = 1 .. Len(delivered)
    BY <1>1
  <2>2. \A n : n \in 1 .. Len(delivered) <=> n \in 1 .. Len(Sent) \/ n = Len(delivered)
    BY <1>1, <1>11
  <2>3. delivered[Len(delivered)].event.type # t
    BY <1>1
  <2> QED BY <1>11, <2>1, <2>2, <2>3 DEF Shown
<1> QED BY <1>3, <1>5, <1>6, <1>7, <1>11, <1>12

\* What an item is due.
Silent(x) == combined[x].kind = "handlerless" \/ Abandoned(x)
Due(x) == combined[x].kind \in {"list", "compaction", "gateway"}
          \/ (combined[x].round = round /\ items[combined[x].place].state = "done")

\* What was sent of every item of the output when the turn has ended well.
LEMMA AnsweredItem ==
  ASSUME Typed, Ending, Streaming, Answered, NEW x \in Nat \ {0}
  PROVE  /\ x \in DOMAIN combined =>
               LET r == Ref(combined[x])
               IN  /\ Silent(x) => Of(Sent, x) = <<>>
                   /\ ~Silent(x) => Of(Sent, x) = <<Added(x, r)>> \/ Of(Sent, x) = Both(x, r)
                   /\ ~Silent(x) /\ Due(x) => Of(Sent, x) = Both(x, r)
         /\ x \notin DOMAIN combined => Of(Sent, x) = <<>>
<1>1. /\ pc = "ended" /\ Content(Sent) /\ Listed
  BY AnsweredFacts
<1> DEFINE B == Base
           M == Len(items)
           it == combined[x]
           s == Of(Sent, x)
<1>2. /\ combined \in Seq(OutItems) /\ items \in Seq(Slots) /\ M \in Nat /\ Len(combined) \in Nat
      /\ DOMAIN combined = 1 .. Len(combined) /\ round \in Nat
  BY DEF Typed, WorkTyped
<1>3. B = Len(combined) - M /\ B \in Nat
  BY <1>1 DEF Base, Listed
<1>b. B = Base
  OBVIOUS
<1> HIDE DEF B, M
<1>4. CASE x \in 1 .. B
  <2>1. x \in DOMAIN combined /\ it \in OutItems /\ it.round < round
    BY <1>1, <1>2, <1>3, <1>4, <1>b DEF Listed
  <2>2. ClosedAt(Sent, x)
    BY <1>1, <1>4, <1>b DEF Content
  <2>3. it.round # round /\ ~Abandoned(x)
    <3>1. it.round \in Nat
      BY <2>1 DEF OutItems
    <3>2. it.round # round
      BY <1>2, <2>1, <3>1
    <3> QED BY <3>2 DEF Abandoned
  <2>4. it.kind \in ItemKinds \cup Records
    BY <2>1 DEF OutItems
  <2>5. Ref(it) = IF it.kind \in Records THEN it ELSE <<it.round, it.place>>
    BY DEF Ref, Records
  <2>6. /\ it.kind \in Records \cup {"gateway"} => s = Both(x, Ref(it))
        /\ it.kind = "handlerless" => s = <<>>
        /\ it.kind \in {"message", "function", "custom"} => s = <<Added(x, Ref(it))>> \/ s = Both(x, Ref(it))
    BY <2>2, <2>5 DEF ClosedAt
  <2> HIDE DEF it, s
  <2>7. Silent(x) <=> it.kind = "handlerless"
    BY <2>3 DEF Silent, it
  <2>8. Due(x) => it.kind \in Records \cup {"gateway"}
    BY <2>3 DEF Due, it, Records
  <2>9. \/ it.kind \in Records \cup {"gateway"} \/ it.kind = "handlerless"
        \/ it.kind \in {"message", "function", "custom"}
    BY <2>4 DEF ItemKinds
  <2>10. "handlerless" \notin Records \cup {"gateway"}
    BY DEF Records
  <2>11. /\ Silent(x) => s = <<>>
         /\ ~Silent(x) => s = <<Added(x, Ref(it))>> \/ s = Both(x, Ref(it))
         /\ ~Silent(x) /\ Due(x) => s = Both(x, Ref(it))
    BY <2>6, <2>7, <2>8, <2>9, <2>10
  <2> QED BY <2>1, <2>11 DEF it, s
<1>5. CASE x \notin 1 .. B
  <2> DEFINE i == x - B
  <2>1. i \in Nat \ {0} /\ B + i = x
    BY <1>3, <1>5
  <2>2. x \in DOMAIN combined <=> i \in 1 .. M
    BY <1>2, <1>3, <1>5
  <2> HIDE DEF i
  <2>3. s = IF IsGateway(i) THEN Both(x, <<round, i>>) ELSE Streamed(items, i, x)
    BY <1>1, <1>b, <2>1 DEF Content, Current
  <2>4. CASE i \notin 1 .. M
    <3>1. i > Len(items) /\ ~(i <= Len(items))
      BY <1>2, <2>1, <2>4 DEF M
    <3> QED BY <2>2, <2>3, <2>4, <3>1 DEF IsGateway, Streamed
  <2>5. CASE i \in 1 .. M
    <3>1. it = Item(round, i, KindOf(i))
      BY <1>1, <1>b, <2>1, <2>5 DEF Listed, M
    <3>2. it.round = round /\ it.place = i /\ it.kind = KindOf(i)
      BY <3>1 DEF Item
    <3>3. KindOf(i) \in ItemKinds /\ items[i] \in Slots
      BY <1>2, <2>5, OutputType DEF M
    <3>4. Ref(it) = <<round, i>>
      BY <3>2, <3>3 DEF Ref, ItemKinds
    <3>5. IsGateway(i) <=> KindOf(i) = "gateway"
      BY <2>5, GatewayBehind DEF M
    <3> HIDE DEF it, s
    <3>6. Abandoned(x) <=> KindOf(i) = "function" /\ items[i].state = "unnamed"
      BY <3>2 DEF Abandoned, it
    <3>7. Silent(x) <=> KindOf(i) = "handlerless" \/ items[i].state = "unnamed"
      BY <3>2, <3>6 DEF Silent, it, KindOf
    <3>8. ~(i > Len(items))
      BY <1>2, <2>5 DEF M
    <3>9. CASE KindOf(i) = "gateway"
      <4>1. items[i].state # "unnamed"
        BY <3>9 DEF KindOf
      <4> QED BY <2>2, <2>3, <2>5, <3>4, <3>5, <3>7, <3>9, <4>1 DEF it, s
    <3>10. CASE KindOf(i) # "gateway"
      <4>1. s = Streamed(items, i, x)
        BY <2>3, <3>5, <3>10
      <4>2. items[i].state # "unnamed" => KindOf(i) = items[i].kind
        BY DEF KindOf
      <4>3. Silent(x) => s = <<>>
        BY <3>7, <4>1, <4>2 DEF Streamed, GatewayKinds
      <4>4. ASSUME ~Silent(x)
            PROVE  s = IF items[i].state = "open" THEN <<Added(x, <<round, i>>)>> ELSE Both(x, <<round, i>>)
        <5>1. items[i].state # "unnamed" /\ items[i].kind \notin GatewayKinds
          BY <3>7, <3>10, <4>2, <4>4 DEF GatewayKinds
        <5> QED BY <3>8, <4>1, <5>1 DEF Streamed
      <4>5. Due(x) <=> items[i].state = "done"
        BY <3>2, <3>3, <3>10 DEF Due, it, ItemKinds
      <4> QED BY <2>2, <2>5, <3>4, <4>3, <4>4, <4>5 DEF it, s
    <3> QED BY <3>9, <3>10
  <2> QED BY <2>4, <2>5
<1> QED BY <1>4, <1>5

-----------------------------------------------------------------------------
\* What the client saw of an item is what was sent of it.
LEMMA AnsweredAt ==
  ASSUME Typed, Ending, Streaming, Answered, NEW x \in DOMAIN combined, NEW t \in {"added", "done"}
  PROVE  ShownOf(t, x) = At(Sent, t, x)
<1>1. /\ \A n \in 1 .. Len(Sent) : delivered[n].event = Sent[n]
      /\ Shown(t) = {n \in 1 .. Len(Sent) : Sent[n].type = t}
  BY AnsweredFacts
<1> QED BY <1>1 DEF ShownOf, At

\* The events seen of an item of the output.
LEMMA AnsweredEvents ==
  ASSUME Typed, Ending, Streaming, Answered, NEW x \in DOMAIN combined
  PROVE  LET r == Ref(combined[x])
             Alone(m) == At(Sent, "added", x) = {m} /\ Sent[m].item = r /\ At(Sent, "done", x) = {}
             Ended(m, n) == /\ m < n /\ At(Sent, "added", x) = {m} /\ At(Sent, "done", x) = {n}
                            /\ Sent[m].item = r /\ Sent[n].item = r
         IN  /\ Silent(x) => At(Sent, "added", x) = {} /\ At(Sent, "done", x) = {}
             /\ ~Silent(x) => (\E m : Alone(m)) \/ (\E m, n \in 1 .. Len(Sent) : Ended(m, n))
             /\ ~Silent(x) /\ Due(x) => \E m, n \in 1 .. Len(Sent) : Ended(m, n)
<1> DEFINE r == Ref(combined[x])
<1>1. x \in Nat \ {0} /\ Sent \in Seq(Evs)
  BY AnsweredFacts DEF Typed, WorkTyped
<1>2. /\ Silent(x) => Of(Sent, x) = <<>>
      /\ ~Silent(x) => Of(Sent, x) = <<Added(x, r)>> \/ Of(Sent, x) = Both(x, r)
      /\ ~Silent(x) /\ Due(x) => Of(Sent, x) = Both(x, r)
  BY <1>1, AnsweredItem
<1> HIDE DEF r
<1>3. Of(Sent, x) = <<>> => At(Sent, "added", x) = {} /\ At(Sent, "done", x) = {}
  BY <1>1, AtNothing
<1>4. Of(Sent, x) = <<Added(x, r)>> =>
          \E m : At(Sent, "added", x) = {m} /\ Sent[m].item = r /\ At(Sent, "done", x) = {}
  BY <1>1, AtAdded
<1>5. Of(Sent, x) = Both(x, r) =>
          \E m, n \in 1 .. Len(Sent) :
            /\ m < n /\ At(Sent, "added", x) = {m} /\ At(Sent, "done", x) = {n}
            /\ Sent[m].item = r /\ Sent[n].item = r
  BY <1>1, AtBoth
<1> QED BY <1>2, <1>3, <1>4, <1>5 DEF r

\* What was seen started or done is an item of the output.
LEMMA AnsweredIndex ==
  ASSUME Typed, Ending, Streaming, Answered, NEW n \in 1 .. Len(Sent), Sent[n].type \in {"added", "done"}
  PROVE  Sent[n].index \in DOMAIN combined /\ n \in At(Sent, Sent[n].type, Sent[n].index)
<1>1. Sent \in Seq(Evs)
  BY AnsweredFacts
<1>2. Sent[n] \in Evs
  BY <1>1
<1>3. Sent[n].index \in Nat \ {0}
  BY <1>2, EvsIndex
<1>4. Of(Sent, Sent[n].index) # <<>>
  BY <1>1, <1>3, OfFound
<1> QED BY <1>3, <1>4, AnsweredItem DEF At

\* The invariant implies EventsMatchOutput.
LEMMA Matching == ASSUME Typed, Ending, Numbered, Streaming PROVE EventsMatchOutput
<1>1. \A n \in DOMAIN delivered : delivered[n].number = n - 1
  <2>0. delivered \in Seq(Deliveries) /\ Len(delivered) \in Nat /\ DOMAIN delivered = 1 .. Len(delivered)
    BY DEF Typed, PollTyped
  <2>1. CASE stream = "ended"
    <3>1. Seen = [n \in 1 .. Len(delivered) - 1 |-> delivered[n]] /\ Len(delivered) > 0
      BY <2>1 DEF Seen, Front1, Typed, PollTyped
    <3>2. Len(Seen) = Len(delivered) - 1 /\ \A n \in 1 .. Len(delivered) - 1 : Seen[n] = delivered[n]
      BY <2>0, <3>1
    <3>3. delivered[Len(delivered)] = chunk /\ chunk.number = Len(Seen)
      BY <2>1 DEF Ending, Numbered
    <3>4. \A n \in 1 .. Len(Seen) : Seen[n].number = n - 1
      BY DEF Numbered
    <3> HIDE DEF Seen
    <3> SUFFICES ASSUME NEW n \in 1 .. Len(delivered) PROVE delivered[n].number = n - 1
      BY <2>0
    <3>5. CASE n = Len(delivered)
      BY <3>2, <3>3, <3>5
    <3>6. CASE n # Len(delivered)
      <4>1. n \in 1 .. Len(Seen)
        BY <2>0, <3>2, <3>6
      <4>2. Seen[n].number = n - 1
        BY <3>4, <4>1
      <4> QED BY <3>2, <4>1, <4>2
    <3> QED BY <3>5, <3>6
  <2>2. CASE stream # "ended"
    <3>1. Seen = delivered
      BY <2>2 DEF Seen
    <3> QED BY <2>0, <3>1 DEF Numbered
  <2> QED BY <2>1, <2>2
<1>2. ASSUME Answered
      PROVE  /\ \A n \in Shown("added") \cup Shown("done") :
                   LET e == delivered[n].event
                   IN e.index \in DOMAIN combined /\ e.item = Ref(combined[e.index])
             /\ \A n \in Shown("done") : \E m \in ShownOf("added", delivered[n].event.index) : m < n
             /\ (\A i \in DOMAIN combined : ~Abandoned(i)) =>
                   \A m, n \in Shown("added") : m < n => delivered[m].event.index < delivered[n].event.index
  <2>1. /\ pc = "ended" /\ Sound /\ Content(Sent) /\ Listed /\ Sent \in Seq(Evs)
        /\ \A n \in 1 .. Len(Sent) : delivered[n].event = Sent[n]
        /\ Shown("added") = {n \in 1 .. Len(Sent) : Sent[n].type = "added"}
        /\ Shown("done") = {n \in 1 .. Len(Sent) : Sent[n].type = "done"}
    BY <1>2, AnsweredFacts
  <2>2. ASSUME NEW n \in Shown("added") \cup Shown("done")
        PROVE  /\ delivered[n].event.index \in DOMAIN combined
               /\ delivered[n].event.item = Ref(combined[delivered[n].event.index])
    <3>1. n \in 1 .. Len(Sent) /\ Sent[n].type \in {"added", "done"} /\ delivered[n].event = Sent[n]
      BY <2>1
    <3> DEFINE x == Sent[n].index
    <3>2. x \in DOMAIN combined /\ n \in At(Sent, Sent[n].type, x)
      BY <1>2, <3>1, AnsweredIndex
    <3> HIDE DEF x
    <3>3. Sent[n].item = Ref(combined[x])
      BY <1>2, <3>1, <3>2, AnsweredEvents
    <3> QED BY <3>1, <3>2, <3>3 DEF x
  <2>3. ASSUME NEW n \in Shown("done") PROVE \E m \in ShownOf("added", delivered[n].event.index) : m < n
    <3>1. n \in 1 .. Len(Sent) /\ Sent[n].type = "done" /\ delivered[n].event = Sent[n]
      BY <2>1
    <3> DEFINE x == Sent[n].index
    <3>2. x \in DOMAIN combined /\ n \in At(Sent, "done", x)
      BY <1>2, <3>1, AnsweredIndex
    <3> HIDE DEF x
    <3>3. \E m \in At(Sent, "added", x) : m < n
      BY <1>2, <3>2, AnsweredEvents
    <3>4. ShownOf("added", x) = At(Sent, "added", x)
      BY <1>2, <3>2, AnsweredAt
    <3> QED BY <3>1, <3>3, <3>4 DEF x
  <2>4. ASSUME \A i \in DOMAIN combined : ~Abandoned(i), NEW m \in Shown("added"), NEW n \in Shown("added"), m < n
        PROVE  delivered[m].event.index < delivered[n].event.index
    <3>1. /\ m \in 1 .. Len(Sent) /\ Sent[m].type = "added" /\ delivered[m].event = Sent[m]
          /\ n \in 1 .. Len(Sent) /\ Sent[n].type = "added" /\ delivered[n].event = Sent[n]
      BY <2>1
    <3>2. AllNamed
      <4> SUFFICES ASSUME NEW i \in 1 .. Len(items), items[i].state = "unnamed" PROVE FALSE
        BY DEF AllNamed
      <4> DEFINE x == Base + i
      <4>1. /\ combined \in Seq(OutItems) /\ Len(items) \in Nat /\ Len(combined) \in Nat
            /\ DOMAIN combined = 1 .. Len(combined)
        BY DEF Typed, WorkTyped
      <4>2. x \in DOMAIN combined
        BY <2>1, <4>1 DEF Base, Listed
      <4>3. combined[x] = Item(round, i, KindOf(i))
        BY <2>1 DEF Listed
      <4> HIDE DEF x
      <4>4. KindOf(i) = "function"
        BY DEF KindOf
      <4>5. Abandoned(x)
        BY <4>3, <4>4 DEF Abandoned, Item
      <4> QED BY <2>4, <4>2, <4>5
    <3>3. Sorted(Sent)
      BY <2>1, <3>2 DEF Content
    <3> DEFINE x == Sent[m].index
               y == Sent[n].index
    <3>4. x <= y
      BY <2>4, <3>1, <3>3 DEF Sorted, Starts
    <3>5. x \in DOMAIN combined /\ m \in At(Sent, "added", x)
      BY <1>2, <3>1, AnsweredIndex
    <3>6. y \in DOMAIN combined /\ n \in At(Sent, "added", y)
      BY <1>2, <3>1, AnsweredIndex
    <3> HIDE DEF x, y
    <3>7. x # y
      <4> SUFFICES ASSUME x = y PROVE FALSE
        OBVIOUS
      <4>1. \E k : At(Sent, "added", x) \subseteq {k}
        BY <1>2, <3>5, AnsweredEvents
      <4>2. m = n
        BY <3>5, <3>6, <4>1
      <4> QED BY <2>4, <3>1, <4>2
    <3>8. x \in Nat /\ y \in Nat
      BY <3>5, <3>6 DEF Typed, WorkTyped
    <3>9. x < y
      BY <3>4, <3>7, <3>8
    <3> QED BY <3>1, <3>9 DEF x, y
  <2> QED BY <2>2, <2>3, <2>4
<1> QED BY <1>1, <1>2 DEF EventsMatchOutput

\* Sets of none and of one.
LEMMA Counting ==
  /\ Cardinality({}) = 0
  /\ \A m : Cardinality({m}) = 1
BY FS_EmptySet, FS_Singleton

\* The invariant implies NothingLost.
LEMMA Everything == ASSUME Typed, Ending, Streaming PROVE NothingLost
<1> SUFFICES ASSUME Answered, NEW x \in DOMAIN combined
    PROVE  /\ Cardinality(ShownOf("added", x)) = IF Silent(x) THEN 0 ELSE 1
           /\ Cardinality(ShownOf("done", x)) <= IF Silent(x) THEN 0 ELSE 1
           /\ ~Silent(x) /\ Due(x) => ShownOf("done", x) # {}
  BY DEF NothingLost, Silent, Due
<1> DEFINE a == ShownOf("added", x)
           d == ShownOf("done", x)
<1>1. a = At(Sent, "added", x) /\ d = At(Sent, "done", x)
  BY AnsweredAt
<1>2. /\ Silent(x) => a = {} /\ d = {}
      /\ ~Silent(x) => \E m : a = {m}
      /\ ~Silent(x) => d = {} \/ \E n : d = {n}
      /\ ~Silent(x) /\ Due(x) => \E n : d = {n}
  BY <1>1, AnsweredEvents
<1> HIDE DEF a, d
<1>3. CASE Silent(x)
  BY <1>2, <1>3, Counting DEF a, d
<1>4. CASE ~Silent(x)
  <2>1. Cardinality(a) = 1
    BY <1>2, <1>4, Counting
  <2>2. Cardinality(d) = 0 \/ Cardinality(d) = 1
    BY <1>2, <1>4, Counting
  <2>3. Due(x) => d # {}
    BY <1>2, <1>4
  <2> QED BY <1>4, <2>1, <2>2, <2>3 DEF a, d
<1> QED BY <1>3, <1>4

\* The invariant implies TerminalAfterPersist.
LEMMA Persisted == ASSUME Typed, Ending PROVE TerminalAfterPersist
<1> SUFFICES ASSUME mode # "none", NEW n \in DOMAIN delivered,
                    delivered[n].event.type \in {"completed", "incomplete"}
             PROVE  stored # {}
  BY DEF TerminalAfterPersist, Shown
<1>1. delivered \in Seq(Deliveries) /\ Len(delivered) \in Nat /\ n \in 1 .. Len(delivered)
      /\ Seen \in Seq(Entries)
  BY DEF Typed, PollTyped
<1>2. ASSUME NEW e \in Entries PROVE e.event.type \notin {"completed", "incomplete"}
  <2>1. e.event \in Evs
    BY <1>2 DEF Entries
  <2> QED BY <2>1 DEF Evs, ItemEvs
<1>3. stream = "ended" /\ n = Len(delivered)
  <2>1. CASE stream # "ended"
    <3>1. delivered[n] \in Entries
      BY <1>1, <2>1 DEF Seen
    <3> QED BY <1>2, <3>1
  <2>2. CASE stream = "ended" /\ n # Len(delivered)
    <3>1. Seen = [k \in 1 .. Len(delivered) - 1 |-> delivered[k]]
      BY <2>2 DEF Seen, Front1
    <3>2. n \in 1 .. Len(Seen) /\ Seen[n] = delivered[n]
      BY <1>1, <2>2, <3>1
    <3> HIDE DEF Seen
    <3>3. Seen[n] \in Entries
      BY <1>1, <3>2
    <3> QED BY <1>2, <3>2, <3>3
  <2> QED BY <2>1, <2>2
<1>4. delivered[n] = chunk
  BY <1>3 DEF Ending
<1> QED BY <1>3, <1>4 DEF Ending

\* Types: no step.
LEMMA TypedSame == ASSUME Typed, UNCHANGED streamVars PROVE Typed' /\ Seen' = Seen
<1>1. WorkTyped'
  BY WorkSame DEF Typed, streamVars
<1>2. PollTyped' /\ Seen' = Seen
  BY PollSame DEF Typed, streamVars
<1> QED BY <1>1, <1>2 DEF Typed

\* Types are preserved by every step.
LEMMA TypedNext == ASSUME Typed, Ending, StreamNext PROVE Typed'
<1>1. CASE Discover \/ CompactionTrigger \/ Return \/ BeginRound \/ UpstreamEnds \/ Execute
           \/ CloseRound \/ WorkerFails
  BY <1>1, TypedWorker
<1>2. CASE AddItem \/ NameCall \/ DoneItem
  BY <1>2, TypedItems
<1>3. CASE Send \/ Oversized \/ Panic
  BY <1>3, TypedSend
<1>4. CASE Polling
  BY <1>4, TypedPoll DEF Polling
<1>5. CASE UNCHANGED streamVars
  BY <1>5, TypedSame
<1> QED BY <1>1, <1>2, <1>3, <1>4, <1>5 DEF StreamNext, Work, Poll, Polling, Over

StreamInv == Typed /\ Ending /\ Numbered /\ Streaming

\* The invariant holds in every state of a turn.
THEOREM StreamInvariant == StreamSpec => []StreamInv
<1>1. StreamInit => StreamInv
  BY TypedInit, EndingInit, StreamingInit DEF StreamInv
<1>2. StreamInv /\ [StreamNext]_streamVars => StreamInv'
  <2> SUFFICES ASSUME StreamInv, [StreamNext]_streamVars PROVE StreamInv'
    OBVIOUS
  <2>1. CASE StreamNext
    BY <2>1, TypedNext, EndingNext, NumberedNext, StreamingNext DEF StreamInv
  <2>2. CASE UNCHANGED streamVars
    <3>1. Typed' /\ Seen' = Seen
      BY <2>2, TypedSame DEF StreamInv
    <3>2. Ending'
      BY <2>2 DEF StreamInv, Ending, streamVars, roundVars, turnVars, consumerVars
    <3>3. Numbered'
      BY <2>2, <3>1 DEF StreamInv, Numbered, streamVars, roundVars, turnVars, consumerVars
    <3>4. Sent' = Sent /\ UNCHANGED <<pc, roundVars, combined, result, status>>
      BY <2>2, <3>1 DEF streamVars, turnVars, consumerVars, Sent, EventsOf
    <3>5. Streaming'
      <4>1. Sound' = Sound
        BY <3>4 DEF Sound
      <4> QED BY <3>4, <4>1, StreamingSame DEF StreamInv, Streaming
    <3> QED BY <3>1, <3>2, <3>3, <3>5 DEF StreamInv
  <2> QED BY <2>1, <2>2
<1> QED BY <1>1, <1>2, PTL DEF StreamSpec

\* What the client sees agrees with the output it is given: numbers without gap, the index and
\* the order of the items, done behind added (EventsMatchOutput), for every script of the upstream,
\* number of rounds and size of the channel.
THEOREM MatchHolds == StreamSpec => []EventsMatchOutput
<1>1. StreamInv => EventsMatchOutput
  BY Matching DEF StreamInv
<1> QED BY <1>1, StreamInvariant, PTL

\* Every item of the output the upstream named is shown exactly once (NothingLost): held-back
\* events and the gateway's own are neither lost nor repeated.
THEOREM NothingLostHolds == StreamSpec => []NothingLost
<1>1. StreamInv => NothingLost
  BY Everything DEF StreamInv
<1> QED BY <1>1, StreamInvariant, PTL

\* No client sees a turn end well before it is stored (TerminalAfterPersist).
THEOREM PersistHolds == StreamSpec => []TerminalAfterPersist
<1>1. StreamInv => TerminalAfterPersist
  BY Persisted DEF StreamInv
<1> QED BY <1>1, StreamInvariant, PTL

-----------------------------------------------------------------------------
(* The history.                                                            *)

\* s lists the values of e on K, in the order of K.
Picks(s, e, K) ==
    /\ \A k \in 1 .. Len(s) : \E i \in K : s[k] = e[i]
    /\ \A i \in K : \E k \in 1 .. Len(s) : s[k] = e[i]
    /\ \A k, l \in 1 .. Len(s) : k < l => \E i, j \in K : i < j /\ s[k] = e[i] /\ s[l] = e[j]

\* Two entries are about the same thing.
SameSpot(a, b) == a.what = b.what /\ a.round = b.round /\ a.place = b.place

\* What the loop records of an item.
IsRecorded(lease, it) == it.kind \notin Records /\ (lease \/ it.kind \in GatewayKinds)

HistoryEntries == [what : {"message", "call", "output", "record"}, round : Nat, place : Nat,
                   kind : ItemKinds \cup Records]

\* The entries of h are those that are recorded of a set of items, each once, an output
\* behind its call and, with a lease, in the order of rounds and places.
RecordsOf(lease, h, its) ==
    /\ \A n \in 1 .. Len(h) : \E it \in its :
          \/ h[n] = AsInput(it) /\ IsRecorded(lease, it)
          \/ h[n] = Entry("output", it) /\ it.kind \in GatewayKinds
    /\ \A m, n \in 1 .. Len(h) : m < n => ~SameSpot(h[m], h[n])
    /\ \A it \in its : IsRecorded(lease, it) => \E n \in 1 .. Len(h) : h[n] = AsInput(it)
    /\ \A it \in its : it.kind \in GatewayKinds =>
          \E c, o \in 1 .. Len(h) : c < o /\ h[c] = AsInput(it) /\ h[o] = Entry("output", it)
    /\ lease => \A m, n \in 1 .. Len(h) : m < n =>
          \/ h[m].round < h[n].round
          \/ h[m].round = h[n].round /\ (h[m].place < h[n].place \/ h[n].what = "output")

ItemSet(s) == {s[i] : i \in 1 .. Len(s)}

\* No two items of the output have the same place.
Apart(s) == \A x, y \in 1 .. Len(s) : x < y => ~(s[x].round = s[y].round /\ s[x].place = s[y].place)

\* What has been recorded while the turn has not failed.
Recording ==
    /\ newInput \in Seq(HistoryEntries)
    /\ recorded \in Nat
    /\ RecordsOf(mode = "lease", newInput, ItemSet(combined))
    /\ Apart(combined)
    /\ \A x \in 1 .. Len(combined) : (combined[x].kind \in Records) = (combined[x].round = 0)
    /\ mode = "lease" => \A x \in 1 .. Len(combined) :
          IF x <= recorded THEN combined[x].kind # "compaction" ELSE combined[x].kind \in Records
    /\ pc \notin {"return", "ended"} => \A x \in 1 .. Len(combined) : combined[x].kind # "compaction"
    /\ pc = "new" => newInput = <<>> /\ recorded = 0

HistoryInv ==
    /\ Sound => Recording
    /\ stored # {} => pc = "ended"
    /\ HistoryFaithful

\* A selection flattened lists the values of what is selected.
LEMMA PicksFlatten ==
  ASSUME NEW S, NEW n \in Nat, NEW e \in [1 .. n -> S], NEW K \in SUBSET (1 .. n), NEW parts,
         parts = [i \in 1 .. n |-> IF i \in K THEN <<e[i]>> ELSE <<>>]
  PROVE  FlattenSeq(parts) \in Seq(S) /\ Picks(FlattenSeq(parts), e, K)
<1>0. parts \in Seq(Seq(S)) /\ Len(parts) = n
  <2>1. \A i \in 1 .. n : (IF i \in K THEN <<e[i]>> ELSE <<>>) \in Seq(S)
    OBVIOUS
  <2> QED BY <2>1
<1>a. \A i \in 1 .. n : parts[i] = IF i \in K THEN <<e[i]>> ELSE <<>>
  OBVIOUS
<1>1. PICK tr : /\ tr[0] = <<>> /\ tr[n] = FlattenSeq(parts)
                /\ \A i \in 0 .. n : tr[i] \in Seq(S)
                /\ \A i \in 1 .. n : tr[i] = Concatenated(tr[i - 1], parts[i])
  <2>1. \E tr : /\ tr[0] = <<>> /\ tr[Len(parts)] = FlattenSeq(parts)
                /\ \A i \in 0 .. Len(parts) : tr[i] \in Seq(S)
                /\ \A i \in 1 .. Len(parts) : tr[i] = Concatenated(tr[i - 1], parts[i])
    BY <1>0, FlattenTrace, Zenon
  <2> QED BY <1>0, <2>1, Zenon
<1> DEFINE Upto(s, i) == Picks(s, e, K \cap (1 .. i))
           B == {i \in 0 .. n : Upto(tr[i], i)}
<1>2. 0 \in B
  BY <1>1 DEF Picks
<1>3. ASSUME NEW i \in 1 .. n, i - 1 \in B PROVE i \in B
  <2>0. i - 1 \in 0 .. n /\ i \in 0 .. n
    OBVIOUS
  <2>1. tr[i] = tr[i - 1] \o parts[i] /\ tr[i - 1] \in Seq(S) /\ tr[i] \in Seq(S)
    BY <1>1, <2>0, Zenon DEF Concatenated
  <2>2. Upto(tr[i - 1], i - 1)
    BY <1>3
  <2> DEFINE s == tr[i - 1]
             J == K \cap (1 .. (i - 1))
             L == K \cap (1 .. i)
  <2>3. s \in Seq(S) /\ Len(s) \in Nat /\ Picks(s, e, J)
    BY <2>1, <2>2
  <2>4. CASE i \notin K
    <3>1. parts[i] = <<>> /\ L = J
      BY <1>a, <2>4
    <3>2. tr[i] = s
      BY <2>1, <3>1, ConcatEmpty
    <3> QED BY <2>0, <2>3, <3>1, <3>2
  <2>5. CASE i \in K
    <3>1. parts[i] = <<e[i]>> /\ L = J \cup {i} /\ i \notin J /\ \A j \in J : j < i
      BY <1>a, <2>5
    <3> DEFINE u == tr[i]
    <3>2. u = s \o <<e[i]>>
      BY <2>1, <3>1
    <3> HIDE DEF s, J, L, u
    <3>3. /\ Len(u) = Len(s) + 1 /\ u[Len(u)] = e[i]
          /\ \A k \in 1 .. Len(s) : u[k] = s[k]
      BY <2>3, <3>2
    <3>4. \A k \in 1 .. Len(u) : k \in 1 .. Len(s) \/ k = Len(u)
      BY <2>3, <3>3
    <3>b. /\ \A k \in 1 .. Len(s) : \E j \in J : s[k] = e[j]
          /\ \A j \in J : \E k \in 1 .. Len(s) : s[k] = e[j]
          /\ \A k, l \in 1 .. Len(s) : k < l => \E j, m \in J : j < m /\ s[k] = e[j] /\ s[l] = e[m]
      BY <2>3, Zenon DEF Picks
    <3>c. i \in L /\ \A j \in J : j \in L
      BY <3>1
    <3>5. ASSUME NEW k \in 1 .. Len(u) PROVE \E j \in L : u[k] = e[j]
      <4>1. CASE k \in 1 .. Len(s)
        <5>1. PICK j \in J : s[k] = e[j]
          BY <3>b, <4>1, Zenon
        <5> QED BY <3>3, <3>c, <4>1, <5>1, Zenon
      <4>2. CASE k = Len(u)
        BY <3>3, <3>c, <4>2, Zenon
      <4> QED BY <3>4, <4>1, <4>2
    <3>6. ASSUME NEW j \in L PROVE \E k \in 1 .. Len(u) : u[k] = e[j]
      <4>1. \A k \in 1 .. Len(s) : k \in 1 .. Len(u)
        BY <2>3, <3>3
      <4>2. Len(u) \in 1 .. Len(u)
        BY <2>3, <3>3
      <4>3. CASE j = i
        BY <3>3, <4>2, <4>3, Zenon
      <4>4. CASE j \in J
        <5>1. PICK k \in 1 .. Len(s) : s[k] = e[j]
          BY <3>b, <4>4, Zenon
        <5> QED BY <3>3, <4>1, <5>1, Zenon
      <4> QED BY <3>1, <4>3, <4>4
    <3>7. ASSUME NEW k \in 1 .. Len(u), NEW l \in 1 .. Len(u), k < l
          PROVE  \E j, m \in L : j < m /\ u[k] = e[j] /\ u[l] = e[m]
      <4>1. k \in 1 .. Len(s)
        BY <2>3, <3>3, <3>4, <3>7
      <4>2. CASE l \in 1 .. Len(s)
        <5>1. PICK j \in J, m \in J : j < m /\ s[k] = e[j] /\ s[l] = e[m]
          BY <3>b, <3>7, <4>1, <4>2, Zenon
        <5>2. u[k] = e[j] /\ u[l] = e[m]
          BY <3>3, <4>1, <4>2, <5>1, Zenon
        <5> QED BY <3>c, <5>1, <5>2, Zenon
      <4>3. CASE l = Len(u)
        <5>1. PICK j \in J : s[k] = e[j]
          BY <3>b, <4>1, Zenon
        <5>2. j \in L /\ i \in L /\ j < i
          BY <3>1
        <5>3. u[k] = e[j] /\ u[l] = e[i]
          BY <3>3, <4>1, <4>3, <5>1, Zenon
        <5> QED BY <5>2, <5>3, Zenon
      <4> QED BY <3>4, <4>2, <4>3
    <3>8. Picks(u, e, L)
      BY <3>5, <3>6, <3>7, Zenon DEF Picks
    <3> QED BY <2>0, <3>8 DEF u, L
  <2> QED BY <2>4, <2>5
<1>4. n \in B
  <2> HIDE DEF B
  <2> QED BY <1>2, <1>3, Ofs!Upwards
<1>5. K \cap (1 .. n) = K
  OBVIOUS
<1>6. Picks(tr[n], e, K)
  BY <1>4, <1>5
<1>7. tr[n] \in Seq(S)
  BY <1>1
<1> QED BY <1>1, <1>6, <1>7

-----------------------------------------------------------------------------
IsJoin(u, h, b) ==
    /\ Len(u) = Len(h) + Len(b) /\ Len(h) \in Nat /\ Len(b) \in Nat
    /\ \A k \in 1 .. Len(h) : k \in 1 .. Len(u) /\ u[k] = h[k]
    /\ \A k \in 1 .. Len(b) : Len(h) + k \in 1 .. Len(u) /\ u[Len(h) + k] = b[k]
    /\ \A k \in 1 .. Len(u) : k \in 1 .. Len(h) \/ \E l \in 1 .. Len(b) : k = Len(h) + l

\* Where the elements of two joined sequences stand.
LEMMA JoinFacts ==
  ASSUME NEW S, NEW h \in Seq(S), NEW b \in Seq(S), NEW u, u = Concatenated(h, b)
  PROVE  u \in Seq(S) /\ IsJoin(u, h, b)
<1>0. u = h \o b
  BY DEF Concatenated
<1>1. u \in Seq(S) /\ Len(u) = Len(h) + Len(b) /\ Len(h) \in Nat /\ Len(b) \in Nat
  BY <1>0
<1>2. \A k \in 1 .. Len(h) : k \in 1 .. Len(u) /\ u[k] = h[k]
  BY <1>0
<1>3. \A k \in 1 .. Len(b) : Len(h) + k \in 1 .. Len(u) /\ u[Len(h) + k] = b[k]
  BY <1>0
<1>4. ASSUME NEW k \in 1 .. Len(u), k \notin 1 .. Len(h) PROVE \E l \in 1 .. Len(b) : k = Len(h) + l
  <2>1. k - Len(h) \in 1 .. Len(b) /\ k = Len(h) + (k - Len(h))
    BY <1>1, <1>4
  <2> QED BY <2>1
<1> QED BY <1>1, <1>2, <1>3, <1>4 DEF IsJoin

\* An entry carries the place of its item.
LEMMA EntryFacts ==
  ASSUME NEW it
  PROVE  /\ AsInput(it).round = it.round /\ AsInput(it).place = it.place /\ AsInput(it).kind = it.kind
         /\ AsInput(it).what = IF it.kind = "message" THEN "message" ELSE "call"
         /\ \A w : /\ Entry(w, it).round = it.round /\ Entry(w, it).place = it.place
                   /\ Entry(w, it).kind = it.kind /\ Entry(w, it).what = w
         /\ it \in OutItems => /\ AsInput(it) \in HistoryEntries
                               /\ \A w \in {"message", "call", "output", "record"} : Entry(w, it) \in HistoryEntries
  BY DEF AsInput, Entry, OutItems, HistoryEntries

\* The records of two sets of items, of which the second is of a later round.
LEMMA RecordsJoin ==
  ASSUME NEW lease \in BOOLEAN, NEW h \in Seq(HistoryEntries), NEW b \in Seq(HistoryEntries),
         NEW I, NEW J, NEW r \in Nat, RecordsOf(lease, h, I), RecordsOf(lease, b, J),
         \A it \in I : it.round \in Nat /\ it.round < r,
         \A it \in J : it.round = r
  PROVE  RecordsOf(lease, h \o b, I \cup J)
<1> DEFINE u == h \o b
<1>1. /\ u \in Seq(HistoryEntries) /\ Len(u) = Len(h) + Len(b) /\ Len(h) \in Nat /\ Len(b) \in Nat
      /\ \A k \in 1 .. Len(h) : k \in 1 .. Len(u) /\ u[k] = h[k]
      /\ \A k \in 1 .. Len(b) : Len(h) + k \in 1 .. Len(u) /\ u[Len(h) + k] = b[k]
      /\ \A k \in 1 .. Len(u) : k \in 1 .. Len(h) \/ \E l \in 1 .. Len(b) : k = Len(h) + l
  <2>1. u = Concatenated(h, b)
    BY DEF Concatenated
  <2> HIDE DEF u
  <2>2. u \in Seq(HistoryEntries) /\ IsJoin(u, h, b)
    BY <2>1, JoinFacts
  <2> QED BY <2>2, Zenon DEF IsJoin
<1>h. /\ \A n \in 1 .. Len(h) : \E it \in I :
            \/ h[n] = AsInput(it) /\ IsRecorded(lease, it)
            \/ h[n] = Entry("output", it) /\ it.kind \in GatewayKinds
      /\ \A m, n \in 1 .. Len(h) : m < n => ~SameSpot(h[m], h[n])
      /\ \A it \in I : IsRecorded(lease, it) => \E n \in 1 .. Len(h) : h[n] = AsInput(it)
      /\ \A it \in I : it.kind \in GatewayKinds =>
            \E c, o \in 1 .. Len(h) : c < o /\ h[c] = AsInput(it) /\ h[o] = Entry("output", it)
      /\ lease => \A m, n \in 1 .. Len(h) : m < n =>
            \/ h[m].round < h[n].round
            \/ h[m].round = h[n].round /\ (h[m].place < h[n].place \/ h[n].what = "output")
  BY Zenon DEF RecordsOf
<1>b. /\ \A n \in 1 .. Len(b) : \E it \in J :
            \/ b[n] = AsInput(it) /\ IsRecorded(lease, it)
            \/ b[n] = Entry("output", it) /\ it.kind \in GatewayKinds
      /\ \A m, n \in 1 .. Len(b) : m < n => ~SameSpot(b[m], b[n])
      /\ \A it \in J : IsRecorded(lease, it) => \E n \in 1 .. Len(b) : b[n] = AsInput(it)
      /\ \A it \in J : it.kind \in GatewayKinds =>
            \E c, o \in 1 .. Len(b) : c < o /\ b[c] = AsInput(it) /\ b[o] = Entry("output", it)
      /\ lease => \A m, n \in 1 .. Len(b) : m < n =>
            \/ b[m].round < b[n].round
            \/ b[m].round = b[n].round /\ (b[m].place < b[n].place \/ b[n].what = "output")
  BY Zenon DEF RecordsOf
<1> HIDE DEF u
<1>2. \A n \in 1 .. Len(h) : h[n].round \in Nat /\ h[n].round < r
  <2> SUFFICES ASSUME NEW n \in 1 .. Len(h) PROVE h[n].round \in Nat /\ h[n].round < r
    OBVIOUS
  <2>1. PICK it \in I : h[n] = AsInput(it) \/ h[n] = Entry("output", it)
    BY <1>h, Zenon
  <2>2. h[n].round = it.round
    BY <2>1, EntryFacts
  <2> QED BY <2>2
<1>3. \A n \in 1 .. Len(b) : b[n].round = r
  <2> SUFFICES ASSUME NEW n \in 1 .. Len(b) PROVE b[n].round = r
    OBVIOUS
  <2>1. PICK it \in J : b[n] = AsInput(it) \/ b[n] = Entry("output", it)
    BY <1>b, Zenon
  <2>2. b[n].round = it.round
    BY <2>1, EntryFacts
  <2> QED BY <2>2
<1>4. ASSUME NEW n \in 1 .. Len(u)
      PROVE  \E it \in I \cup J : \/ u[n] = AsInput(it) /\ IsRecorded(lease, it)
                                  \/ u[n] = Entry("output", it) /\ it.kind \in GatewayKinds
  <2>1. CASE n \in 1 .. Len(h)
    <3>1. PICK it \in I : \/ h[n] = AsInput(it) /\ IsRecorded(lease, it)
                          \/ h[n] = Entry("output", it) /\ it.kind \in GatewayKinds
      BY <1>h, <2>1, Zenon
    <3>2. u[n] = h[n] /\ it \in I \cup J
      BY <1>1, <2>1
    <3> QED BY <3>1, <3>2, Zenon
  <2>2. CASE \E l \in 1 .. Len(b) : n = Len(h) + l
    <3>0. PICK l \in 1 .. Len(b) : n = Len(h) + l
      BY <2>2
    <3>1. PICK it \in J : \/ b[l] = AsInput(it) /\ IsRecorded(lease, it)
                          \/ b[l] = Entry("output", it) /\ it.kind \in GatewayKinds
      BY <1>b, Zenon
    <3>2. u[n] = b[l] /\ it \in I \cup J
      BY <1>1, <3>0
    <3> QED BY <3>1, <3>2, Zenon
  <2> QED BY <1>1, <2>1, <2>2, Zenon
<1>5. ASSUME NEW m \in 1 .. Len(u), NEW n \in 1 .. Len(u), m < n
      PROVE  /\ ~SameSpot(u[m], u[n])
             /\ lease => \/ u[m].round < u[n].round
                         \/ u[m].round = u[n].round /\ (u[m].place < u[n].place \/ u[n].what = "output")
  <2>1. CASE n \in 1 .. Len(h)
    <3>1. m \in 1 .. Len(h)
      BY <1>5, <2>1
    <3>2. u[m] = h[m] /\ u[n] = h[n]
      BY <1>1, <2>1, <3>1
    <3> QED BY <1>5, <1>h, <2>1, <3>1, <3>2, Zenon
  <2>2. CASE \E l \in 1 .. Len(b) : n = Len(h) + l
    <3>0. PICK l \in 1 .. Len(b) : n = Len(h) + l
      BY <2>2
    <3>1. CASE m \in 1 .. Len(h)
      <4>1. u[m] = h[m] /\ u[n] = b[l]
        BY <1>1, <3>0, <3>1
      <4>2. u[m].round \in Nat /\ u[m].round < r /\ u[n].round = r
        BY <1>2, <1>3, <3>1, <4>1
      <4> QED BY <4>2 DEF SameSpot
    <3>2. CASE \E k \in 1 .. Len(b) : m = Len(h) + k
      <4>0. PICK k \in 1 .. Len(b) : m = Len(h) + k
        BY <3>2
      <4>1. k < l
        BY <1>1, <1>5, <3>0, <4>0
      <4>2. u[m] = b[k] /\ u[n] = b[l]
        BY <1>1, <3>0, <4>0
      <4>3. ~SameSpot(b[k], b[l])
        BY <1>b, <4>1, Zenon
      <4>4. lease => \/ b[k].round < b[l].round
                     \/ b[k].round = b[l].round /\ (b[k].place < b[l].place \/ b[l].what = "output")
        BY <1>b, <4>1, Zenon
      <4> QED BY <4>2, <4>3, <4>4, Zenon
    <3> QED BY <1>1, <3>1, <3>2, Zenon
  <2> QED BY <1>1, <2>1, <2>2, Zenon
<1>6. ASSUME NEW it \in I \cup J
      PROVE  /\ IsRecorded(lease, it) => \E n \in 1 .. Len(u) : u[n] = AsInput(it)
             /\ it.kind \in GatewayKinds =>
                   \E c, o \in 1 .. Len(u) : c < o /\ u[c] = AsInput(it) /\ u[o] = Entry("output", it)
  <2>1. CASE it \in I
    <3>1. ASSUME IsRecorded(lease, it) PROVE \E n \in 1 .. Len(u) : u[n] = AsInput(it)
      <4>1. PICK n \in 1 .. Len(h) : h[n] = AsInput(it)
        BY <1>h, <2>1, <3>1, Zenon
      <4> QED BY <1>1, <4>1, Zenon
    <3>2. ASSUME it.kind \in GatewayKinds
          PROVE  \E c, o \in 1 .. Len(u) : c < o /\ u[c] = AsInput(it) /\ u[o] = Entry("output", it)
      <4>1. PICK c \in 1 .. Len(h), o \in 1 .. Len(h) : c < o /\ h[c] = AsInput(it) /\ h[o] = Entry("output", it)
        BY <1>h, <2>1, <3>2, Zenon
      <4>2. c \in 1 .. Len(u) /\ o \in 1 .. Len(u) /\ u[c] = h[c] /\ u[o] = h[o]
        BY <1>1
      <4> QED BY <4>1, <4>2, Zenon
    <3> QED BY <3>1, <3>2
  <2>2. CASE it \in J
    <3>1. ASSUME IsRecorded(lease, it) PROVE \E n \in 1 .. Len(u) : u[n] = AsInput(it)
      <4>1. PICK n \in 1 .. Len(b) : b[n] = AsInput(it)
        BY <1>b, <2>2, <3>1, Zenon
      <4> QED BY <1>1, <4>1, Zenon
    <3>2. ASSUME it.kind \in GatewayKinds
          PROVE  \E c, o \in 1 .. Len(u) : c < o /\ u[c] = AsInput(it) /\ u[o] = Entry("output", it)
      <4>1. PICK c \in 1 .. Len(b), o \in 1 .. Len(b) : c < o /\ b[c] = AsInput(it) /\ b[o] = Entry("output", it)
        BY <1>b, <2>2, <3>2, Zenon
      <4>2. /\ Len(h) + c \in 1 .. Len(u) /\ Len(h) + o \in 1 .. Len(u)
            /\ u[Len(h) + c] = b[c] /\ u[Len(h) + o] = b[o]
        BY <1>1
      <4>3. Len(h) + c < Len(h) + o
        BY <1>1, <4>1
      <4> QED BY <4>1, <4>2, <4>3, Zenon
    <3> QED BY <3>1, <3>2
  <2> QED BY <2>1, <2>2
<1>7. RecordsOf(lease, u, I \cup J)
  BY <1>4, <1>5, <1>6, Zenon DEF RecordsOf
<1> QED BY <1>7 DEF u

-----------------------------------------------------------------------------
\* The items a round lists.
Listing(outs, n) == {outs[i] : i \in 1 .. n}

\* h are the calls of a round of items outs and b the outputs of those the gateway ran.
IsBlock(lease, n, r, outs, K, G, sel, calls, h, b) ==
    /\ lease \in BOOLEAN /\ n \in Nat /\ r \in Nat \ {0} /\ outs \in [1 .. n -> OutItems]
    /\ \A i \in 1 .. n : outs[i].round = r /\ outs[i].place = i /\ outs[i].kind \notin Records
    /\ K \in SUBSET (1 .. n) /\ \A i \in 1 .. n : i \in K <=> IsRecorded(lease, outs[i])
    /\ G \in SUBSET (1 .. n) /\ \A i \in 1 .. n : i \in G <=> outs[i].kind \in GatewayKinds
    /\ sel \in Seq(OutItems) /\ calls \in Seq(OutItems) /\ Picks(sel, outs, K) /\ Picks(calls, outs, G)
    /\ h = [k \in 1 .. Len(sel) |-> AsInput(sel[k])]
    /\ b = [k \in 1 .. Len(calls) |-> Entry("output", calls[k])]

\* What a round records.
LEMMA RecordsBlock ==
  ASSUME NEW lease, NEW n, NEW r, NEW outs, NEW K, NEW G, NEW sel, NEW calls, NEW h, NEW b,
         IsBlock(lease, n, r, outs, K, G, sel, calls, h, b)
  PROVE  /\ h \in Seq(HistoryEntries) /\ b \in Seq(HistoryEntries)
         /\ RecordsOf(lease, Concatenated(h, b), Listing(outs, n))
<1> SUFFICES
      ASSUME lease \in BOOLEAN, n \in Nat, r \in Nat \ {0}, outs \in [1 .. n -> OutItems],
             \A i \in 1 .. n : outs[i].round = r /\ outs[i].place = i /\ outs[i].kind \notin Records,
             K \in SUBSET (1 .. n), \A i \in 1 .. n : i \in K <=> IsRecorded(lease, outs[i]),
             G \in SUBSET (1 .. n), \A i \in 1 .. n : i \in G <=> outs[i].kind \in GatewayKinds,
             sel \in Seq(OutItems), calls \in Seq(OutItems), Picks(sel, outs, K), Picks(calls, outs, G),
             h = [k \in 1 .. Len(sel) |-> AsInput(sel[k])],
             b = [k \in 1 .. Len(calls) |-> Entry("output", calls[k])]
      PROVE  /\ h \in Seq(HistoryEntries) /\ b \in Seq(HistoryEntries)
             /\ RecordsOf(lease, h \o b, {outs[i] : i \in 1 .. n})
  BY DEF IsBlock, Listing, Concatenated
<1> DEFINE u == h \o b
           J == {outs[i] : i \in 1 .. n}
<1>1. /\ h \in Seq(HistoryEntries) /\ Len(h) = Len(sel) /\ \A k \in 1 .. Len(h) : h[k] = AsInput(sel[k])
  <2>1. \A k \in 1 .. Len(sel) : AsInput(sel[k]) \in HistoryEntries
    BY EntryFacts
  <2> QED BY <2>1
<1>2. /\ b \in Seq(HistoryEntries) /\ Len(b) = Len(calls) /\ \A k \in 1 .. Len(b) : b[k] = Entry("output", calls[k])
  <2>1. \A k \in 1 .. Len(calls) : Entry("output", calls[k]) \in HistoryEntries
    BY EntryFacts
  <2> QED BY <2>1
<1>3. /\ u \in Seq(HistoryEntries) /\ Len(u) = Len(h) + Len(b) /\ Len(h) \in Nat /\ Len(b) \in Nat
      /\ \A k \in 1 .. Len(h) : k \in 1 .. Len(u) /\ u[k] = h[k]
      /\ \A k \in 1 .. Len(b) : Len(h) + k \in 1 .. Len(u) /\ u[Len(h) + k] = b[k]
      /\ \A k \in 1 .. Len(u) : k \in 1 .. Len(h) \/ \E l \in 1 .. Len(b) : k = Len(h) + l
  <2>1. u = Concatenated(h, b)
    BY DEF Concatenated
  <2> HIDE DEF u
  <2>2. u \in Seq(HistoryEntries) /\ IsJoin(u, h, b)
    BY <1>1, <1>2, <2>1, JoinFacts
  <2> QED BY <2>2, Zenon DEF IsJoin
<1>k. K \subseteq 1 .. n /\ G \subseteq 1 .. n /\ G \subseteq K
  BY DEF IsRecorded
<1>m. \A i \in 1 .. n : i \in G <=> outs[i].kind \in GatewayKinds
  OBVIOUS
<1>n. \A i \in K : IsRecorded(lease, outs[i])
  OBVIOUS
<1>o. \A i \in 1 .. n : IsRecorded(lease, outs[i]) => i \in K
  OBVIOUS
<1> HIDE DEF u
\* The calls in front.
<1>h. /\ \A k \in 1 .. Len(h) : \E i \in K : h[k] = AsInput(outs[i])
      /\ \A i \in K : \E k \in 1 .. Len(h) : h[k] = AsInput(outs[i])
      /\ \A k, l \in 1 .. Len(h) : k < l => \E i, j \in K : i < j /\ h[k] = AsInput(outs[i]) /\ h[l] = AsInput(outs[j])
  <2>1. /\ \A k \in 1 .. Len(sel) : \E i \in K : sel[k] = outs[i]
        /\ \A i \in K : \E k \in 1 .. Len(sel) : sel[k] = outs[i]
        /\ \A k, l \in 1 .. Len(sel) : k < l => \E i, j \in K : i < j /\ sel[k] = outs[i] /\ sel[l] = outs[j]
    BY Zenon DEF Picks
  <2> HIDE DEF u
  <2>2. 1 .. Len(h) = 1 .. Len(sel) /\ \A k \in 1 .. Len(sel) : h[k] = AsInput(sel[k])
    BY <1>1
  <2>3. \A k \in 1 .. Len(sel) : \E i \in K : h[k] = AsInput(outs[i])
    BY <2>1, <2>2, Zenon
  <2>4. \A i \in K : \E k \in 1 .. Len(sel) : h[k] = AsInput(outs[i])
    BY <2>1, <2>2, Zenon
  <2>5. ASSUME NEW k \in 1 .. Len(sel), NEW l \in 1 .. Len(sel), k < l
        PROVE  \E i, j \in K : i < j /\ h[k] = AsInput(outs[i]) /\ h[l] = AsInput(outs[j])
    <3>1. PICK i \in K, j \in K : i < j /\ sel[k] = outs[i] /\ sel[l] = outs[j]
      BY <2>1, <2>5, Zenon
    <3>2. h[k] = AsInput(outs[i]) /\ h[l] = AsInput(outs[j])
      BY <2>2, <3>1, Zenon
    <3> QED BY <3>1, <3>2, Zenon
  <2> QED BY <2>2, <2>3, <2>4, <2>5
\* The outputs behind.
<1>b. /\ \A k \in 1 .. Len(b) : \E i \in G : b[k] = Entry("output", outs[i])
      /\ \A i \in G : \E k \in 1 .. Len(b) : b[k] = Entry("output", outs[i])
      /\ \A k, l \in 1 .. Len(b) : k < l =>
            \E i, j \in G : i < j /\ b[k] = Entry("output", outs[i]) /\ b[l] = Entry("output", outs[j])
  <2>1. /\ \A k \in 1 .. Len(calls) : \E i \in G : calls[k] = outs[i]
        /\ \A i \in G : \E k \in 1 .. Len(calls) : calls[k] = outs[i]
        /\ \A k, l \in 1 .. Len(calls) : k < l => \E i, j \in G : i < j /\ calls[k] = outs[i] /\ calls[l] = outs[j]
    BY Zenon DEF Picks
  <2> HIDE DEF u
  <2>2. 1 .. Len(b) = 1 .. Len(calls) /\ \A k \in 1 .. Len(calls) : b[k] = Entry("output", calls[k])
    BY <1>2
  <2>3. \A k \in 1 .. Len(calls) : \E i \in G : b[k] = Entry("output", outs[i])
    BY <2>1, <2>2, Zenon
  <2>4. \A i \in G : \E k \in 1 .. Len(calls) : b[k] = Entry("output", outs[i])
    BY <2>1, <2>2, Zenon
  <2>5. ASSUME NEW k \in 1 .. Len(calls), NEW l \in 1 .. Len(calls), k < l
        PROVE  \E i, j \in G : i < j /\ b[k] = Entry("output", outs[i]) /\ b[l] = Entry("output", outs[j])
    <3>1. PICK i \in G, j \in G : i < j /\ calls[k] = outs[i] /\ calls[l] = outs[j]
      BY <2>1, <2>5, Zenon
    <3>2. b[k] = Entry("output", outs[i]) /\ b[l] = Entry("output", outs[j])
      BY <2>2, <3>1, Zenon
    <3> QED BY <3>1, <3>2, Zenon
  <2> QED BY <2>2, <2>3, <2>4, <2>5
<1>i. \A i \in 1 .. n : /\ AsInput(outs[i]).round = r /\ AsInput(outs[i]).place = i
                        /\ AsInput(outs[i]).what \in {"message", "call"}
                        /\ Entry("output", outs[i]).round = r /\ Entry("output", outs[i]).place = i
                        /\ Entry("output", outs[i]).what = "output"
  <2> SUFFICES ASSUME NEW i \in 1 .. n
               PROVE  /\ AsInput(outs[i]).round = r /\ AsInput(outs[i]).place = i
                      /\ AsInput(outs[i]).what \in {"message", "call"}
                      /\ Entry("output", outs[i]).round = r /\ Entry("output", outs[i]).place = i
                      /\ Entry("output", outs[i]).what = "output"
    OBVIOUS
  <2>1. outs[i].round = r /\ outs[i].place = i
    OBVIOUS
  <2> QED BY <2>1, EntryFacts
<1>4. ASSUME NEW k \in 1 .. Len(u)
      PROVE  \E it \in J : \/ u[k] = AsInput(it) /\ IsRecorded(lease, it)
                           \/ u[k] = Entry("output", it) /\ it.kind \in GatewayKinds
  <2>1. CASE k \in 1 .. Len(h)
    <3>1. PICK i \in K : h[k] = AsInput(outs[i])
      BY <1>h, <2>1, Zenon
    <3>2. outs[i] \in J /\ IsRecorded(lease, outs[i])
      BY <1>k, <1>n
    <3> QED BY <1>3, <2>1, <3>1, <3>2, Zenon
  <2>2. CASE \E l \in 1 .. Len(b) : k = Len(h) + l
    <3>0. PICK l \in 1 .. Len(b) : k = Len(h) + l
      BY <2>2
    <3>1. PICK i \in G : b[l] = Entry("output", outs[i])
      BY <1>b, Zenon
    <3>2. outs[i] \in J /\ outs[i].kind \in GatewayKinds
      BY <1>k, <1>m
    <3> QED BY <1>3, <3>0, <3>1, <3>2, Zenon
  <2> QED BY <1>3, <2>1, <2>2, Zenon
<1>5. ASSUME NEW k \in 1 .. Len(u), NEW l \in 1 .. Len(u), k < l
      PROVE  /\ ~SameSpot(u[k], u[l])
             /\ lease => \/ u[k].round < u[l].round
                         \/ u[k].round = u[l].round /\ (u[k].place < u[l].place \/ u[l].what = "output")
  <2>1. CASE l \in 1 .. Len(h)
    <3>1. k \in 1 .. Len(h)
      BY <1>5, <2>1
    <3>2. PICK i \in K, j \in K : i < j /\ h[k] = AsInput(outs[i]) /\ h[l] = AsInput(outs[j])
      <4>1. k < l
        BY <1>5
      <4>2. \A p, q \in 1 .. Len(h) : p < q =>
               \E i, j \in K : i < j /\ h[p] = AsInput(outs[i]) /\ h[q] = AsInput(outs[j])
        BY <1>h, Zenon
      <4> HIDE DEF J
      <4> QED BY <2>1, <3>1, <4>1, <4>2, Zenon
    <3>3. u[k].round = r /\ u[l].round = r /\ u[k].place = i /\ u[l].place = j /\ i \in Nat /\ j \in Nat
      <4>1. u[k] = AsInput(outs[i]) /\ u[l] = AsInput(outs[j])
        BY <1>3, <2>1, <3>1, <3>2, Zenon
      <4>2. i \in 1 .. n /\ j \in 1 .. n
        BY <1>k
      <4> QED BY <1>i, <4>1, <4>2
    <3> QED BY <3>2, <3>3 DEF SameSpot
  <2>2. CASE \E m \in 1 .. Len(b) : l = Len(h) + m
    <3>0. PICK m \in 1 .. Len(b) : l = Len(h) + m
      BY <2>2
    <3>1. CASE k \in 1 .. Len(h)
      <4>1. PICK i \in K : h[k] = AsInput(outs[i])
        BY <1>h, <3>1, Zenon
      <4>2. PICK j \in G : b[m] = Entry("output", outs[j])
        BY <1>b, Zenon
      <4>3. u[k] = AsInput(outs[i]) /\ u[l] = Entry("output", outs[j])
        BY <1>3, <3>0, <3>1, <4>1, <4>2, Zenon
      <4>4. i \in 1 .. n /\ j \in 1 .. n
        BY <1>k
      <4>5. u[k].round = r /\ u[l].round = r /\ u[k].what \in {"message", "call"} /\ u[l].what = "output"
        BY <1>i, <4>3, <4>4
      <4> QED BY <4>5 DEF SameSpot
    <3>2. CASE \E q \in 1 .. Len(b) : k = Len(h) + q
      <4>0. PICK q \in 1 .. Len(b) : k = Len(h) + q
        BY <3>2
      <4>1. q < m
        BY <1>3, <1>5, <3>0, <4>0
      <4>2. PICK i \in G, j \in G : i < j /\ b[q] = Entry("output", outs[i]) /\ b[m] = Entry("output", outs[j])
        BY <1>b, <4>1, Zenon
      <4>3. u[k] = Entry("output", outs[i]) /\ u[l] = Entry("output", outs[j])
        BY <1>3, <3>0, <4>0, <4>2, Zenon
      <4>4. i \in 1 .. n /\ j \in 1 .. n
        BY <1>k
      <4>5. u[k].round = r /\ u[l].round = r /\ u[k].place = i /\ u[l].place = j /\ i \in Nat /\ j \in Nat
        BY <1>i, <4>3, <4>4
      <4> QED BY <4>2, <4>5 DEF SameSpot
    <3> QED BY <1>3, <3>1, <3>2, Zenon
  <2> QED BY <1>3, <2>1, <2>2, Zenon
<1>6. ASSUME NEW it \in J
      PROVE  /\ IsRecorded(lease, it) => \E k \in 1 .. Len(u) : u[k] = AsInput(it)
             /\ it.kind \in GatewayKinds =>
                   \E c, o \in 1 .. Len(u) : c < o /\ u[c] = AsInput(it) /\ u[o] = Entry("output", it)
  <2>0. PICK i \in 1 .. n : it = outs[i]
    OBVIOUS
  <2>1. ASSUME i \in K PROVE \E k \in 1 .. Len(h) : u[k] = AsInput(it) /\ k \in 1 .. Len(u)
    <3>1. PICK k \in 1 .. Len(h) : h[k] = AsInput(outs[i])
      BY <1>h, <2>1, Zenon
    <3> QED BY <1>3, <2>0, <3>1, Zenon
  <2>2. ASSUME it.kind \in GatewayKinds
        PROVE  \E c, o \in 1 .. Len(u) : c < o /\ u[c] = AsInput(it) /\ u[o] = Entry("output", it)
    <3>1. i \in G /\ i \in K
      BY <1>k, <1>m, <2>0, <2>2
    <3>2. PICK c \in 1 .. Len(h) : u[c] = AsInput(it) /\ c \in 1 .. Len(u)
      BY <2>1, <3>1, Zenon
    <3>3. PICK k \in 1 .. Len(b) : b[k] = Entry("output", outs[i])
      BY <1>b, <3>1, Zenon
    <3>4. Len(h) + k \in 1 .. Len(u) /\ u[Len(h) + k] = Entry("output", it)
      BY <1>3, <2>0, <3>3, Zenon
    <3>5. c < Len(h) + k
      BY <1>3
    <3> QED BY <3>2, <3>4, <3>5, Zenon
  <2>3. IsRecorded(lease, it) => i \in K
    BY <1>o, <2>0, Zenon
  <2> QED BY <2>1, <2>2, <2>3, Zenon
<1>7. RecordsOf(lease, u, J)
  BY <1>4, <1>5, <1>6, Zenon DEF RecordsOf
<1> QED BY <1>1, <1>2, <1>7 DEF u

-----------------------------------------------------------------------------
\* The calls of a round.
LEMMA RoundCallsFacts ==
  ASSUME Typed
  PROVE  /\ OutputItems \in [1 .. Len(items) -> OutItems]
         /\ \A i \in 1 .. Len(items) : /\ OutputItems[i].round = round /\ OutputItems[i].place = i
                                       /\ OutputItems[i].kind \notin Records
         /\ Picks(OutputItems, OutputItems, 1 .. Len(items))
         /\ GatewayCalls \in SUBSET (1 .. Len(items))
         /\ \A i \in 1 .. Len(items) : i \in GatewayCalls <=> OutputItems[i].kind \in GatewayKinds
         /\ RoundCalls \in Seq(OutItems) /\ Picks(RoundCalls, OutputItems, GatewayCalls)
<1> DEFINE n == Len(items)
<1>1. items \in Seq(Slots) /\ round \in Nat /\ DOMAIN items = 1 .. n /\ n \in Nat
  BY DEF Typed, WorkTyped
<1>2. /\ OutputItems \in Seq(OutItems) /\ Len(OutputItems) = n
      /\ \A i \in 1 .. n : KindOf(i) \in ItemKinds /\ OutputItems[i] = Item(round, i, KindOf(i))
  BY <1>1, OutputType
<1>3. OutputItems \in [1 .. n -> OutItems]
  BY <1>2
<1>4. \A i \in 1 .. n : /\ OutputItems[i].round = round /\ OutputItems[i].place = i
                        /\ OutputItems[i].kind = KindOf(i) /\ OutputItems[i].kind \notin Records
  <2> SUFFICES ASSUME NEW i \in 1 .. n
               PROVE  /\ OutputItems[i].round = round /\ OutputItems[i].place = i
                      /\ OutputItems[i].kind = KindOf(i) /\ OutputItems[i].kind \notin Records
    OBVIOUS
  <2>1. \A k \in ItemKinds : k \notin Records
    BY DEF ItemKinds, Records
  <2>2. KindOf(i) \in ItemKinds /\ OutputItems[i] = Item(round, i, KindOf(i))
    BY <1>2, Zenon
  <2>3. OutputItems[i].round = round /\ OutputItems[i].place = i /\ OutputItems[i].kind = KindOf(i)
    BY <2>2 DEF Item
  <2> QED BY <2>1, <2>2, <2>3
<1>5. Picks(OutputItems, OutputItems, 1 .. n)
  BY <1>2, Zenon DEF Picks
<1>6. GatewayCalls \in SUBSET (1 .. n) /\ \A i \in 1 .. n : i \in GatewayCalls <=> OutputItems[i].kind \in GatewayKinds
  BY <1>1, <1>4 DEF GatewayCalls
<1>7. RoundCalls = FlattenSeq([i \in 1 .. n |-> IF i \in GatewayCalls THEN <<OutputItems[i]>> ELSE <<>>])
  BY <1>1 DEF RoundCalls
<1>8. RoundCalls \in Seq(OutItems) /\ Picks(RoundCalls, OutputItems, GatewayCalls)
  <2> DEFINE parts == [i \in 1 .. n |-> IF i \in GatewayCalls THEN <<OutputItems[i]>> ELSE <<>>]
  <2>1. FlattenSeq(parts) \in Seq(OutItems) /\ Picks(FlattenSeq(parts), OutputItems, GatewayCalls)
    <3>1. parts = [i \in 1 .. n |-> IF i \in GatewayCalls THEN <<OutputItems[i]>> ELSE <<>>]
      OBVIOUS
    <3> HIDE DEF parts, n
    <3> QED BY <1>1, <1>3, <1>6, <3>1, PicksFlatten
  <2> QED BY <1>7, <2>1
<1> QED BY <1>3, <1>4, <1>5, <1>6, <1>8

\* The items of two joined outputs.
LEMMA ItemSetJoin ==
  ASSUME NEW S, NEW s \in Seq(S), NEW t \in Seq(S), NEW u, u = Concatenated(s, t)
  PROVE  ItemSet(u) = ItemSet(s) \cup ItemSet(t)
<1>1. IsJoin(u, s, t)
  BY JoinFacts
<1>2. ASSUME NEW k \in 1 .. Len(u) PROVE u[k] \in ItemSet(s) \cup ItemSet(t)
  <2>1. CASE k \in 1 .. Len(s)
    BY <1>1, <2>1 DEF IsJoin, ItemSet
  <2>2. CASE \E l \in 1 .. Len(t) : k = Len(s) + l
    BY <1>1, <2>2 DEF IsJoin, ItemSet
  <2> QED BY <1>1, <2>1, <2>2, Zenon DEF IsJoin
<1>3. ASSUME NEW k \in 1 .. Len(s) PROVE s[k] \in ItemSet(u)
  <2>1. k \in 1 .. Len(u) /\ u[k] = s[k]
    BY <1>1, Zenon DEF IsJoin
  <2> QED BY <2>1 DEF ItemSet
<1>4. ASSUME NEW k \in 1 .. Len(t) PROVE t[k] \in ItemSet(u)
  <2>1. Len(s) + k \in 1 .. Len(u) /\ u[Len(s) + k] = t[k]
    BY <1>1, Zenon DEF IsJoin
  <2> QED BY <2>1 DEF ItemSet
<1>5. \A it : it \in ItemSet(u) => it \in ItemSet(s) \cup ItemSet(t)
  BY <1>2, Zenon DEF ItemSet
<1>6. \A it : it \in ItemSet(s) => it \in ItemSet(u)
  BY <1>3, Zenon DEF ItemSet
<1>7. \A it : it \in ItemSet(t) => it \in ItemSet(u)
  BY <1>4, Zenon DEF ItemSet
<1> QED BY <1>5, <1>6, <1>7

\* A round is recorded.
LEMMA CloseRecording ==
  ASSUME Typed, Ending, Streaming, Sound, Recording, CloseRound
  PROVE  Recording'
<1> DEFINE lease == mode = "lease"
           n == Len(items)
           outs == OutputItems
           sel == IF lease THEN OutputItems ELSE RoundCalls
           K == IF lease THEN 1 .. n ELSE GatewayCalls
           h == [k \in 1 .. Len(sel) |-> AsInput(sel[k])]
           b == [k \in 1 .. Len(RoundCalls) |-> Entry("output", RoundCalls[k])]
<1>1. /\ pc = "close" /\ pc' \in {"round", "ended"} /\ mode' = mode
      /\ combined' = combined \o OutputItems
      /\ RecordRoundHistory
  BY DEF CloseRound, Working
<1>2. /\ items \in Seq(Slots) /\ round \in Nat \ {0} /\ n \in Nat /\ combined \in Seq(OutItems)
      /\ lease \in BOOLEAN
  BY DEF Typed, WorkTyped
<1>3. /\ outs \in [1 .. n -> OutItems] /\ outs \in Seq(OutItems) /\ Len(outs) = n
      /\ \A i \in 1 .. n : outs[i].round = round /\ outs[i].place = i /\ outs[i].kind \notin Records
      /\ Picks(outs, outs, 1 .. n)
      /\ GatewayCalls \in SUBSET (1 .. n)
      /\ \A i \in 1 .. n : i \in GatewayCalls <=> outs[i].kind \in GatewayKinds
      /\ RoundCalls \in Seq(OutItems) /\ Picks(RoundCalls, outs, GatewayCalls)
  BY <1>2, RoundCallsFacts, OutputType
<1>4. /\ sel \in Seq(OutItems) /\ K \in SUBSET (1 .. n) /\ Picks(sel, outs, K)
      /\ \A i \in 1 .. n : i \in K <=> IsRecorded(lease, outs[i])
  <2>1. CASE lease
    BY <1>3, <2>1 DEF IsRecorded
  <2>2. CASE ~lease
    BY <1>3, <2>2 DEF IsRecorded
  <2> QED BY <2>1, <2>2
<1>5. newInput' = (newInput \o h) \o b
  <2>1. DOMAIN OutputItems = 1 .. Len(OutputItems) /\ DOMAIN RoundCalls = 1 .. Len(RoundCalls)
    BY <1>3
  <2>2. CASE lease
    BY <1>1, <2>1, <2>2 DEF RecordRoundHistory, CallOutputs
  <2>3. CASE ~lease
    BY <1>1, <2>1, <2>3 DEF RecordRoundHistory, CallOutputs
  <2> QED BY <2>2, <2>3
<1>6. /\ h = [k \in 1 .. Len(sel) |-> AsInput(sel[k])]
      /\ b = [k \in 1 .. Len(RoundCalls) |-> Entry("output", RoundCalls[k])]
  OBVIOUS
<1>7. /\ newInput \in Seq(HistoryEntries) /\ recorded \in Nat
      /\ RecordsOf(lease, newInput, ItemSet(combined)) /\ Apart(combined)
      /\ \A x \in 1 .. Len(combined) : (combined[x].kind \in Records) = (combined[x].round = 0)
      /\ lease => \A x \in 1 .. Len(combined) :
            IF x <= recorded THEN combined[x].kind # "compaction" ELSE combined[x].kind \in Records
      /\ \A x \in 1 .. Len(combined) : combined[x].kind # "compaction"
  BY <1>1 DEF Recording
<1>8. \A x \in 1 .. Len(combined) : combined[x].round \in Nat /\ combined[x].round < round
  <2>1. Base = Len(combined) /\ Listed
    BY <1>1 DEF Base, Streaming
  <2>2. \A x \in 1 .. Len(combined) : combined[x].round < round
    BY <2>1 DEF Listed
  <2>3. \A x \in 1 .. Len(combined) : combined[x] \in OutItems
    BY <1>2
  <2> QED BY <2>2, <2>3 DEF OutItems
<1> HIDE DEF h, b, sel, K, n, outs
<1>9. /\ h \in Seq(HistoryEntries) /\ b \in Seq(HistoryEntries)
      /\ RecordsOf(lease, Concatenated(h, b), Listing(outs, n))
  <2> HIDE DEF lease
  <2>1. lease \in BOOLEAN /\ n \in Nat /\ round \in Nat \ {0} /\ outs \in [1 .. n -> OutItems]
    BY <1>2, <1>3
  <2>2. \A i \in 1 .. n : outs[i].round = round /\ outs[i].place = i /\ outs[i].kind \notin Records
    BY <1>3, Zenon
  <2>3. K \in SUBSET (1 .. n) /\ \A i \in 1 .. n : i \in K <=> IsRecorded(lease, outs[i])
    BY <1>4, Zenon
  <2>4. GatewayCalls \in SUBSET (1 .. n) /\ \A i \in 1 .. n : i \in GatewayCalls <=> outs[i].kind \in GatewayKinds
    BY <1>3, Zenon
  <2>5. /\ sel \in Seq(OutItems) /\ RoundCalls \in Seq(OutItems)
        /\ Picks(sel, outs, K) /\ Picks(RoundCalls, outs, GatewayCalls)
    BY <1>3, <1>4, Zenon
  <2>6. IsBlock(lease, n, round, outs, K, GatewayCalls, sel, RoundCalls, h, b)
    BY <1>6, <2>1, <2>2, <2>3, <2>4, <2>5, Zenon DEF IsBlock
  <2> QED BY <2>6, RecordsBlock, Zenon
<1>10. ItemSet(outs) = Listing(outs, n)
  BY <1>3 DEF ItemSet, Listing
<1>11. ItemSet(combined') = ItemSet(combined) \cup ItemSet(outs)
  <2>1. combined' = Concatenated(combined, outs)
    BY <1>1 DEF Concatenated, outs
  <2> QED BY <1>2, <1>3, <2>1, ItemSetJoin
<1>12. h \o b \in Seq(HistoryEntries) /\ newInput' = newInput \o (h \o b) /\ newInput' \in Seq(HistoryEntries)
  <2>1. h \o b \in Seq(HistoryEntries)
    BY <1>9
  <2>2. (newInput \o h) \o b = newInput \o (h \o b)
    BY <1>7, <1>9, ConcatAssociative
  <2>3. newInput \o (h \o b) \in Seq(HistoryEntries)
    BY <1>7, <2>1
  <2> QED BY <1>5, <2>1, <2>2, <2>3
<1>13. RecordsOf(lease, newInput', ItemSet(combined'))
  <2>1. \A it \in ItemSet(combined) : it.round \in Nat /\ it.round < round
    BY <1>8 DEF ItemSet
  <2>2. \A it \in ItemSet(outs) : it.round = round
    BY <1>3 DEF ItemSet
  <2> DEFINE u == h \o b
  <2>3. u \in Seq(HistoryEntries) /\ RecordsOf(lease, u, ItemSet(outs))
    BY <1>9, <1>10, <1>12 DEF Concatenated
  <2> HIDE DEF u, lease
  <2>4. RecordsOf(lease, newInput \o u, ItemSet(combined) \cup ItemSet(outs))
    BY <1>2, <1>7, <2>1, <2>2, <2>3, RecordsJoin
  <2>5. newInput' = newInput \o u
    BY <1>12 DEF u
  <2> QED BY <1>11, <2>4, <2>5
<1>j. IsJoin(combined', combined, outs)
  <2>1. combined' = Concatenated(combined, outs)
    BY <1>1 DEF Concatenated, outs
  <2> QED BY <1>2, <1>3, <2>1, JoinFacts
<1>14. ASSUME NEW x \in 1 .. Len(combined')
       PROVE  \/ x \in 1 .. Len(combined) /\ combined'[x] = combined[x]
              \/ \E i \in 1 .. n : x = Len(combined) + i /\ combined'[x] = outs[i]
  <2>1. CASE x \in 1 .. Len(combined)
    BY <1>j, <2>1, Zenon DEF IsJoin
  <2>2. CASE \E i \in 1 .. Len(outs) : x = Len(combined) + i
    <3>1. PICK i \in 1 .. Len(outs) : x = Len(combined) + i
      BY <2>2
    <3>2. combined'[x] = outs[i]
      BY <1>j, <3>1, Zenon DEF IsJoin
    <3> QED BY <1>3, <3>1, <3>2
  <2> QED BY <1>j, <2>1, <2>2, Zenon DEF IsJoin
<1>15. Apart(combined')
  <2> SUFFICES ASSUME NEW x \in 1 .. Len(combined'), NEW y \in 1 .. Len(combined'), x < y
               PROVE  ~(combined'[x].round = combined'[y].round /\ combined'[x].place = combined'[y].place)
    BY DEF Apart
  <2>0. Len(combined) \in Nat
    BY <1>2
  <2>1. CASE y \in 1 .. Len(combined) /\ combined'[y] = combined[y]
    <3>1. x \in 1 .. Len(combined)
      BY <2>0, <2>1
    <3>2. combined'[x] = combined[x]
      BY <1>j, <3>1, Zenon DEF IsJoin
    <3>3. \A p, q \in 1 .. Len(combined) : p < q =>
             ~(combined[p].round = combined[q].round /\ combined[p].place = combined[q].place)
      BY <1>7, Zenon DEF Apart
    <3>4. ~(combined[x].round = combined[y].round /\ combined[x].place = combined[y].place)
      BY <2>1, <3>1, <3>3, Zenon
    <3> QED BY <2>1, <3>2, <3>4, Zenon
  <2>2. CASE \E i \in 1 .. n : y = Len(combined) + i /\ combined'[y] = outs[i]
    <3>0. PICK i \in 1 .. n : y = Len(combined) + i /\ combined'[y] = outs[i]
      BY <2>2
    <3>1. combined'[y].round = round /\ combined'[y].place = i
      BY <1>3, <3>0
    <3>2. CASE x \in 1 .. Len(combined) /\ combined'[x] = combined[x]
      <4>1. combined'[x].round \in Nat /\ combined'[x].round < round
        BY <1>8, <3>2
      <4> QED BY <1>2, <3>1, <4>1
    <3>3. CASE \E j \in 1 .. n : x = Len(combined) + j /\ combined'[x] = outs[j]
      <4>0. PICK j \in 1 .. n : x = Len(combined) + j /\ combined'[x] = outs[j]
        BY <3>3
      <4>1. combined'[x].place = j
        BY <1>3, <4>0
      <4>2. j < i
        BY <1>2, <2>0, <3>0, <4>0
      <4> QED BY <1>2, <3>1, <4>1, <4>2
    <3> QED BY <1>14, <3>2, <3>3, Zenon
  <2> QED BY <1>14, <2>1, <2>2, Zenon
<1>16. \A x \in 1 .. Len(combined') :
          (combined'[x].kind \in Records) = (combined'[x].round = 0) /\ combined'[x].kind # "compaction"
  <2> SUFFICES ASSUME NEW x \in 1 .. Len(combined')
               PROVE  (combined'[x].kind \in Records) = (combined'[x].round = 0) /\ combined'[x].kind # "compaction"
    OBVIOUS
  <2>1. CASE x \in 1 .. Len(combined) /\ combined'[x] = combined[x]
    BY <1>7, <2>1
  <2>2. CASE \E i \in 1 .. n : combined'[x] = outs[i]
    <3>1. PICK i \in 1 .. n : combined'[x] = outs[i]
      BY <2>2
    <3>2. combined'[x].round = round /\ combined'[x].kind \notin Records /\ "compaction" \in Records
      BY <1>3, <3>1 DEF Records
    <3> QED BY <1>2, <3>2
  <2> QED BY <1>14, <2>1, <2>2
<1>17. recorded' \in Nat /\ (lease => \A x \in 1 .. Len(combined') : x <= recorded')
  <2>1. recorded' = IF lease THEN Len(combined) + n ELSE recorded
    BY <1>1 DEF RecordRoundHistory, n
  <2>2. Len(combined') = Len(combined) + n /\ Len(combined) \in Nat
    BY <1>3, <1>j DEF IsJoin
  <2> QED BY <1>2, <1>7, <2>1, <2>2
<1> QED BY <1>1, <1>12, <1>13, <1>15, <1>16, <1>17 DEF Recording

-----------------------------------------------------------------------------
\* Before a round closed, nothing is recorded.
LEMMA NothingRecorded ==
  ASSUME NEW lease \in BOOLEAN, NEW its, \A it \in its : it.kind \in Records
  PROVE  RecordsOf(lease, <<>>, its)
<1>1. \A k \in Records : k \notin GatewayKinds
  BY DEF Records, GatewayKinds
<1>2. \A it \in its : ~IsRecorded(lease, it) /\ it.kind \notin GatewayKinds
  BY <1>1 DEF IsRecorded
<1>3. 1 .. Len(<<>>) = {}
  OBVIOUS
<1> QED BY <1>2, <1>3, Zenon DEF RecordsOf

\* Nothing is recorded of what heads the output.
LEMMA OpeningRecording ==
  ASSUME Typed, Recording, pc = "new", UNCHANGED <<mode, newInput, recorded>>,
         pc' \in {"round", "return"}, combined' \in Seq(OutItems),
         \A x \in 1 .. Len(combined') : /\ combined'[x].kind \in Records
                                        /\ combined'[x].round = 0 /\ combined'[x].place = x,
         pc' = "round" => \A x \in 1 .. Len(combined') : combined'[x].kind # "compaction"
  PROVE  Recording'
<1>1. newInput' = <<>> /\ recorded' = 0
  BY DEF Recording
<1>2. RecordsOf(mode = "lease", newInput, ItemSet(combined))'
  <2>1. \A it \in ItemSet(combined') : it.kind \in Records
    BY DEF ItemSet
  <2>2. (mode' = "lease") \in BOOLEAN
    OBVIOUS
  <2>3. RecordsOf(mode' = "lease", <<>>, ItemSet(combined'))
    BY <2>1, <2>2, NothingRecorded
  <2> QED BY <1>1, <2>3
<1>3. Apart(combined')
  <2> SUFFICES ASSUME NEW x \in 1 .. Len(combined'), NEW y \in 1 .. Len(combined'), x < y
               PROVE  combined'[x].place # combined'[y].place
    BY Zenon DEF Apart
  <2>1. combined'[x].place = x /\ combined'[y].place = y
    OBVIOUS
  <2> QED BY <2>1
<1>4. \A x \in 1 .. Len(combined') : ~(x <= recorded')
  BY <1>1
<1> QED BY <1>1, <1>2, <1>3, <1>4 DEF Recording

\* The discovery records head the output.
LEMMA DiscoverRecording ==
  ASSUME Typed, Recording, Discover
  PROVE  Recording'
<1>1. /\ pc = "new" /\ pc' = "round" /\ UNCHANGED <<mode, newInput, recorded>>
      /\ combined' = [i \in 1 .. Discovered |-> ListItem(i)]
  BY DEF Discover, Working
<1>2. Discovered \in Nat
  BY ConstantsAssumption
<1>3. \A i \in 1 .. Discovered : /\ ListItem(i) \in OutItems /\ ListItem(i).kind = "list"
                                 /\ ListItem(i).round = 0 /\ ListItem(i).place = i
  BY <1>2 DEF ListItem, Item, OutItems, Records
<1>4. combined' \in Seq(OutItems) /\ Len(combined') = Discovered
  BY <1>1, <1>2, <1>3
<1>5. \A x \in 1 .. Len(combined') : /\ combined'[x].kind \in Records
                                     /\ combined'[x].round = 0 /\ combined'[x].place = x
                                     /\ combined'[x].kind # "compaction"
  BY <1>1, <1>3, <1>4 DEF Records
<1> QED BY <1>1, <1>4, <1>5, OpeningRecording

\* A summary is all of the output.
LEMMA TriggerRecording ==
  ASSUME Typed, Recording, CompactionTrigger
  PROVE  Recording'
<1>1. /\ pc = "new" /\ pc' = "return" /\ UNCHANGED <<mode, newInput, recorded>>
      /\ combined' = <<Compaction>>
  BY DEF CompactionTrigger, Working
<1>3. Compaction \in OutItems /\ Compaction.kind \in Records /\ Compaction.round = 0 /\ Compaction.place = 1
  BY DEF Compaction, Item, OutItems, Records
<1>4. combined' \in Seq(OutItems) /\ \A x \in 1 .. Len(combined') : x = 1 /\ combined'[x] = Compaction
  BY <1>1, <1>3
<1> QED BY <1>1, <1>3, <1>4, OpeningRecording

\* A step that records nothing and adds nothing to the output.
LEMMA RecordingSame ==
  ASSUME Recording, UNCHANGED <<mode, combined, newInput, recorded>>,
         pc' = "new" => pc = "new", pc' \notin {"return", "ended"} => pc \notin {"return", "ended"}
  PROVE  Recording'
<1>1. mode' = mode /\ combined' = combined /\ newInput' = newInput /\ recorded' = recorded
  OBVIOUS
<1>2. RecordsOf(mode = "lease", newInput, ItemSet(combined))' = RecordsOf(mode = "lease", newInput, ItemSet(combined))
  BY <1>1
<1>3. Apart(combined)' = Apart(combined)
  BY <1>1
<1> QED BY <1>1, <1>2, <1>3 DEF Recording

\* Every step keeps the record while the turn has not failed.
LEMMA RecordingNext ==
  ASSUME Typed, Ending, Streaming, Sound => Recording, StreamNext, Sound'
  PROVE  Recording'
<1>1. CASE Worker
  <2>1. Sound /\ Recording
    BY <1>1, SoundWorker
  <2>2. CASE Discover
    BY <2>1, <2>2, DiscoverRecording
  <2>3. CASE CompactionTrigger
    BY <2>1, <2>3, TriggerRecording
  <2>4. CASE CloseRound
    BY <2>1, <2>4, CloseRecording
  <2>5. CASE Return \/ BeginRound \/ Execute
    <3>1. /\ UNCHANGED <<mode, combined, newInput, recorded>>
          /\ pc' # "new" /\ (pc' \notin {"return", "ended"} => pc \notin {"return", "ended"})
      BY <2>5 DEF Return, BeginRound, Execute, Working, turnVars
    <3> QED BY <2>1, <3>1, RecordingSame
  <2>6. CASE UpstreamEnds
    <3>1. PICK s \in {"completed", "incomplete", "failed"} : EndStream(s)
      BY <2>6 DEF UpstreamEnds
    <3>2. s # "failed"
      BY <3>1 DEF EndStream, Sound
    <3>3. /\ UNCHANGED <<mode, combined, newInput, recorded>> /\ pc = "fetch" /\ pc' = "execute"
      BY <3>1, <3>2 DEF EndStream, Working
    <3> QED BY <2>1, <3>3, RecordingSame
  <2>7. ~WorkerFails
    <3>1. WorkerFails => result' \notin {"none", "ok"}
      BY DEF WorkerFails
    <3> QED BY <3>1 DEF Sound
  <2>8. CASE AddItem \/ NameCall \/ DoneItem
    <3>1. UNCHANGED <<mode, combined, newInput, recorded, pc>> /\ pc = "fetch"
      BY <2>8 DEF AddItem, NameCall, DoneItem, Working, turnVars
    <3> QED BY <2>1, <3>1, RecordingSame
  <2> QED BY <1>1, <2>2, <2>3, <2>4, <2>5, <2>6, <2>7, <2>8 DEF Worker
<1>2. ~(Panic \/ Oversized)
  <2>1. Panic \/ Oversized => result' \notin {"none", "ok"}
    BY DEF Panic, Oversized
  <2> QED BY <2>1 DEF Sound
<1>3. CASE Send \/ Polling \/ UNCHANGED streamVars
  <2>1. UNCHANGED <<mode, pc, combined, newInput, recorded, result, status>>
    BY <1>3 DEF Send, Polling, Receive, Join, ChannelDrained, Persist, Yield, Drop, turnVars, streamVars
  <2>2. Recording
    BY <2>1 DEF Sound
  <2> QED BY <2>1, <2>2, RecordingSame
<1> QED BY <1>1, <1>2, <1>3 DEF StreamNext, Work, Worker, Poll, Polling, Over

-----------------------------------------------------------------------------
(* The stored history.                                                     *)

\* What a later turn reads of the output.
ReadPlaces == {x \in 1 .. Len(combined) : IsRetained(x) /\ combined[x].kind # "gateway"}
ReadEntry ==
    [x \in 1 .. Len(combined) |->
        IF combined[x].kind \in Records THEN Entry("record", combined[x]) ELSE AsInput(combined[x])]

\* What is recorded, and behind it what is read back.
Restored(h, t) ==
    /\ h \in Seq(HistoryEntries) /\ IsJoin(h, newInput, t)
    /\ Picks(t, ReadEntry, ReadPlaces)

\* The history is the recorded input and what is read back of the output.
LEMMA HistoryRestored == ASSUME Typed, Recording PROVE \E t : Restored(History, t)
<1> DEFINE n == Len(combined)
           t == FlattenSeq([i \in DOMAIN combined |-> IF IsRetained(i) THEN ReadBack(combined[i]) ELSE <<>>])
<1>1. combined \in Seq(OutItems) /\ n \in Nat /\ DOMAIN combined = 1 .. n /\ newInput \in Seq(HistoryEntries)
  BY DEF Typed, WorkTyped, Recording
<1>2. ReadEntry \in [1 .. n -> HistoryEntries]
  <2>1. ASSUME NEW x \in 1 .. n PROVE ReadEntry[x] \in HistoryEntries
    <3>1. combined[x] \in OutItems
      BY <1>1
    <3> QED BY <3>1, EntryFacts DEF ReadEntry
  <2>2. ReadEntry = [x \in 1 .. n |-> ReadEntry[x]]
    BY DEF ReadEntry
  <2> QED BY <2>1, <2>2
<1>3. ReadPlaces \in SUBSET (1 .. n)
  BY DEF ReadPlaces
<1> DEFINE parts == [i \in 1 .. n |-> IF i \in ReadPlaces THEN <<ReadEntry[i]>> ELSE <<>>]
<1>4. t = FlattenSeq(parts)
  <2>1. ASSUME NEW i \in 1 .. n
        PROVE  (IF IsRetained(i) THEN ReadBack(combined[i]) ELSE <<>>)
                  = IF i \in ReadPlaces THEN <<ReadEntry[i]>> ELSE <<>>
    <3>1. i \in ReadPlaces <=> IsRetained(i) /\ combined[i].kind # "gateway"
      BY DEF ReadPlaces
    <3>2. ReadEntry[i] = IF combined[i].kind \in Records THEN Entry("record", combined[i]) ELSE AsInput(combined[i])
      BY DEF ReadEntry
    <3>3. "gateway" \notin Records
      BY DEF Records
    <3>4. ReadBack(combined[i]) = IF combined[i].kind = "gateway" THEN <<>> ELSE <<ReadEntry[i]>>
      BY <3>2, <3>3 DEF ReadBack, Records
    <3> HIDE DEF ReadPlaces, ReadEntry
    <3> QED BY <3>1, <3>4
  <2>2. [i \in DOMAIN combined |-> IF IsRetained(i) THEN ReadBack(combined[i]) ELSE <<>>] = parts
    BY <1>1, <2>1
  <2> QED BY <2>2
<1>5. t \in Seq(HistoryEntries) /\ Picks(t, ReadEntry, ReadPlaces)
  <2>1. parts = [i \in 1 .. n |-> IF i \in ReadPlaces THEN <<ReadEntry[i]>> ELSE <<>>]
    OBVIOUS
  <2> HIDE DEF parts, t, n
  <2>2. /\ FlattenSeq(parts) \in Seq(HistoryEntries)
        /\ Picks(FlattenSeq(parts), ReadEntry, ReadPlaces)
    BY <1>1, <1>2, <1>3, <2>1, PicksFlatten
  <2> QED BY <1>4, <2>2
<1>6. History = Concatenated(newInput, t)
  BY DEF History, Concatenated
<1> HIDE DEF t
<1>7. History \in Seq(HistoryEntries) /\ IsJoin(History, newInput, t)
  BY <1>1, <1>5, <1>6, JoinFacts
<1> QED BY <1>5, <1>7, Zenon DEF Restored

\* An entry of the history about an item comes from this item alone.
IsRead(e, x) == x \in ReadPlaces /\ e = ReadEntry[x]
IsNoted(e, x) ==
    \/ e = AsInput(combined[x]) /\ IsRecorded(mode = "lease", combined[x])
    \/ e = Entry("output", combined[x]) /\ combined[x].kind \in GatewayKinds

\* An entry about an item has its place.
LEMMA ReadSpot ==
  ASSUME NEW x \in 1 .. Len(combined), NEW e, IsRead(e, x) \/ IsNoted(e, x)
  PROVE  e.round = combined[x].round /\ e.place = combined[x].place
<1>1. CASE IsRead(e, x)
  <2>1. e = IF combined[x].kind \in Records THEN Entry("record", combined[x]) ELSE AsInput(combined[x])
    BY <1>1 DEF IsRead, ReadEntry
  <2> QED BY <2>1, EntryFacts
<1>2. CASE IsNoted(e, x)
  <2>1. e = AsInput(combined[x]) \/ e = Entry("output", combined[x])
    BY <1>2, Zenon DEF IsNoted
  <2> QED BY <2>1, EntryFacts
<1> QED BY <1>1, <1>2

\* No two items of the output have the same place.
LEMMA OneItem ==
  ASSUME Typed, Recording, NEW x \in 1 .. Len(combined), NEW y \in 1 .. Len(combined),
         combined[x].round = combined[y].round, combined[x].place = combined[y].place
  PROVE  x = y
<1>1. \A p, q \in 1 .. Len(combined) : p < q =>
         ~(combined[p].round = combined[q].round /\ combined[p].place = combined[q].place)
  BY Zenon DEF Recording, Apart
<1>2. ~(x < y) /\ ~(y < x)
  BY <1>1, Zenon
<1>3. Len(combined) \in Nat
  BY DEF Typed, WorkTyped
<1> QED BY <1>2, <1>3

\* Where an entry comes from.
LEMMA Origin ==
  ASSUME Typed, Recording, NEW h, NEW t, Restored(h, t), NEW m \in 1 .. Len(h)
  PROVE  \E x \in 1 .. Len(combined) :
            \/ m \in 1 .. Len(newInput) /\ IsNoted(h[m], x)
            \/ m \notin 1 .. Len(newInput) /\ IsRead(h[m], x)
<1>1. IsJoin(h, newInput, t) /\ Picks(t, ReadEntry, ReadPlaces)
  BY Zenon DEF Restored
<1>2. CASE m \in 1 .. Len(newInput)
  <2>1. h[m] = newInput[m]
    BY <1>1, <1>2, Zenon DEF IsJoin
  <2>2. RecordsOf(mode = "lease", newInput, ItemSet(combined))
    BY DEF Recording
  <2>3. PICK it \in ItemSet(combined) : \/ newInput[m] = AsInput(it) /\ IsRecorded(mode = "lease", it)
                                        \/ newInput[m] = Entry("output", it) /\ it.kind \in GatewayKinds
    BY <1>2, <2>2, Zenon DEF RecordsOf
  <2>4. PICK x \in 1 .. Len(combined) : it = combined[x]
    BY DEF ItemSet
  <2>5. IsNoted(h[m], x)
    BY <2>1, <2>3, <2>4, Zenon DEF IsNoted
  <2> QED BY <1>2, <2>5
<1>3. CASE m \notin 1 .. Len(newInput)
  <2>1. PICK l \in 1 .. Len(t) : m = Len(newInput) + l
    BY <1>1, <1>3, Zenon DEF IsJoin
  <2>2. h[m] = t[l]
    BY <1>1, <2>1, Zenon DEF IsJoin
  <2>3. PICK x \in ReadPlaces : t[l] = ReadEntry[x]
    BY <1>1, Zenon DEF Picks
  <2>4. x \in 1 .. Len(combined)
    BY DEF ReadPlaces
  <2>5. IsRead(h[m], x)
    BY <2>2, <2>3, Zenon DEF IsRead
  <2> QED BY <1>3, <2>4, <2>5
<1> QED BY <1>2, <1>3

\* An entry at the place of an item comes from this item.
LEMMA PlaceOrigin ==
  ASSUME Typed, Recording, NEW h, NEW t, Restored(h, t), NEW x \in 1 .. Len(combined),
         NEW w, NEW m \in Places(h, w, combined[x])
  PROVE  /\ m \in 1 .. Len(h) /\ h[m].what = w
         /\ \/ m \in 1 .. Len(newInput) /\ IsNoted(h[m], x)
            \/ m \notin 1 .. Len(newInput) /\ IsRead(h[m], x)
<1>1. h \in Seq(HistoryEntries)
  BY Zenon DEF Restored
<1>2. /\ m \in 1 .. Len(h) /\ h[m].what = w
      /\ h[m].round = combined[x].round /\ h[m].place = combined[x].place
  BY <1>1 DEF Places
<1>3. PICK y \in 1 .. Len(combined) : \/ m \in 1 .. Len(newInput) /\ IsNoted(h[m], y)
                                      \/ m \notin 1 .. Len(newInput) /\ IsRead(h[m], y)
  BY <1>2, Origin
<1>4. h[m].round = combined[y].round /\ h[m].place = combined[y].place
  BY <1>3, ReadSpot
<1>5. x = y
  BY <1>2, <1>4, OneItem
<1> QED BY <1>2, <1>3, <1>5

-----------------------------------------------------------------------------
\* What is either noted or read is in the history once.
LEMMA PlaceOrder ==
  ASSUME Typed, Recording, NEW h, NEW t, Restored(h, t), NEW x \in 1 .. Len(combined),
         x \notin ReadPlaces \/ \A e : ~IsNoted(e, x),
         NEW w, NEW m \in Places(h, w, combined[x]), NEW n \in Places(h, w, combined[x])
  PROVE  ~(m < n)
<1> SUFFICES ASSUME m < n PROVE FALSE
  OBVIOUS
<1>0. IsJoin(h, newInput, t) /\ Picks(t, ReadEntry, ReadPlaces)
  BY Zenon DEF Restored
<1>1. /\ m \in 1 .. Len(h) /\ h[m].what = w
      /\ \/ m \in 1 .. Len(newInput) /\ IsNoted(h[m], x)
         \/ m \notin 1 .. Len(newInput) /\ IsRead(h[m], x)
  BY PlaceOrigin
<1>2. /\ n \in 1 .. Len(h) /\ h[n].what = w
      /\ \/ n \in 1 .. Len(newInput) /\ IsNoted(h[n], x)
         \/ n \notin 1 .. Len(newInput) /\ IsRead(h[n], x)
  BY PlaceOrigin
<1>3. /\ h[m].round = combined[x].round /\ h[m].place = combined[x].place
      /\ h[n].round = combined[x].round /\ h[n].place = combined[x].place
  BY <1>1, <1>2, ReadSpot
<1>4. CASE m \in 1 .. Len(newInput) /\ n \in 1 .. Len(newInput)
  <2>1. h[m] = newInput[m] /\ h[n] = newInput[n]
    BY <1>0, <1>4, Zenon DEF IsJoin
  <2>2. RecordsOf(mode = "lease", newInput, ItemSet(combined))
    BY DEF Recording
  <2>3. \A p, q \in 1 .. Len(newInput) : p < q => ~SameSpot(newInput[p], newInput[q])
    BY <2>2, Zenon DEF RecordsOf
  <2>4. ~SameSpot(newInput[m], newInput[n])
    BY <1>4, <2>3
  <2> QED BY <1>1, <1>2, <1>3, <2>1, <2>4 DEF SameSpot
<1>5. CASE m \notin 1 .. Len(newInput) /\ n \notin 1 .. Len(newInput)
  <2>1. PICK k \in 1 .. Len(t) : m = Len(newInput) + k
    BY <1>0, <1>1, <1>5, Zenon DEF IsJoin
  <2>2. PICK l \in 1 .. Len(t) : n = Len(newInput) + l
    BY <1>0, <1>2, <1>5, Zenon DEF IsJoin
  <2>3. h[m] = t[k] /\ h[n] = t[l]
    BY <1>0, <2>1, <2>2, Zenon DEF IsJoin
  <2>4. k < l
    <3>1. Len(newInput) \in Nat /\ Len(t) \in Nat
      BY <1>0, Zenon DEF IsJoin
    <3> QED BY <2>1, <2>2, <3>1
  <2>5. \A p, q \in 1 .. Len(t) : p < q => \E i, j \in ReadPlaces : i < j /\ t[p] = ReadEntry[i] /\ t[q] = ReadEntry[j]
    BY <1>0, Zenon DEF Picks
  <2>6. PICK i \in ReadPlaces, j \in ReadPlaces : i < j /\ t[k] = ReadEntry[i] /\ t[l] = ReadEntry[j]
    BY <2>4, <2>5, Zenon
  <2>7. i \in 1 .. Len(combined) /\ j \in 1 .. Len(combined)
    BY DEF ReadPlaces
  <2>8. IsRead(h[m], i) /\ IsRead(h[n], j)
    BY <2>3, <2>6, Zenon DEF IsRead
  <2>9. i = x /\ j = x
    <3>1. h[m].round = combined[i].round /\ h[m].place = combined[i].place
      BY <2>7, <2>8, ReadSpot
    <3>2. h[n].round = combined[j].round /\ h[n].place = combined[j].place
      BY <2>7, <2>8, ReadSpot
    <3>3. i = x
      BY <1>3, <2>7, <3>1, OneItem
    <3>4. j = x
      BY <1>3, <2>7, <3>2, OneItem
    <3> QED BY <3>3, <3>4
  <2>10. i \in Nat
    BY <2>7
  <2> QED BY <2>6, <2>9, <2>10
<1>6. (\A e : ~IsNoted(e, x)) => m \notin 1 .. Len(newInput) /\ n \notin 1 .. Len(newInput)
  BY <1>1, <1>2, Zenon
<1>7. x \notin ReadPlaces => m \in 1 .. Len(newInput) /\ n \in 1 .. Len(newInput)
  BY <1>1, <1>2, Zenon DEF IsRead
<1> QED BY <1>4, <1>5, <1>6, <1>7

\* The place of an entry that is there is that of no other.
LEMMA PlaceOnce ==
  ASSUME Typed, Recording, NEW h, NEW t, Restored(h, t), NEW x \in 1 .. Len(combined),
         x \notin ReadPlaces \/ \A e : ~IsNoted(e, x),
         NEW w, NEW m \in 1 .. Len(h), h[m] = Entry(w, combined[x])
  PROVE  Places(h, w, combined[x]) = {m} /\ Cardinality(Places(h, w, combined[x])) = 1
<1>1. h \in Seq(HistoryEntries)
  BY Zenon DEF Restored
<1>2. h[m].what = w /\ h[m].round = combined[x].round /\ h[m].place = combined[x].place
  BY DEF Entry
<1>3. m \in Places(h, w, combined[x])
  BY <1>1, <1>2 DEF Places
<1>4. \A n \in Places(h, w, combined[x]) : n = m
  <2> SUFFICES ASSUME NEW n \in Places(h, w, combined[x]) PROVE n = m
    OBVIOUS
  <2>1. ~(m < n)
    BY <1>3, PlaceOrder
  <2>2. ~(n < m)
    BY <1>3, PlaceOrder
  <2>3. n \in 1 .. Len(h) /\ Len(h) \in Nat
    BY <1>1 DEF Places
  <2> QED BY <2>1, <2>2, <2>3
<1>5. Places(h, w, combined[x]) = {m}
  BY <1>3, <1>4
<1> QED BY <1>5, Counting

\* What the loop recorded is not read back, unless it has no handler.
LEMMA ReadKinds ==
  ASSUME Typed, Recording, NEW x \in 1 .. Len(combined)
  PROVE  /\ combined[x].kind \in Records => x \in ReadPlaces
         /\ combined[x].kind \notin Records /\ mode = "lease" => x \notin ReadPlaces
         /\ combined[x].kind \notin {"gateway"} /\ mode # "lease" => x \in ReadPlaces
         /\ combined[x].kind = "gateway" => x \notin ReadPlaces
<1>1. x \in ReadPlaces <=> IsRetained(x) /\ combined[x].kind # "gateway"
  BY DEF ReadPlaces
<1>2. mode = "lease" => IF x <= recorded THEN combined[x].kind # "compaction" ELSE combined[x].kind \in Records
  BY DEF Recording
<1>3. recorded \in Nat /\ x \in Nat
  BY DEF Recording
<1>4. IsRetained(x) <=> (mode = "lease" => ~(x <= recorded) \/ combined[x].kind = "list")
  BY <1>3 DEF IsRetained
<1> QED BY <1>1, <1>2, <1>4 DEF Records

\* What is read back is there.
LEMMA ReadInHistory ==
  ASSUME Typed, Recording, NEW h, NEW t, Restored(h, t), NEW x \in ReadPlaces
  PROVE  \E m \in 1 .. Len(h) : h[m] = ReadEntry[x]
<1>0. IsJoin(h, newInput, t) /\ Picks(t, ReadEntry, ReadPlaces)
  BY Zenon DEF Restored
<1>1. PICK l \in 1 .. Len(t) : t[l] = ReadEntry[x]
  BY <1>0, Zenon DEF Picks
<1>2. Len(newInput) + l \in 1 .. Len(h) /\ h[Len(newInput) + l] = t[l]
  BY <1>0, Zenon DEF IsJoin
<1> QED BY <1>1, <1>2, Zenon

\* What was recorded is there.
LEMMA NotedInHistory ==
  ASSUME Typed, Recording, NEW h, NEW t, Restored(h, t), NEW x \in 1 .. Len(combined)
  PROVE  /\ IsRecorded(mode = "lease", combined[x]) => \E m \in 1 .. Len(h) : h[m] = AsInput(combined[x])
         /\ combined[x].kind \in GatewayKinds =>
               \E c, o \in 1 .. Len(h) : c < o /\ h[c] = AsInput(combined[x]) /\ h[o] = Entry("output", combined[x])
<1>0. IsJoin(h, newInput, t)
  BY Zenon DEF Restored
<1>1. RecordsOf(mode = "lease", newInput, ItemSet(combined)) /\ combined[x] \in ItemSet(combined)
  BY DEF Recording, ItemSet
<1>2. IsRecorded(mode = "lease", combined[x]) => \E m \in 1 .. Len(newInput) : newInput[m] = AsInput(combined[x])
  BY <1>1, Zenon DEF RecordsOf
<1>3. combined[x].kind \in GatewayKinds =>
         \E c, o \in 1 .. Len(newInput) : c < o /\ newInput[c] = AsInput(combined[x]) /\ newInput[o] = Entry("output", combined[x])
  BY <1>1, Zenon DEF RecordsOf
<1>4. \A k \in 1 .. Len(newInput) : k \in 1 .. Len(h) /\ h[k] = newInput[k]
  BY <1>0, Zenon DEF IsJoin
<1>5. ASSUME IsRecorded(mode = "lease", combined[x]) PROVE \E m \in 1 .. Len(h) : h[m] = AsInput(combined[x])
  BY <1>2, <1>4, <1>5, Zenon
<1>6. ASSUME combined[x].kind \in GatewayKinds
      PROVE  \E c, o \in 1 .. Len(h) : c < o /\ h[c] = AsInput(combined[x]) /\ h[o] = Entry("output", combined[x])
  <2>1. PICK c \in 1 .. Len(newInput), o \in 1 .. Len(newInput) :
           c < o /\ newInput[c] = AsInput(combined[x]) /\ newInput[o] = Entry("output", combined[x])
    BY <1>3, <1>6, Zenon
  <2>2. c \in 1 .. Len(h) /\ o \in 1 .. Len(h) /\ h[c] = newInput[c] /\ h[o] = newInput[o]
    BY <1>4, Zenon
  <2> QED BY <2>1, <2>2, Zenon
<1> QED BY <1>5, <1>6

-----------------------------------------------------------------------------
\* Messages and client calls.
LEMMA OnceInHistory ==
  ASSUME Typed, Recording, NEW h, NEW t, Restored(h, t), NEW x \in 1 .. Len(combined),
         combined[x].kind \in {"message", "function", "custom"}
  PROVE  /\ Cardinality(Places(h, IF combined[x].kind = "message" THEN "message" ELSE "call", combined[x])) = 1
         /\ Places(h, "output", combined[x]) = {}
<1> DEFINE it == combined[x]
           w == IF it.kind = "message" THEN "message" ELSE "call"
           lease == mode = "lease"
<1>1. it.kind \notin Records /\ it.kind \notin GatewayKinds /\ it.kind # "gateway"
  BY DEF Records, GatewayKinds
<1>2. AsInput(it) = Entry(w, it)
  BY DEF AsInput
<1>3. ReadEntry[x] = Entry(w, it)
  BY <1>1, <1>2 DEF ReadEntry
<1>4. /\ lease => x \notin ReadPlaces
      /\ ~lease => x \in ReadPlaces
  BY <1>1, ReadKinds
<1>5. lease => IsRecorded(lease, it)
  BY <1>1 DEF IsRecorded
<1>6. ~lease => \A e : ~IsNoted(e, x)
  BY <1>1 DEF IsNoted, IsRecorded
<1>7. \E m \in 1 .. Len(h) : h[m] = Entry(w, it)
  <2>1. CASE lease
    <3>1. IsRecorded(lease, it)
      BY <1>5, <2>1
    <3>2. \E m \in 1 .. Len(h) : h[m] = AsInput(it)
      <4>1. IsRecorded(mode = "lease", combined[x]) => \E m \in 1 .. Len(h) : h[m] = AsInput(combined[x])
        BY NotedInHistory, Zenon
      <4> QED BY <3>1, <4>1
    <3> QED BY <1>2, <3>2
  <2>2. CASE ~lease
    <3>1. x \in ReadPlaces
      BY <1>4, <2>2
    <3>2. \E m \in 1 .. Len(h) : h[m] = ReadEntry[x]
      BY <3>1, ReadInHistory
    <3> QED BY <1>3, <3>2
  <2> QED BY <2>1, <2>2
<1>8. PICK m \in 1 .. Len(h) : h[m] = Entry(w, it)
  BY <1>7
<1> HIDE DEF w
<1>9. x \notin ReadPlaces \/ \A e : ~IsNoted(e, x)
  BY <1>4, <1>6
<1>10. Cardinality(Places(h, w, combined[x])) = 1
  BY <1>8, <1>9, PlaceOnce
<1>11. ASSUME NEW n \in Places(h, "output", combined[x]) PROVE FALSE
  <2>1. h[n].what = "output" /\ (IsNoted(h[n], x) \/ IsRead(h[n], x))
    <3> HIDE DEF it, lease
    <3>1. /\ n \in 1 .. Len(h) /\ h[n].what = "output"
          /\ \/ n \in 1 .. Len(newInput) /\ IsNoted(h[n], x)
             \/ n \notin 1 .. Len(newInput) /\ IsRead(h[n], x)
      BY PlaceOrigin
    <3> QED BY <3>1
  <2>2. h[n] = Entry(w, it)
    BY <1>1, <1>2, <1>3, <2>1, Zenon DEF IsNoted, IsRead
  <2>3. h[n].what = w
    BY <2>2 DEF Entry
  <2> QED BY <2>1, <2>3 DEF w
<1>12. Places(h, "output", combined[x]) = {}
  BY <1>11
<1> QED BY <1>10, <1>12 DEF w

\* Discovery records and summaries.
LEMMA RecordInHistory ==
  ASSUME Typed, Recording, NEW h, NEW t, Restored(h, t), NEW x \in 1 .. Len(combined),
         combined[x].kind \in Records
  PROVE  Cardinality(Places(h, "record", combined[x])) = 1
<1>1. combined[x].kind \notin GatewayKinds
  BY DEF Records, GatewayKinds
<1>2. \A e : ~IsNoted(e, x)
  BY <1>1 DEF IsNoted, IsRecorded
<1>3. x \in ReadPlaces
  BY ReadKinds
<1>4. ReadEntry[x] = Entry("record", combined[x])
  BY DEF ReadEntry
<1>5. PICK m \in 1 .. Len(h) : h[m] = ReadEntry[x]
  BY <1>3, ReadInHistory
<1>6. h[m] = Entry("record", combined[x])
  BY <1>4, <1>5
<1> QED BY <1>2, <1>6, PlaceOnce

\* Gateway calls.
LEMMA ResolvedInHistory ==
  ASSUME Typed, Recording, NEW h, NEW t, Restored(h, t), NEW x \in 1 .. Len(combined),
         combined[x].kind \in GatewayKinds, combined[x].kind = "gateway" \/ mode = "lease"
  PROVE  Resolved(h, combined[x])
<1>1. combined[x].kind \notin Records /\ combined[x].kind # "message"
  BY DEF Records, GatewayKinds
<1>2. AsInput(combined[x]) = Entry("call", combined[x])
  BY <1>1 DEF AsInput
<1>3. x \notin ReadPlaces
  BY <1>1, ReadKinds
<1>4. PICK c \in 1 .. Len(h), o \in 1 .. Len(h) :
         c < o /\ h[c] = Entry("call", combined[x]) /\ h[o] = Entry("output", combined[x])
  <2>1. \E c, o \in 1 .. Len(h) : c < o /\ h[c] = AsInput(combined[x]) /\ h[o] = Entry("output", combined[x])
    BY NotedInHistory
  <2> QED BY <1>2, <2>1
<1>5. Places(h, "call", combined[x]) = {c}
  BY <1>3, <1>4, PlaceOnce
<1>6. Places(h, "output", combined[x]) = {o}
  BY <1>3, <1>4, PlaceOnce
<1>7. c \in DOMAIN h /\ o \in DOMAIN h
  BY DEF Restored
<1> QED BY <1>4, <1>5, <1>6, <1>7, Zenon DEF Resolved

\* The history has of each item of the output what it should.
LEMMA HoldsInHistory ==
  ASSUME Typed, Recording, NEW h, NEW t, Restored(h, t), NEW x \in 1 .. Len(combined)
  PROVE  Holds(h, combined[x])
<1>1. combined[x].kind \in ItemKinds \cup Records
  <2>1. combined \in Seq(OutItems)
    BY DEF Typed, WorkTyped
  <2>2. combined[x] \in OutItems
    BY <2>1
  <2> QED BY <2>2 DEF OutItems
<1>2. CASE combined[x].kind = "message"
  <2>1. Cardinality(Places(h, "message", combined[x])) = 1
    BY <1>2, OnceInHistory
  <2> QED BY <1>2, <2>1 DEF Holds
<1>3. CASE combined[x].kind \in {"function", "custom"}
  <2>1. Cardinality(Places(h, "call", combined[x])) = 1 /\ Places(h, "output", combined[x]) = {}
    BY <1>3, OnceInHistory
  <2> QED BY <1>3, <2>1 DEF Holds
<1>4. CASE combined[x].kind = "gateway"
  <2>1. Resolved(h, combined[x])
    BY <1>4, ResolvedInHistory DEF GatewayKinds
  <2> QED BY <1>4, <2>1 DEF Holds
<1>5. CASE combined[x].kind = "handlerless"
  <2>1. mode = "lease" => Resolved(h, combined[x])
    BY <1>5, ResolvedInHistory DEF GatewayKinds
  <2> QED BY <1>5, <2>1 DEF Holds
<1>6. CASE combined[x].kind \in Records
  <2>1. Cardinality(Places(h, "record", combined[x])) = 1
    BY <1>6, RecordInHistory
  <2> QED BY <1>6, <2>1 DEF Holds, Records
<1> QED BY <1>1, <1>2, <1>3, <1>4, <1>5, <1>6 DEF ItemKinds

\* With a lease only the records are read back.
LEMMA ChronologicalHistory ==
  ASSUME Typed, Recording, mode = "lease", NEW h, NEW t, Restored(h, t)
  PROVE  Chronological(h)
<1>0. IsJoin(h, newInput, t) /\ h \in Seq(HistoryEntries)
  BY Zenon DEF Restored
<1>1. ASSUME NEW m \in 1 .. Len(h), h[m].what # "record"
      PROVE  m \in 1 .. Len(newInput) /\ h[m] = newInput[m]
  <2>1. PICK x \in 1 .. Len(combined) : \/ m \in 1 .. Len(newInput) /\ IsNoted(h[m], x)
                                        \/ m \notin 1 .. Len(newInput) /\ IsRead(h[m], x)
    BY Origin
  <2>2. ~IsRead(h[m], x)
    <3> SUFFICES ASSUME IsRead(h[m], x) PROVE FALSE
      OBVIOUS
    <3>1. x \in ReadPlaces /\ h[m] = ReadEntry[x]
      BY DEF IsRead
    <3>2. combined[x].kind \in Records
      BY <3>1, ReadKinds
    <3>3. h[m] = Entry("record", combined[x])
      BY <3>1, <3>2 DEF ReadEntry
    <3> QED BY <1>1, <3>3 DEF Entry
  <2>3. m \in 1 .. Len(newInput)
    BY <2>1, <2>2
  <2> QED BY <1>0, <2>3, Zenon DEF IsJoin
<1>2. RecordsOf(TRUE, newInput, ItemSet(combined))
  BY DEF Recording
<1>3. \A m, n \in 1 .. Len(newInput) : m < n =>
         \/ newInput[m].round < newInput[n].round
         \/ newInput[m].round = newInput[n].round
            /\ (newInput[m].place < newInput[n].place \/ newInput[n].what = "output")
  BY <1>2, Zenon DEF RecordsOf
<1>4. DOMAIN h = 1 .. Len(h)
  BY <1>0
<1>5. ASSUME NEW m \in {k \in DOMAIN h : h[k].what # "record"}, NEW n \in {k \in DOMAIN h : h[k].what # "record"}, m < n
      PROVE  \/ h[m].round < h[n].round
             \/ h[m].round = h[n].round /\ (h[m].place < h[n].place \/ h[n].what = "output")
  <2>1. m \in 1 .. Len(newInput) /\ h[m] = newInput[m]
    BY <1>1, <1>4
  <2>2. n \in 1 .. Len(newInput) /\ h[n] = newInput[n]
    BY <1>1, <1>4
  <2> QED BY <1>3, <1>5, <2>1, <2>2
<1> QED BY <1>5, Zenon DEF Chronological

-----------------------------------------------------------------------------
\* Nothing is stored at the start.
LEMMA HistoryInit == StreamInit => HistoryInv
<1> SUFFICES ASSUME StreamInit PROVE HistoryInv
  OBVIOUS
<1>1. newInput = <<>> /\ combined = <<>> /\ recorded = 0 /\ stored = {} /\ Len(combined) = 0
  BY DEF StreamInit
<1>2. RecordsOf(mode = "lease", newInput, ItemSet(combined))
  <2>1. \A it \in ItemSet(combined) : it.kind \in Records
    BY <1>1 DEF ItemSet
  <2>2. (mode = "lease") \in BOOLEAN
    OBVIOUS
  <2>3. RecordsOf(mode = "lease", <<>>, ItemSet(combined))
    BY <2>1, <2>2, NothingRecorded
  <2> QED BY <1>1, <2>3
<1>3. 1 .. Len(combined) = {}
  BY <1>1
<1>4. Recording
  BY <1>1, <1>2, <1>3 DEF Recording, Apart
<1> QED BY <1>1, <1>4 DEF HistoryInv, HistoryFaithful

\* Every step keeps the record, and what is stored stays what the output says.
LEMMA HistoryNext ==
  ASSUME Typed, Ending, Streaming, HistoryInv, StreamNext
  PROVE  HistoryInv'
<1>1. Sound' => Recording'
  BY RecordingNext DEF HistoryInv
<1>2. CASE Persist /\ stored' # stored
  <2>1. /\ stream = "persist" /\ stored' \in {{History}, {}} /\ UNCHANGED <<mode, pc, combined>>
        /\ stored' # {} => ShouldPersist
    BY <1>2 DEF Persist, turnVars
  <2>2. result = "ok" /\ pc = "ended"
    BY <2>1 DEF Ending
  <2>3. CASE stored' = {}
    BY <1>1, <2>3 DEF HistoryInv, HistoryFaithful
  <2>4. CASE stored' = {History} /\ ShouldPersist
    <3>1. Sound /\ Recording
      BY <2>2, <2>4 DEF HistoryInv, Sound, ShouldPersist
    <3>2. PICK t : Restored(History, t)
      BY <3>1, HistoryRestored
    <3> DEFINE h == History
    <3> HIDE DEF h
    <3>3. \A x \in 1 .. Len(combined) : Holds(h, combined[x])
      BY <3>1, <3>2, HoldsInHistory DEF h
    <3>4. mode = "lease" => Chronological(h)
      BY <3>1, <3>2, ChronologicalHistory DEF h
    <3>5. DOMAIN combined = 1 .. Len(combined)
      BY DEF Typed, WorkTyped
    <3>6. stored' = {h}
      BY <2>4 DEF h
    <3>7. HistoryFaithful'
      BY <2>1, <3>3, <3>4, <3>5, <3>6 DEF HistoryFaithful, Holds, Resolved
    <3> QED BY <1>1, <2>1, <2>2, <3>7 DEF HistoryInv
  <2> QED BY <2>1, <2>3, <2>4
<1>3. CASE stored' = stored
  <2>1. CASE stored = {}
    BY <1>1, <1>3, <2>1 DEF HistoryInv, HistoryFaithful
  <2>2. CASE stored # {}
    <3>1. pc = "ended"
      BY <2>2 DEF HistoryInv
    <3>2. ~Worker /\ ~Send /\ ~Oversized /\ ~Panic
      <4>1. Worker => pc # "ended"
        BY WorkerStep
      <4>2. outbox = <<>>
        BY <3>1 DEF Ending
      <4> QED BY <3>1, <4>1, <4>2 DEF Send, Oversized, Panic
    <3>3. UNCHANGED <<mode, pc, combined>>
      <4>1. Polling \/ UNCHANGED streamVars
        BY <3>2 DEF StreamNext, Work, Worker, Poll, Polling, Over
      <4> QED BY <4>1 DEF Polling, Receive, Join, ChannelDrained, Persist, Yield, Drop, turnVars, streamVars
    <3>4. HistoryFaithful'
      BY <1>3, <3>3 DEF HistoryInv, HistoryFaithful, Holds, Resolved
    <3> QED BY <1>1, <3>1, <3>3, <3>4 DEF HistoryInv
  <2> QED BY <2>1, <2>2
<1>4. CASE ~Persist
  <2>1. stored' = stored
    BY <1>4, WorkerStep DEF StreamNext, Work, Worker, Poll, Send, Oversized, Panic, Receive, Join, ChannelDrained,
       Yield, Drop, Over, streamVars, consumerVars
  <2> QED BY <1>3, <2>1
<1> QED BY <1>2, <1>3, <1>4

\* HistoryFaithful in every reachable state: recorded by the loop round by round and completed
\* from the public output, a stored history holds each thing once, in its order.
THEOREM HistoryHolds == StreamSpec => []HistoryFaithful
<1>1. StreamInit => HistoryInv
  BY HistoryInit
<1>2. StreamInv /\ HistoryInv /\ [StreamNext]_streamVars => HistoryInv'
  <2> SUFFICES ASSUME StreamInv, HistoryInv, [StreamNext]_streamVars PROVE HistoryInv'
    OBVIOUS
  <2>1. CASE StreamNext
    BY <2>1, HistoryNext DEF StreamInv
  <2>2. CASE UNCHANGED streamVars
    <3>1. UNCHANGED <<mode, pc, combined, newInput, recorded, result, status, stored>>
      BY <2>2 DEF streamVars, turnVars, consumerVars
    <3>2. Sound' => Recording'
      <4>1. Sound' = Sound
        BY <3>1 DEF Sound
      <4> QED BY <3>1, <4>1, RecordingSame DEF HistoryInv
    <3>3. HistoryFaithful'
      BY <3>1 DEF HistoryInv, HistoryFaithful, Holds, Resolved
    <3> QED BY <3>1, <3>2, <3>3 DEF HistoryInv
  <2> QED BY <2>1, <2>2
<1>3. HistoryInv => HistoryFaithful
  BY DEF HistoryInv
<1> QED BY <1>1, <1>2, <1>3, StreamInvariant, PTL DEF StreamSpec

=============================================================================
