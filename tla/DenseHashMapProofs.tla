------------------------- MODULE DenseHashMapProofs -------------------------
(***************************************************************************)
(* What holds of every table of a dense_hash_map after any calls, whatever *)
(* the keys, the hash function, the load factors, the limits and the       *)
(* number of objects.                                                      *)
(*                                                                         *)
(* The thresholds every resizing decision reads are those of the present   *)
(* size and load factors.  ThresholdsInSync is not inductive as it stands: *)
(* a call that changes one field of a table leaves the others alone only   *)
(* if the table is a record with these fields, and halving a load factor   *)
(* is only sound arithmetic when it is a percentage.  Tuned adds just      *)
(* that; what the buckets hold plays no part.                              *)
(*                                                                         *)
(* The types are right and the counters count.  Neither TypeOK nor         *)
(* CountersExact is inductive.  A counter is right after an insertion only *)
(* if the search for the key missed no object and answered a free bucket,  *)
(* hence Sound's searches; a rehash ends, and counts right, only into a    *)
(* size with room for every object, hence Sound's room.                    *)
(*                                                                         *)
(* And searches end: no table is ever full, hence Spare.                   *)
(*                                                                         *)
(* Last, a client that churns (DenseChurn) and how large its table gets.   *)
(***************************************************************************)
EXTENDS DenseChurn, DenseTableProofs, SequenceTheorems

SettingsFields ==
  { "enlarge_threshold", "shrink_threshold", "enlarge_factor", "shrink_factor",
    "consider_shrink", "use_empty", "use_deleted" }

TableFields ==
  { "settings", "emptykey", "delkey", "num_deleted", "num_elements", "num_buckets",
    "table" }

\* The load factors are percentages and far enough apart.
FactorsOK(s) ==
  /\ DOMAIN s = SettingsFields
  /\ s.enlarge_factor \in Percent /\ s.shrink_factor \in Percent
  /\ 2 * s.shrink_factor <= s.enlarge_factor

Tunable(t) == DOMAIN t = TableFields /\ FactorsOK(t.settings)

Tuned(t) == Tunable(t) /\ in_sync(t)

AllTuned == DOMAIN ht = Obj /\ \A o \in Obj : Tuned(ht[o])

-----------------------------------------------------------------------------
(* Settings.                                                               *)

\* Settings given new thresholds keep their factors, and the thresholds are
\* those of the size.
LEMMA ResetThresholds ==
  ASSUME NEW s, FactorsOK(s), NEW n
  PROVE  /\ FactorsOK(reset_thresholds(s, n))
         /\ reset_thresholds(s, n).enlarge_threshold =
              enlarge_size(reset_thresholds(s, n), n)
         /\ reset_thresholds(s, n).shrink_threshold =
              shrink_size(reset_thresholds(s, n), n)
  BY DEF SettingsFields, FactorsOK, reset_thresholds, enlarge_size, shrink_size

\* set_resizing_parameters leaves the factors apart, whatever it is passed.
LEMMA FactorsApart ==
  ASSUME NEW s, FactorsOK(s), NEW shrink \in Percent, NEW grow \in Percent
  PROVE  FactorsOK(set_resizing_parameters(s, shrink, grow))
<1>1. grow \div 2 \in Percent /\ 2 * (grow \div 2) <= grow
  BY DEF Percent
<1>. QED
  BY <1>1 DEF SettingsFields, FactorsOK, set_resizing_parameters, Percent

\* A table given the thresholds of its own size is tuned.
LEMMA ResetTunes ==
  ASSUME NEW t, DOMAIN t = TableFields, NEW s, FactorsOK(s), NEW n,
         t.settings = reset_thresholds(s, n), t.num_buckets = n
  PROVE  Tuned(t)
<1>1. Tunable(t)
  BY ResetThresholds DEF Tunable
<1>2. in_sync(t)
  BY ResetThresholds DEF in_sync, FactorsOK
<1>. QED
  BY <1>1, <1>2 DEF Tuned

\* Size, factors and thresholds are all that matters.
LEMMA StaysTuned ==
  ASSUME NEW t, Tuned(t), NEW u, DOMAIN u = TableFields,
         u.num_buckets = t.num_buckets, DOMAIN u.settings = SettingsFields,
         u.settings.enlarge_threshold = t.settings.enlarge_threshold,
         u.settings.shrink_threshold = t.settings.shrink_threshold,
         u.settings.enlarge_factor = t.settings.enlarge_factor,
         u.settings.shrink_factor = t.settings.shrink_factor
  PROVE  Tuned(u)
  BY DEF Tuned, Tunable, FactorsOK, in_sync, enlarge_size, shrink_size

\* A table whose size and settings did not change is as tuned as it was.
LEMMA SameSettings ==
  ASSUME NEW t, Tuned(t), NEW u, DOMAIN u = TableFields,
         u.num_buckets = t.num_buckets, u.settings = t.settings
  PROVE  Tuned(u)
  BY StaysTuned DEF Tuned, Tunable, FactorsOK

-----------------------------------------------------------------------------
(* Clearing, copying and resizing.                                         *)

\* Clearing to a size recomputes the thresholds for it.
LEMMA ClearedIsTuned ==
  ASSUME NEW t, Tunable(t), NEW n
  PROVE  Tuned(clear_to_size(t, n))
<1>. DEFINE u == clear_to_size(t, n)
<1>1. DOMAIN u = TableFields /\ u.settings = reset_thresholds(t.settings, n)
      /\ u.num_buckets = n
  BY DEF clear_to_size, Tunable, TableFields
<1>. QED
  BY <1>1, ResetTunes DEF Tunable

\* So does copying from another table, if the factors are apart.
LEMMA CopyIsTuned ==
  ASSUME NEW t, Tunable(t), NEW from, NEW wanted
  PROVE  Tuned(copy_from(t, from, wanted))
<1>1. ASSUME NEW n PROVE Tuned(copy_to_size(t, from, n))
  <2>. DEFINE c == clear_to_size(t, n)
              u == copy_to_size(t, from, n)
  <2>1. Tuned(c)
    BY ClearedIsTuned
  <2>. HIDE DEF c
  <2>2. DOMAIN u = TableFields /\ u.num_buckets = c.num_buckets
        /\ u.settings = c.settings
    BY <2>1 DEF u, c, copy_to_size, Tuned, Tunable, TableFields
  <2>. QED
    BY <2>1, <2>2, SameSettings
<1>. QED
  BY <1>1 DEF copy_from

\* The copy constructor, with an empty key or without.
LEMMA CopyOfIsTuned ==
  ASSUME NEW t, Tunable(t), NEW wanted
  PROVE  Tuned(copy_of(t, wanted))
<1>1. ASSUME NEW n PROVE Tuned(no_table_of(t, n))
  <2>. DEFINE u == no_table_of(t, n)
  <2>1. DOMAIN u = TableFields /\ u.settings = reset_thresholds(t.settings, n)
        /\ u.num_buckets = n
    BY DEF no_table_of, Tunable, TableFields
  <2>. QED
    BY <2>1, ResetTunes DEF Tunable
<1>. QED
  BY <1>1, CopyIsTuned DEF copy_of

\* The constructor, with an expected number of items or without.
LEMMA NewTableIsTuned ==
  ASSUME NEW n
  PROVE  Tuned(new_table(n))
<1>. DEFINE s == new_settings(HT_OCCUPANCY_PCT, HT_EMPTY_PCT)
            t == new_table(n)
<1>1. FactorsOK(s)
  BY DEF FactorsOK, SettingsFields, Percent, new_settings, HT_OCCUPANCY_PCT, HT_EMPTY_PCT
<1>2. PICK m : DOMAIN t = TableFields /\ t.settings = reset_thresholds(s, m)
               /\ t.num_buckets = m
  BY DEF new_table, TableFields
<1>. QED
  BY <1>1, <1>2, ResetTunes

\* operator= takes over the settings of the other table, then recomputes.
LEMMA AssignIsTuned ==
  ASSUME NEW t, Tuned(t), NEW from, Tuned(from)
  PROVE  Tuned(assign(t, from))
<1>. DEFINE u == [t EXCEPT !.settings = from.settings, !.delkey = from.delkey,
                           !.emptykey = from.emptykey]
<1>1. Tunable(u)
  BY DEF Tuned, Tunable, TableFields
<1>2. Tuned(copy_from(u, from, HT_MIN_BUCKETS))
  BY <1>1, CopyIsTuned
<1>3. Tuned(copy_of(from, HT_DEFAULT_STARTING_BUCKETS))
  BY CopyOfIsTuned DEF Tuned
<1>. QED
  BY <1>2, <1>3 DEF assign

\* swap recomputes the thresholds on either side.
LEMMA SwappedIsTuned ==
  ASSUME NEW t, Tunable(t)
  PROVE  Tuned(swapped(t))
<1>. DEFINE u == swapped(t)
<1>1. DOMAIN u = TableFields /\ u.settings = reset_thresholds(t.settings, t.num_buckets)
      /\ u.num_buckets = t.num_buckets
  BY DEF swapped, Tunable, TableFields
<1>. QED
  BY <1>1, ResetTunes DEF Tunable

\* What a rehash leaves behind: the copy, swapped in.
LEMMA RehashIsTuned ==
  ASSUME NEW t, Tunable(t), NEW wanted
  PROVE  Tuned(swapped(copy_of(t, wanted)))
  BY CopyOfIsTuned, SwappedIsTuned DEF Tuned

\* maybe_shrink, whether it shrinks or drops the request.
LEMMA MaybeShrinkIsTuned ==
  ASSUME NEW t, Tuned(t)
  PROVE  Tuned(maybe_shrink(t).ht)
<1>. DEFINE u == [t EXCEPT !.settings.consider_shrink = FALSE]
<1>1. Tuned(u)
  <2>1. /\ DOMAIN u = TableFields /\ DOMAIN u.settings = SettingsFields
        /\ u.num_buckets = t.num_buckets
        /\ u.settings.enlarge_threshold = t.settings.enlarge_threshold
        /\ u.settings.shrink_threshold = t.settings.shrink_threshold
        /\ u.settings.enlarge_factor = t.settings.enlarge_factor
        /\ u.settings.shrink_factor = t.settings.shrink_factor
    BY DEF Tuned, Tunable, FactorsOK, TableFields, SettingsFields
  <2>. QED
    BY <2>1, StaysTuned
<1>2. \A n : Tuned(swapped(copy_of(t, n)))
  BY RehashIsTuned DEF Tuned
<1>. QED
  BY <1>1, <1>2 DEF maybe_shrink, Outcome

\* The rest of resize_delta, whatever considering to shrink left.
LEMMA GrowIsTuned ==
  ASSUME NEW u, Tuned(u.ht), NEW delta
  PROVE  Tuned(grow_if_needed(u, delta).ht)
<1>1. \A n : Tuned(swapped(copy_of(u.ht, n)))
  BY RehashIsTuned DEF Tuned
<1>. QED
  BY <1>1 DEF grow_if_needed, Outcome

\* resize_delta: shrink, grow, both or neither.
LEMMA ResizeDeltaIsTuned ==
  ASSUME NEW t, Tuned(t), NEW delta
  PROVE  Tuned(resize_delta(t, delta).ht)
<1>1. Tuned(maybe_shrink(t).ht) /\ Tuned(Outcome(t, "kept").ht)
  BY MaybeShrinkIsTuned DEF Outcome
<1>. QED
  BY <1>1, GrowIsTuned DEF resize_delta

\* resize(n), for any n.
LEMMA ResizeIsTuned ==
  ASSUME NEW t, Tuned(t), NEW n
  PROVE  Tuned(resize(t, n).ht)
<1>1. ASSUME NEW u, Tuned(u)
      PROVE  Tuned((IF n > u.num_elements THEN resize_delta(u, n - u.num_elements)
                                          ELSE Outcome(u, "kept")).ht)
  BY <1>1, ResizeDeltaIsTuned DEF Outcome
<1>2. Tuned(maybe_shrink(t).ht)
  BY MaybeShrinkIsTuned
<1>. QED
  BY <1>1, <1>2 DEF resize

\* clear, which does nothing when there is nothing to do, and clear_no_resize.
LEMMA ClearIsTuned ==
  ASSUME NEW t, Tuned(t)
  PROVE  Tuned(clear(t)) /\ Tuned(clear_no_resize(t))
<1>1. Tuned(clear(t))
  BY ClearedIsTuned DEF clear, Tuned
<1>. DEFINE u == clear_no_resize(t)
<1>2. DOMAIN u = TableFields /\ u.settings = reset_thresholds(t.settings, t.num_buckets)
      /\ u.num_buckets = t.num_buckets
  BY DEF clear_no_resize, Tuned, Tunable, TableFields
<1>3. Tuned(u)
  BY <1>2, ResetTunes DEF Tuned, Tunable
<1>. QED
  BY <1>1, <1>3

\* New factors come with new thresholds.
LEMMA ParametersAreTuned ==
  ASSUME NEW t, Tuned(t), NEW shrink \in Percent, NEW grow \in Percent
  PROVE  Tuned(change_resizing_parameters(t, shrink, grow))
<1>. DEFINE u == change_resizing_parameters(t, shrink, grow)
            s == set_resizing_parameters(t.settings, shrink, grow)
<1>1. FactorsOK(s)
  BY FactorsApart DEF Tuned, Tunable
<1>2. DOMAIN u = TableFields /\ u.settings = reset_thresholds(s, t.num_buckets)
      /\ u.num_buckets = t.num_buckets
  BY DEF change_resizing_parameters, Tuned, Tunable, TableFields
<1>. QED
  BY <1>1, <1>2, ResetTunes

-----------------------------------------------------------------------------
(* The reserved keys.                                                      *)

\* The first buckets are allocated at the size the thresholds were made for.
LEMMA SetEmptyKeyIsTuned ==
  ASSUME NEW t, Tuned(t), NEW k
  PROVE  Tuned(set_empty_key(t, k))
<1>. DEFINE u == set_empty_key(t, k)
<1>1. /\ DOMAIN u = TableFields /\ DOMAIN u.settings = SettingsFields
      /\ u.num_buckets = t.num_buckets
      /\ u.settings.enlarge_threshold = t.settings.enlarge_threshold
      /\ u.settings.shrink_threshold = t.settings.shrink_threshold
      /\ u.settings.enlarge_factor = t.settings.enlarge_factor
      /\ u.settings.shrink_factor = t.settings.shrink_factor
  BY DEF set_empty_key, Tuned, Tunable, FactorsOK, TableFields, SettingsFields
<1>. QED
  BY <1>1, StaysTuned

\* Setting or clearing the deleted key squashes the deleted buckets first.
LEMMA DeletedKeyIsTuned ==
  ASSUME NEW t, Tuned(t), NEW k
  PROVE  Tuned(set_deleted_key(t, k)) /\ Tuned(clear_deleted_key(t))
<1>. DEFINE q == squash_deleted(t)
            u == set_deleted_key(t, k)
            w == clear_deleted_key(t)
<1>1. Tuned(q)
  BY RehashIsTuned DEF squash_deleted, Tuned
<1>. HIDE DEF q
<1>2. /\ DOMAIN u = TableFields /\ DOMAIN u.settings = SettingsFields
      /\ u.num_buckets = q.num_buckets
      /\ u.settings.enlarge_threshold = q.settings.enlarge_threshold
      /\ u.settings.shrink_threshold = q.settings.shrink_threshold
      /\ u.settings.enlarge_factor = q.settings.enlarge_factor
      /\ u.settings.shrink_factor = q.settings.shrink_factor
  BY <1>1 DEF q, set_deleted_key, Tuned, Tunable, FactorsOK, TableFields, SettingsFields
<1>3. /\ DOMAIN w = TableFields /\ DOMAIN w.settings = SettingsFields
      /\ w.num_buckets = q.num_buckets
      /\ w.settings.enlarge_threshold = q.settings.enlarge_threshold
      /\ w.settings.shrink_threshold = q.settings.shrink_threshold
      /\ w.settings.enlarge_factor = q.settings.enlarge_factor
      /\ w.settings.shrink_factor = q.settings.shrink_factor
  BY <1>1 DEF q, clear_deleted_key, Tuned, Tunable, FactorsOK, TableFields, SettingsFields
<1>. QED
  BY <1>1, <1>2, <1>3, StaysTuned

-----------------------------------------------------------------------------
(* Insertion.                                                              *)

\* Putting an object in a bucket leaves size and settings alone.
LEMMA InsertAtIsTuned ==
  ASSUME NEW t, Tuned(t), NEW obj, NEW pos
  PROVE  Tuned(insert_at(t, obj, pos).ht)
<1>1. Tuned([t EXCEPT !.table[pos] = obj, !.num_deleted = @ - 1])
  BY SameSettings DEF Tuned, Tunable, TableFields
<1>2. Tuned([t EXCEPT !.table[pos] = obj, !.num_elements = @ + 1])
  BY SameSettings DEF Tuned, Tunable, TableFields
<1>. QED
  BY <1>1, <1>2 DEF insert_at, Outcome

\* insert_noresize ends in insert_at or does nothing.
LEMMA InsertNoresizeIsTuned ==
  ASSUME NEW t, Tuned(t), NEW obj
  PROVE  Tuned(insert_noresize(t, obj).ht)
  BY InsertAtIsTuned DEF insert_noresize, Outcome

\* insert of one object: resize_delta, then insert_noresize.
LEMMA InsertIsTuned ==
  ASSUME NEW t, Tuned(t), NEW obj
  PROVE  Tuned(insert(t, obj).ht)
<1>1. Tuned(resize_delta(t, 1).ht)
  BY ResizeDeltaIsTuned
<1>. QED
  BY <1>1, InsertNoresizeIsTuned DEF insert

\* operator[], whether the table resized between the two searches or not.
LEMMA FindOrInsertIsTuned ==
  ASSUME NEW t, Tuned(t), NEW k
  PROVE  Tuned(find_or_insert(t, k).ht)
<1>1. Tuned(resize_delta(t, 1).ht)
  BY ResizeDeltaIsTuned
<1>. QED
  BY <1>1, InsertNoresizeIsTuned, InsertAtIsTuned DEF find_or_insert, Outcome

\* insert_noresize of one object after the other, up to a throw.
LEMMA InsertEachIsTuned ==
  ASSUME NEW t, Tuned(t), NEW objs, Len(objs) \in Nat
  PROVE  Tuned(insert_each(t, objs)[Len(objs)].ht)
<1>. DEFINE each == insert_each(t, objs)
            Bad == {n \in 0 .. Len(objs) : ~Tuned(each[n].ht)}
<1>1. /\ each[0] = Outcome(t, "ok")
      /\ \A i \in 1 .. Len(objs) : each[i] = insert_next(each[i - 1], objs[i])
  BY InsertEachUnfolds
<1>. HIDE DEF each
<1>2. Bad = {}
  <2>. SUFFICES ASSUME Bad # {} PROVE FALSE
    OBVIOUS
  <2>. Bad \in SUBSET Nat
    OBVIOUS
  <2>1. PICK n \in Bad : \A m \in Bad : n <= m
    BY LeastNumber
  <2>2. n # 0
    BY <1>1 DEF Outcome
  <2>3. n \in 1 .. Len(objs) /\ n - 1 \in 0 .. Len(objs) /\ ~ (n <= n - 1)
    BY <2>2
  <2>4. Tuned(each[n - 1].ht)
    BY <2>1, <2>3
  <2>5. Tuned(insert_next(each[n - 1], objs[n]).ht)
    BY <2>4, InsertNoresizeIsTuned DEF insert_next, Outcome
  <2>. QED
    BY <1>1, <2>3, <2>5
<1>3. Len(objs) \in 0 .. Len(objs)
  OBVIOUS
<1>. QED
  BY <1>2, <1>3 DEF each

\* insert of a range: one resize for all of it.
LEMMA InsertRangeIsTuned ==
  ASSUME NEW t, Tuned(t), NEW objs, Len(objs) \in Nat
  PROVE  Tuned(insert_range(t, objs).ht)
<1>1. Tuned(resize_delta(t, Len(objs)).ht)
  BY ResizeDeltaIsTuned
<1>. QED
  BY <1>1, InsertEachIsTuned DEF insert_range, Outcome

-----------------------------------------------------------------------------
(* Deletion.                                                               *)

\* The three ways to erase change no threshold, only ask to consider shrinking.
LEMMA EraseIsTuned ==
  ASSUME NEW t, Tuned(t)
  PROVE  /\ \A pos : Tuned(erase_at(t, pos))
         /\ \A k : Tuned(erase(t, k).ht)
         /\ \A f, l : Tuned(erase_range(t, f, l))
<1>1. ASSUME NEW pos PROVE Tuned(erase_at(t, pos))
  <2>. DEFINE u == erase_at(t, pos)
  <2>1. /\ DOMAIN u = TableFields /\ DOMAIN u.settings = SettingsFields
        /\ u.num_buckets = t.num_buckets
        /\ u.settings.enlarge_threshold = t.settings.enlarge_threshold
        /\ u.settings.shrink_threshold = t.settings.shrink_threshold
        /\ u.settings.enlarge_factor = t.settings.enlarge_factor
        /\ u.settings.shrink_factor = t.settings.shrink_factor
    BY DEF erase_at, Tuned, Tunable, FactorsOK, TableFields, SettingsFields
  <2>. QED
    BY <2>1, StaysTuned
<1>2. ASSUME NEW k PROVE Tuned(erase(t, k).ht)
  BY <1>1 DEF erase, Outcome
<1>3. ASSUME NEW f, NEW l PROVE Tuned(erase_range(t, f, l))
  <2>. DEFINE u == erase_range(t, f, l)
  <2>1. /\ DOMAIN u = TableFields /\ DOMAIN u.settings = SettingsFields
        /\ u.num_buckets = t.num_buckets
        /\ u.settings.enlarge_threshold = t.settings.enlarge_threshold
        /\ u.settings.shrink_threshold = t.settings.shrink_threshold
        /\ u.settings.enlarge_factor = t.settings.enlarge_factor
        /\ u.settings.shrink_factor = t.settings.shrink_factor
    BY DEF erase_range, Tuned, Tunable, FactorsOK, TableFields, SettingsFields
  <2>. QED
    BY <2>1, StaysTuned
<1>. QED
  BY <1>1, <1>2, <1>3

-----------------------------------------------------------------------------
(* The calls.                                                              *)

\* A call that leaves one object tuned leaves all of them so.
LEMMA OneCall ==
  ASSUME AllTuned, NEW o \in Obj, NEW u, Tuned(u), ht' = [ht EXCEPT ![o] = u]
  PROVE  AllTuned'
  BY DEF AllTuned

\* An answer that leaves one object's table tuned leaves all of them so.
LEMMA Answered ==
  ASSUME AllTuned, NEW o \in Obj, NEW call, NEW r, Tuned(r.ht), Answer(o, call, r)
  PROVE  AllTuned'
  BY OneCall DEF Answer

\* So does a call that keeps house.
LEMMA Housekept ==
  ASSUME AllTuned, NEW o \in Obj, NEW u, Tuned(u), Housekeep(o, u)
  PROVE  AllTuned'
<1>1. Tuned(Outcome(u, "ok").ht)
  BY DEF Outcome
<1>. QED
  BY <1>1, Answered DEF Housekeep

\* New maps are tuned.
LEMMA InitTuned == Init => AllTuned
  BY NewTableIsTuned DEF Init, AllTuned

\* Every call keeps every table tuned, and so does a step that is no call.
LEMMA NextTuned ==
  ASSUME AllTuned, [Next]_vars
  PROVE  AllTuned'
<1>1. CASE UNCHANGED vars
  BY <1>1 DEF AllTuned, vars
<1>2. ASSUME NEW o \in Obj, NEW obj \in Items, Insert(o, obj) PROVE AllTuned'
  <2>1. Tuned(insert(ht[o], obj).ht)
    BY InsertIsTuned DEF AllTuned
  <2>. QED
    BY <1>2, <2>1, Answered DEF Insert
<1>3. ASSUME NEW o \in Obj, NEW k, NEW v, Subscript(o, k, v) PROVE AllTuned'
  <2>1. ASSUME NEW r, Tuned(r.ht) PROVE Tuned(AssignThrough(r, k, v).ht)
    BY <2>1, SameSettings DEF AssignThrough, Tuned, Tunable, TableFields
  <2>2. Tuned(find_or_insert(ht[o], k).ht)
    BY FindOrInsertIsTuned DEF AllTuned
  <2>. QED
    BY <1>3, <2>1, <2>2, Answered DEF Subscript
<1>4. ASSUME NEW o \in Obj, NEW objs \in Ranges, InsertRange(o, objs) PROVE AllTuned'
  <2>1. Len(objs) \in Nat
    BY ClientAssumption
  <2>2. Tuned(insert_range(ht[o], objs).ht)
    BY <2>1, InsertRangeIsTuned DEF AllTuned
  <2>. QED
    BY <1>4, <2>2, Answered DEF InsertRange
<1>5. ASSUME NEW o \in Obj, NEW k, Erase(o, k) PROVE AllTuned'
  <2>1. Tuned(erase(ht[o], k).ht)
    BY EraseIsTuned DEF AllTuned
  <2>. QED
    BY <1>5, <2>1, Answered DEF Erase
<1>6. ASSUME NEW o \in Obj, NEW pos, EraseAt(o, pos) PROVE AllTuned'
  <2>1. Tuned(erase_at(ht[o], pos))
    BY EraseIsTuned DEF AllTuned
  <2>. QED
    BY <1>6, <2>1, OneCall DEF EraseAt
<1>7. ASSUME NEW o \in Obj, NEW f, NEW l, EraseRange(o, f, l) PROVE AllTuned'
  <2>1. Tuned(erase_range(ht[o], f, l))
    BY EraseIsTuned DEF AllTuned
  <2>. QED
    BY <1>7, <2>1, OneCall DEF EraseRange
<1>8. ASSUME NEW o \in Obj, Clear(o) \/ ClearNoResize(o) PROVE AllTuned'
  <2>1. Tuned(clear(ht[o])) /\ Tuned(clear_no_resize(ht[o]))
    BY ClearIsTuned DEF AllTuned
  <2>. QED
    BY <1>8, <2>1, OneCall DEF Clear, ClearNoResize
<1>9. ASSUME NEW o \in Obj, NEW p \in Obj, Swap(o, p) PROVE AllTuned'
  <2>1. Tuned(swapped(ht[o])) /\ Tuned(swapped(ht[p]))
    BY SwappedIsTuned DEF AllTuned, Tuned
  <2>. QED
    BY <1>9, <2>1 DEF Swap, AllTuned
<1>10. ASSUME NEW o \in Obj, NEW p \in Obj, Assign(o, p) PROVE AllTuned'
  <2>1. Tuned(IF o = p THEN ht[o] ELSE assign(ht[o], ht[p]))
    BY AssignIsTuned DEF AllTuned
  <2>. QED
    BY <1>10, <2>1, OneCall DEF Assign
<1>11. ASSUME NEW o \in Obj, NEW p \in Obj, CopyConstruct(o, p) PROVE AllTuned'
  <2>1. Tuned(copy_of(ht[p], HT_DEFAULT_STARTING_BUCKETS))
    BY CopyOfIsTuned DEF AllTuned, Tuned
  <2>. QED
    BY <1>11, <2>1, OneCall DEF CopyConstruct
<1>12. ASSUME NEW o \in Obj, NEW n, Construct(o, n) PROVE AllTuned'
  BY <1>12, NewTableIsTuned, OneCall DEF Construct
<1>13. ASSUME NEW o \in Obj, NEW k, SetEmptyKey(o, k) PROVE AllTuned'
  <2>1. Tuned(set_empty_key(ht[o], k))
    BY SetEmptyKeyIsTuned DEF AllTuned
  <2>. QED
    BY <1>13, <2>1, Housekept DEF SetEmptyKey
<1>14. ASSUME NEW o \in Obj, NEW k, SetDeletedKey(o, k) \/ ClearDeletedKey(o)
       PROVE  AllTuned'
  <2>1. Tuned(set_deleted_key(ht[o], k)) /\ Tuned(clear_deleted_key(ht[o]))
    BY DeletedKeyIsTuned DEF AllTuned
  <2>. QED
    BY <1>14, <2>1, Housekept DEF SetDeletedKey, ClearDeletedKey
<1>15. ASSUME NEW o \in Obj, NEW n, Resize(o, n) PROVE AllTuned'
  <2>1. Tuned(resize(ht[o], n).ht)
    BY ResizeIsTuned DEF AllTuned
  <2>. QED
    BY <1>15, <2>1, Answered DEF Resize
<1>16. ASSUME NEW o \in Obj, NEW shrink \in Percent, NEW grow \in Percent,
              SetResizingParameters(o, shrink, grow)
       PROVE  AllTuned'
  <2>1. Tuned(change_resizing_parameters(ht[o], shrink, grow))
    BY ParametersAreTuned DEF AllTuned
  <2>. QED
    BY <1>16, <2>1, Housekept DEF SetResizingParameters
<1>17. ASSUME NEW o \in Obj, NEW f \in Factors,
              \/ SetResizingParameters(o, f[1], f[2])
              \/ MinLoadFactor(o, f[1]) \/ MaxLoadFactor(o, f[2])
       PROVE  AllTuned'
  <2>1. f[1] \in Percent /\ f[2] \in Percent
    BY ClientAssumption
  <2>2. /\ ht[o].settings.shrink_factor \in Percent
        /\ ht[o].settings.enlarge_factor \in Percent
    BY DEF AllTuned, Tuned, Tunable, FactorsOK
  <2>. QED
    BY <1>16, <1>17, <2>1, <2>2 DEF MinLoadFactor, MaxLoadFactor
<1>. QED
  BY <1>1, <1>2, <1>3, <1>4, <1>5, <1>6, <1>7, <1>8, <1>9, <1>10, <1>11, <1>12, <1>13,
     <1>14, <1>15, <1>17 DEF Next

-----------------------------------------------------------------------------
(* Every table is sound.                                                   *)

AllSound == DOMAIN ht = Obj /\ \A o \in Obj : Sound(ht[o])

-----------------------------------------------------------------------------
(* The calls.                                                              *)

\* There is room under every load factor a client passes.
LEMMA RoomUnderFactors ==
  /\ \E n \in BucketCounts : MaxSize < (n * HT_OCCUPANCY_PCT) \div 100
  /\ \A f \in Factors : \E n \in BucketCounts : MaxSize < (n * f[2]) \div 100
<1>1. \A f \in Factors : f[2] \in {g[2] : g \in Factors}
  OBVIOUS
<1>. QED
  BY <1>1, RoomAssumption

\* Sound settings leave room under their own grow factor.
LEMMA RoomUnderOwnFactor ==
  ASSUME NEW t, Sound(t)
  PROVE  \E n \in BucketCounts : MaxSize < (n * t.settings.enlarge_factor) \div 100
  BY DEF Sound, RoomFor, enlarge_size

\* A call that leaves one object sound leaves all of them so.
LEMMA OneSound ==
  ASSUME AllSound, NEW o \in Obj, NEW u, Sound(u), ht' = [ht EXCEPT ![o] = u]
  PROVE  AllSound'
  BY DEF AllSound

\* So does one that answers.
LEMMA AnsweredSound ==
  ASSUME AllSound, NEW o \in Obj, NEW call, NEW r, Sound(r.ht), Answer(o, call, r)
  PROVE  AllSound'
  BY OneSound DEF Answer

\* And one that keeps house.
LEMMA HousekeptSound ==
  ASSUME AllSound, NEW o \in Obj, NEW u, Sound(u), Housekeep(o, u)
  PROVE  AllSound'
<1>1. Sound(Outcome(u, "ok").ht)
  BY DEF Outcome
<1>. QED
  BY <1>1, AnsweredSound DEF Housekeep

\* New maps are sound: they have no buckets to be wrong.
LEMMA InitSound == Init => AllSound
<1>1. Sound(new_table(0))
  BY RoomUnderFactors, NewTableSound
<1>. QED
  BY <1>1 DEF Init, AllSound

\* The calls that insert.
LEMMA InsertionsSound ==
  ASSUME AllSound, NEW o \in Obj
  PROVE  /\ \A obj \in Items : Insert(o, obj) \/ Subscript(o, obj.key, obj.val) => AllSound'
         /\ \A objs \in Ranges : InsertRange(o, objs) => AllSound'
<1>1. Sound(ht[o])
  BY DEF AllSound
<1>2. \A k : Insertable(ht[o], k) => Allowed(ht[o], k)
  BY DEF Insertable, Ordinary, Allowed
<1>3. ASSUME NEW obj \in Items, Insert(o, obj) PROVE AllSound'
  <2>1. obj \in Slot /\ Allowed(ht[o], obj.key)
    BY <1>2, <1>3, ClientAssumption DEF Insert, Slot
  <2>2. Sound(insert(ht[o], obj).ht)
    BY <1>1, <2>1, InsertSound
  <2>. QED
    BY <1>3, <2>2, AnsweredSound DEF Insert
<1>4. ASSUME NEW obj \in Items, Subscript(o, obj.key, obj.val) PROVE AllSound'
  <2>1. obj.key \in Key /\ obj.val \in Val /\ Allowed(ht[o], obj.key)
    BY <1>2, <1>4, ClientAssumption DEF Subscript
  <2>. DEFINE r == find_or_insert(ht[o], obj.key)
              w == IF r.res \in {"inserted", "present"}
                   THEN AssignThrough(r, obj.key, obj.val) ELSE r
  <2>2. Sound(r.ht) /\ r.ht.settings.use_empty
    BY <1>1, <2>1, FindOrInsertSound DEF Allowed, SameReserved
  <2>. HIDE DEF r
  <2>3. Sound(AssignThrough(r, obj.key, obj.val).ht)
    BY <2>1, <2>2, ValueSound DEF AssignThrough
  <2>4. Sound(w.ht)
    BY <2>2, <2>3
  <2>5. Answer(o, <<"subscript", o, obj.key>>, w)
    BY <1>4 DEF Subscript, r
  <2>. HIDE DEF w
  <2>. QED
    BY <2>4, <2>5, AnsweredSound
<1>5. ASSUME NEW objs \in Ranges, InsertRange(o, objs) PROVE AllSound'
  <2>1. objs \in Seq(Slot)
    BY ClientAssumption DEF Slot
  <2>2. /\ Len(objs) \in Nat
        /\ \A i \in 1 .. Len(objs) : objs[i] \in Slot /\ Allowed(ht[o], objs[i].key)
    BY <1>2, <1>5, <2>1 DEF InsertRange
  <2>3. Sound(insert_range(ht[o], objs).ht)
    BY <1>1, <2>2, InsertRangeSound
  <2>. QED
    BY <1>5, <2>3, AnsweredSound DEF InsertRange
<1>. QED
  BY <1>3, <1>4, <1>5

\* The calls that erase and clear.
LEMMA ErasuresSound ==
  ASSUME AllSound, NEW o \in Obj
  PROVE  /\ \A k \in Key : Erase(o, k) => AllSound'
         /\ \A pos \in Buckets(ht[o]) : EraseAt(o, pos) => AllSound'
         /\ \A f, l : EraseRange(o, f, l) => AllSound'
         /\ Clear(o) \/ ClearNoResize(o) => AllSound'
<1>1. Sound(ht[o])
  BY DEF AllSound
<1>2. \A i : i \in LiveBuckets(ht[o]) \/ test_deleted(ht[o], i) => ht[o].settings.use_empty
  BY <1>1 DEF Sound, Blank, LiveBuckets, test_deleted
<1>3. ASSUME NEW k \in Key, Erase(o, k) PROVE AllSound'
  <2>1. Sound(erase(ht[o], k).ht)
    BY <1>1, <1>3, EraseSound DEF Erase
  <2>. QED
    BY <1>3, <2>1, AnsweredSound DEF Erase
<1>4. ASSUME NEW pos \in Buckets(ht[o]), EraseAt(o, pos) PROVE AllSound'
  <2>1. Sound(erase_at(ht[o], pos))
    BY <1>1, <1>2, <1>4, EraseAtSound DEF EraseAt
  <2>. QED
    BY <1>4, <2>1, OneSound DEF EraseAt
<1>5. ASSUME NEW f, NEW l, EraseRange(o, f, l) PROVE AllSound'
  <2>1. Sound(erase_range(ht[o], f, l))
    BY <1>1, <1>2, <1>5, EraseRangeSound DEF EraseRange
  <2>. QED
    BY <1>5, <2>1, OneSound DEF EraseRange
<1>6. ASSUME Clear(o) \/ ClearNoResize(o) PROVE AllSound'
  <2>1. Sound(clear(ht[o])) /\ Sound(clear_no_resize(ht[o]))
    BY <1>1, <1>6, ClearSound DEF Clear, ClearNoResize
  <2>. QED
    BY <1>6, <2>1, OneSound DEF Clear, ClearNoResize
<1>. QED
  BY <1>3, <1>4, <1>5, <1>6

\* The calls that deal with whole objects.
LEMMA ObjectsSound ==
  ASSUME AllSound, NEW o \in Obj
  PROVE  /\ \A p \in Obj : Swap(o, p) \/ Assign(o, p) \/ CopyConstruct(o, p) => AllSound'
         /\ \A n \in Expected : Construct(o, n) => AllSound'
<1>1. ASSUME NEW p \in Obj, Swap(o, p) PROVE AllSound'
  <2>1. Sound(swapped(ht[o])) /\ Sound(swapped(ht[p]))
    BY SwappedSound DEF AllSound
  <2>. QED
    BY <1>1, <2>1 DEF Swap, AllSound
<1>2. ASSUME NEW p \in Obj, Assign(o, p) PROVE AllSound'
  <2>1. Sound(IF o = p THEN ht[o] ELSE assign(ht[o], ht[p]))
    BY AssignSound DEF AllSound
  <2>. QED
    BY <1>2, <2>1, OneSound DEF Assign
<1>3. ASSUME NEW p \in Obj, CopyConstruct(o, p) PROVE AllSound'
  <2>1. Sound(copy_of(ht[p], HT_DEFAULT_STARTING_BUCKETS))
    BY CopyOfSound, StartingSizes DEF AllSound
  <2>. QED
    BY <1>3, <2>1, OneSound DEF CopyConstruct
<1>4. ASSUME NEW n \in Expected, Construct(o, n) PROVE AllSound'
  <2>1. n \in Nat
    BY ClientAssumption, SizesAssumption
  <2>2. Sound(new_table(n))
    BY <1>4, <2>1, RoomUnderFactors, NewTableSound DEF Construct
  <2>. QED
    BY <1>4, <2>2, OneSound DEF Construct
<1>. QED
  BY <1>1, <1>2, <1>3, <1>4

\* The calls that keep house.
LEMMA HousekeepingSound ==
  ASSUME AllSound, NEW o \in Obj
  PROVE  /\ \A k \in EmptyKeys : SetEmptyKey(o, k) => AllSound'
         /\ \A k \in DeletedKeys : SetDeletedKey(o, k) => AllSound'
         /\ ClearDeletedKey(o) => AllSound'
         /\ \A n \in Requests : Resize(o, n) => AllSound'
         /\ \A f \in Factors : \/ SetResizingParameters(o, f[1], f[2])
                               \/ MinLoadFactor(o, f[1]) \/ MaxLoadFactor(o, f[2])
                               => AllSound'
<1>. DEFINE t == ht[o]
            q == squash_deleted(t)
<1>1. Sound(t)
  BY DEF AllSound
<1>2. ASSUME NEW k \in EmptyKeys, SetEmptyKey(o, k) PROVE AllSound'
  <2>1. k \in Key
    BY ClientAssumption
  <2>2. Sound(set_empty_key(t, k))
    BY <1>1, <1>2, <2>1, SetEmptyKeySound DEF SetEmptyKey
  <2>. QED
    BY <1>2, <2>2, HousekeptSound DEF SetEmptyKey
<1>3. q \in TableOf(q.num_buckets) /\ q.settings \in Settings /\ q.num_buckets \in BucketCounts
  BY <1>1, SquashSound, Fields DEF Sound
<1>. HIDE DEF q
<1>4. ASSUME NEW k \in DeletedKeys, SetDeletedKey(o, k) PROVE AllSound'
  <2>. DEFINE u == set_deleted_key(t, k)
  <2>1. k \in Key /\ k \notin Keys(t) /\ (t.settings.use_empty => k # t.emptykey)
    BY <1>4, ClientAssumption DEF SetDeletedKey
  <2>2. /\ IsTable(u) /\ u.settings.use_deleted = TRUE /\ u.delkey = k
        /\ u.settings.use_empty = q.settings.use_empty
        /\ u.settings.enlarge_factor = q.settings.enlarge_factor
        /\ u.table = q.table /\ u.num_buckets = q.num_buckets /\ u.emptykey = q.emptykey
        /\ u.num_elements = q.num_elements /\ u.num_deleted = q.num_deleted
    BY <1>3, <2>1 DEF set_deleted_key, q, IsTable, TableOf, Settings
  <2>. HIDE DEF u
  <2>3. Sound(u)
    BY <1>1, <2>1, <2>2, DeletedKeySound DEF q
  <2>. QED
    BY <1>4, <2>3, HousekeptSound DEF SetDeletedKey, u
<1>5. ASSUME ClearDeletedKey(o) PROVE AllSound'
  <2>. DEFINE u == clear_deleted_key(t)
  <2>1. /\ IsTable(u) /\ u.settings.use_deleted = FALSE
        /\ u.settings.use_empty = q.settings.use_empty
        /\ u.settings.enlarge_factor = q.settings.enlarge_factor
        /\ u.table = q.table /\ u.num_buckets = q.num_buckets /\ u.emptykey = q.emptykey
        /\ u.num_elements = q.num_elements /\ u.num_deleted = q.num_deleted
    BY <1>3 DEF clear_deleted_key, q, IsTable, TableOf, Settings
  <2>. HIDE DEF u
  <2>2. Sound(u)
    BY <1>1, <2>1, DeletedKeySound, KeysAssumption DEF q
  <2>. QED
    BY <1>5, <2>2, HousekeptSound DEF ClearDeletedKey, u
<1>6. ASSUME NEW n \in Requests, Resize(o, n) PROVE AllSound'
  <2>1. n \in Nat
    BY ClientAssumption, SizesAssumption
  <2>2. Sound(resize(t, n).ht)
    BY <1>1, <2>1, ResizeSound
  <2>. QED
    BY <1>6, <2>2, AnsweredSound DEF Resize
<1>7. ASSUME NEW shrink \in Percent, NEW grow \in Percent,
             \E n \in BucketCounts : MaxSize < (n * grow) \div 100,
             SetResizingParameters(o, shrink, grow)
      PROVE  AllSound'
  <2>1. Sound(change_resizing_parameters(t, shrink, grow))
    BY <1>1, <1>7, ParametersSound
  <2>. QED
    BY <1>7, <2>1, HousekeptSound DEF SetResizingParameters
<1>8. ASSUME NEW f \in Factors,
             \/ SetResizingParameters(o, f[1], f[2])
             \/ MinLoadFactor(o, f[1]) \/ MaxLoadFactor(o, f[2])
      PROVE  AllSound'
  <2>1. f[1] \in Percent /\ f[2] \in Percent
    BY ClientAssumption
  <2>2. t.settings.shrink_factor \in Percent /\ t.settings.enlarge_factor \in Percent
    BY <1>1, Fields DEF Sound, Settings
  <2>. QED
    BY <1>1, <1>7, <1>8, <2>1, <2>2, RoomUnderFactors, RoomUnderOwnFactor
       DEF MinLoadFactor, MaxLoadFactor
<1>. QED
  BY <1>2, <1>4, <1>5, <1>6, <1>8

\* Every call keeps every table sound, and so does a step that is no call.
LEMMA NextSound ==
  ASSUME AllSound, [Next]_vars
  PROVE  AllSound'
<1>1. CASE UNCHANGED vars
  BY <1>1 DEF AllSound, vars
<1>2. CASE Next
  BY <1>2, InsertionsSound, ErasuresSound, ObjectsSound, HousekeepingSound DEF Next
<1>. QED
  BY <1>1, <1>2

-----------------------------------------------------------------------------
(* No table fills up.                                                      *)

\* No load factor in use lets a table fill up.
FactorsLeaveRoom == \A f \in Factors : f[2] < 100

\* Every table has an empty bucket.
AllSpare == \A o \in Obj : Spare(ht[o], 0)

\* What the invariants say of one table.
LEMMA OfOne ==
  ASSUME AllSound, AllTuned, AllSpare, NEW o \in Obj
  PROVE  /\ Sound(ht[o]) /\ Spare(ht[o], 0) /\ InTime(ht[o])
         /\ ht[o].num_elements \in Nat /\ ht[o].num_buckets \in Nat
         /\ ht[o].num_elements < ht[o].num_buckets
         /\ ht[o].settings.enlarge_factor < 100
<1>1. Sound(ht[o]) /\ Spare(ht[o], 0) /\ InTime(ht[o])
  BY DEF AllSound, AllTuned, AllSpare, Tuned, in_sync, InTime
<1>. QED
  BY <1>1, Fields DEF Sound, Spare

\* A table with the counts of another and its grow factor is as spare.
LEMMA SpareCounts ==
  ASSUME NEW u, u.settings.enlarge_factor < 100, u.num_elements \in Nat,
         u.num_elements < u.num_buckets
  PROVE  Spare(u, 0)
  BY DEF Spare

\* A call that leaves one object an empty bucket leaves all of them one.
LEMMA OneSpare ==
  ASSUME AllSound, AllSpare, NEW o \in Obj, NEW u, Spare(u, 0), ht' = [ht EXCEPT ![o] = u]
  PROVE  AllSpare'
  BY DEF AllSound, AllSpare

\* So does one that answers.
LEMMA AnsweredSpare ==
  ASSUME AllSound, AllSpare, NEW o \in Obj, NEW call, NEW r, Spare(r.ht, 0),
         Answer(o, call, r)
  PROVE  AllSpare'
  BY OneSpare DEF Answer

\* And one that keeps house.
LEMMA HousekeptSpare ==
  ASSUME AllSound, AllSpare, NEW o \in Obj, NEW u, Spare(u, 0), Housekeep(o, u)
  PROVE  AllSpare'
<1>1. Spare(Outcome(u, "ok").ht, 0)
  BY DEF Outcome
<1>. QED
  BY <1>1, AnsweredSpare DEF Housekeep

\* A new table has no objects.
LEMMA NewTableSpare ==
  ASSUME NEW n, Sound(new_table(n))
  PROVE  Spare(new_table(n), 0)
<1>1. new_table(n).num_elements = 0
      /\ new_table(n).settings.enlarge_factor = HT_OCCUPANCY_PCT
  BY DEF new_table, new_settings, reset_thresholds
<1>2. new_table(n).num_buckets \in Nat /\ new_table(n).num_buckets > 0
  BY Fields, BucketCountIsPower DEF Sound
<1>. QED
  BY <1>1, <1>2 DEF Spare, HT_OCCUPANCY_PCT

\* New maps have room.
LEMMA InitSpare == Init => AllSpare
<1>1. Spare(new_table(0), 0)
  BY RoomUnderFactors, NewTableSound, NewTableSpare
<1>. QED
  BY <1>1 DEF Init, AllSpare

\* The calls that insert, erase and clear.
LEMMA ContentsSpare ==
  ASSUME AllSound, AllTuned, AllSpare, NEW o \in Obj
  PROVE  /\ \A obj \in Items : Insert(o, obj) \/ Subscript(o, obj.key, obj.val) => AllSpare'
         /\ \A objs \in Ranges : InsertRange(o, objs) => AllSpare'
         /\ \A k : Erase(o, k) => AllSpare'
         /\ \A pos : EraseAt(o, pos) => AllSpare'
         /\ \A f, l : EraseRange(o, f, l) => AllSpare'
         /\ Clear(o) \/ ClearNoResize(o) => AllSpare'
<1>1. Sound(ht[o]) /\ Spare(ht[o], 0) /\ InTime(ht[o])
  BY OfOne
<1>2. ASSUME NEW obj \in Items, Insert(o, obj) PROVE AllSpare'
  <2>1. Spare(insert(ht[o], obj).ht, 0)
    BY <1>1, InsertSpare
  <2>. QED
    BY <1>2, <2>1, AnsweredSpare DEF Insert
<1>3. ASSUME NEW obj \in Items, Subscript(o, obj.key, obj.val) PROVE AllSpare'
  <2>. DEFINE r == find_or_insert(ht[o], obj.key)
              w == IF r.res \in {"inserted", "present"}
                   THEN AssignThrough(r, obj.key, obj.val) ELSE r
  <2>1. obj.key \in Key /\ Allowed(ht[o], obj.key)
    BY <1>3, ClientAssumption DEF Subscript, Insertable, Ordinary, Allowed
  <2>2. Sound(r.ht) /\ Spare(r.ht, 0)
    BY <1>1, <2>1, FindOrInsertSound, InsertSpare
  <2>. HIDE DEF r
  <2>3. Spare(AssignThrough(r, obj.key, obj.val).ht, 0)
    BY <2>2, EraseSpare DEF AssignThrough
  <2>4. Spare(w.ht, 0)
    BY <2>2, <2>3
  <2>5. Answer(o, <<"subscript", o, obj.key>>, w)
    BY <1>3 DEF Subscript, r
  <2>. HIDE DEF w
  <2>. QED
    BY <2>4, <2>5, AnsweredSpare
<1>4. ASSUME NEW objs \in Ranges, InsertRange(o, objs) PROVE AllSpare'
  <2>1. objs \in Seq(Slot)
    BY ClientAssumption DEF Slot
  <2>2. /\ Len(objs) \in Nat
        /\ \A i \in 1 .. Len(objs) : objs[i] \in Slot /\ Allowed(ht[o], objs[i].key)
    BY <1>4, <2>1 DEF InsertRange, Insertable, Ordinary, Allowed
  <2>3. Spare(insert_range(ht[o], objs).ht, 0)
    BY <1>1, <2>2, InsertRangeSpare
  <2>. QED
    BY <1>4, <2>3, AnsweredSpare DEF InsertRange
<1>5. ASSUME NEW k, Erase(o, k) PROVE AllSpare'
  <2>1. Spare(erase(ht[o], k).ht, 0)
    BY <1>1, EraseSpare
  <2>. QED
    BY <1>5, <2>1, AnsweredSpare DEF Erase
<1>6. ASSUME NEW pos, EraseAt(o, pos) PROVE AllSpare'
  <2>1. Spare(erase_at(ht[o], pos), 0)
    BY <1>1, EraseSpare
  <2>. QED
    BY <1>6, <2>1, OneSpare DEF EraseAt
<1>7. ASSUME NEW f, NEW l, EraseRange(o, f, l) PROVE AllSpare'
  <2>1. Spare(erase_range(ht[o], f, l), 0)
    BY <1>1, EraseSpare
  <2>. QED
    BY <1>7, <2>1, OneSpare DEF EraseRange
<1>8. ASSUME Clear(o) \/ ClearNoResize(o) PROVE AllSpare'
  <2>1. Spare(clear(ht[o]), 0) /\ Spare(clear_no_resize(ht[o]), 0)
    BY <1>1, ClearSpare
  <2>. QED
    BY <1>8, <2>1, OneSpare DEF Clear, ClearNoResize
<1>. QED
  BY <1>2, <1>3, <1>4, <1>5, <1>6, <1>7, <1>8

\* The calls that deal with whole objects.
LEMMA ObjectsSpare ==
  ASSUME AllSound, AllTuned, AllSpare, NEW o \in Obj
  PROVE  /\ \A p \in Obj : Swap(o, p) \/ Assign(o, p) \/ CopyConstruct(o, p) => AllSpare'
         /\ \A n \in Expected : Construct(o, n) => AllSpare'
<1>1. ASSUME NEW p \in Obj PROVE Spare(swapped(ht[p]), 0)
  BY OfOne, SwappedSound, SpareCounts DEF SameMap
<1>2. ASSUME NEW p \in Obj, Swap(o, p) PROVE AllSpare'
  <2>1. Spare(swapped(ht[o]), 0) /\ Spare(swapped(ht[p]), 0)
    BY <1>1
  <2>. QED
    BY <1>2, <2>1 DEF Swap, AllSpare, AllSound
<1>3. ASSUME NEW p \in Obj, Assign(o, p) PROVE AllSpare'
  <2>. DEFINE u == assign(ht[o], ht[p])
  <2>1. Sound(u) /\ SameMap(u, ht[p]) /\ u.num_elements < u.num_buckets
    BY OfOne, AssignSound
  <2>. HIDE DEF u
  <2>2. u.num_elements \in Nat
    BY <2>1, Fields DEF Sound
  <2>3. Spare(u, 0)
    BY <2>1, <2>2, OfOne, SpareCounts DEF SameMap
  <2>4. Spare(IF o = p THEN ht[o] ELSE u, 0)
    BY <2>3, OfOne
  <2>. QED
    BY <1>3, <2>4, OneSpare DEF Assign, u
<1>4. ASSUME NEW p \in Obj, CopyConstruct(o, p) PROVE AllSpare'
  <2>. DEFINE u == copy_of(ht[p], HT_DEFAULT_STARTING_BUCKETS)
  <2>1. Sound(u) /\ SameMap(u, ht[p]) /\ u.num_elements < u.num_buckets
    BY OfOne, CopyOfSound, StartingSizes
  <2>. HIDE DEF u
  <2>2. u.num_elements \in Nat
    BY <2>1, Fields DEF Sound
  <2>3. Spare(u, 0)
    BY <2>1, <2>2, OfOne, SpareCounts DEF SameMap
  <2>. QED
    BY <1>4, <2>3, OneSpare DEF CopyConstruct, u
<1>5. ASSUME NEW n \in Expected, Construct(o, n) PROVE AllSpare'
  <2>1. n \in Nat
    BY ClientAssumption, SizesAssumption
  <2>2. Spare(new_table(n), 0)
    BY <1>5, <2>1, RoomUnderFactors, NewTableSound, NewTableSpare DEF Construct
  <2>. QED
    BY <1>5, <2>2, OneSpare DEF Construct
<1>. QED
  BY <1>2, <1>3, <1>4, <1>5

\* The calls that keep house.
LEMMA HousekeepingSpare ==
  ASSUME FactorsLeaveRoom, AllSound, AllTuned, AllSpare, NEW o \in Obj
  PROVE  /\ \A k : SetEmptyKey(o, k) \/ SetDeletedKey(o, k) => AllSpare'
         /\ ClearDeletedKey(o) => AllSpare'
         /\ \A n \in Requests : Resize(o, n) => AllSpare'
         /\ \A f \in Factors : \/ SetResizingParameters(o, f[1], f[2])
                               \/ MinLoadFactor(o, f[1]) \/ MaxLoadFactor(o, f[2])
                               => AllSpare'
<1>. DEFINE t == ht[o]
            q == squash_deleted(t)
<1>1. /\ Sound(t) /\ Spare(t, 0) /\ InTime(t) /\ t.settings.enlarge_factor < 100
      /\ t \in TableOf(t.num_buckets) /\ t.settings \in Settings
  BY OfOne, Fields DEF Sound
<1>2. ASSUME NEW k, SetEmptyKey(o, k) PROVE AllSpare'
  <2>1. Spare(set_empty_key(t, k), 0)
    BY <1>1 DEF set_empty_key, TableOf, Settings, Spare
  <2>. QED
    BY <1>2, <2>1, HousekeptSpare DEF SetEmptyKey
<1>3. Spare(q, 0) /\ q \in TableOf(q.num_buckets) /\ q.settings \in Settings
  <2>1. Spare(q, 0)
    BY <1>1, RehashSpare, StartingSizes DEF squash_deleted
  <2>2. Sound(q)
    BY <1>1, SquashSound
  <2>. HIDE DEF q
  <2>. QED
    BY <2>1, <2>2, Fields DEF Sound
<1>. HIDE DEF q
<1>4. ASSUME NEW k, SetDeletedKey(o, k) PROVE AllSpare'
  <2>1. Spare(set_deleted_key(t, k), 0)
    BY <1>3 DEF set_deleted_key, TableOf, Settings, Spare, q
  <2>. QED
    BY <1>4, <2>1, HousekeptSpare DEF SetDeletedKey
<1>5. ASSUME ClearDeletedKey(o) PROVE AllSpare'
  <2>1. Spare(clear_deleted_key(t), 0)
    BY <1>3 DEF clear_deleted_key, TableOf, Settings, Spare, q
  <2>. QED
    BY <1>5, <2>1, HousekeptSpare DEF ClearDeletedKey
<1>6. ASSUME NEW n \in Requests, Resize(o, n) PROVE AllSpare'
  <2>1. n \in Nat
    BY ClientAssumption, SizesAssumption
  <2>2. Spare(resize(t, n).ht, 0)
    BY <1>1, <2>1, ResizeSpare
  <2>. QED
    BY <1>6, <2>2, AnsweredSpare DEF Resize
<1>7. ASSUME NEW shrink, NEW grow, grow < 100, SetResizingParameters(o, shrink, grow)
      PROVE  AllSpare'
  <2>. DEFINE u == change_resizing_parameters(t, shrink, grow)
  <2>1. u.settings.enlarge_factor = grow /\ u.num_elements = t.num_elements
        /\ u.num_buckets = t.num_buckets
    BY <1>1 DEF change_resizing_parameters, set_resizing_parameters, reset_thresholds,
                TableOf, Settings
  <2>. HIDE DEF u
  <2>2. Spare(u, 0)
    BY <1>1, <1>7, <2>1 DEF Spare
  <2>. QED
    BY <1>7, <2>2, HousekeptSpare DEF SetResizingParameters, u
<1>8. ASSUME NEW f \in Factors,
             \/ SetResizingParameters(o, f[1], f[2])
             \/ MinLoadFactor(o, f[1]) \/ MaxLoadFactor(o, f[2])
      PROVE  AllSpare'
  <2>1. f[2] < 100
    BY DEF FactorsLeaveRoom
  <2>. QED
    BY <1>1, <1>7, <1>8, <2>1 DEF MinLoadFactor, MaxLoadFactor
<1>. QED
  BY <1>2, <1>4, <1>5, <1>6, <1>8

\* No call fills a table up.
LEMMA NextSpare ==
  ASSUME FactorsLeaveRoom, AllSound, AllTuned, AllSpare, [Next]_vars
  PROVE  AllSpare'
<1>1. CASE UNCHANGED vars
  BY <1>1 DEF AllSpare, vars
<1>2. CASE Next
  BY <1>2, ContentsSpare, ObjectsSpare, HousekeepingSpare DEF Next
<1>. QED
  BY <1>1, <1>2

-----------------------------------------------------------------------------
(* The theorems.                                                           *)

\* Whatever the program calls, in whatever order, the thresholds that every
\* resizing decision of every table reads (resize_delta, maybe_shrink) are
\* those of the table's present size and load factors, and the shrink factor
\* is at most half the grow factor, also after swaps, copies, assignments and
\* insertions that threw.
THEOREM ThresholdsStayInSync == Spec => []ThresholdsInSync
<1>1. AllTuned /\ [Next]_vars => AllTuned'
  BY NextTuned
<1>2. AllTuned => ThresholdsInSync
  BY DEF AllTuned, Tuned, ThresholdsInSync
<1>. QED
  BY InitTuned, <1>1, <1>2, PTL DEF Spec

\* Each table is a record of the right type: its size is one of the sizes a
\* table can have, it has as many buckets as num_buckets says, and no counter
\* or threshold ever becomes negative.
THEOREM TypesStayRight == Spec => []TypeOK
<1>1. AllSound => TypeOK
  BY DEF AllSound, Sound, TypeOK
<1>. QED
  BY <1>1, InitSound, NextSound, PTL DEF Spec

\* num_elements is the number of buckets in use and num_deleted that of the
\* deleted ones, after any sequence of calls: reusing a deleted bucket, erasing
\* twice, squashing, rehashing and throwing never lose or double a count.
THEOREM CountersStayExact == Spec => []CountersExact
<1>1. AllSound => CountersExact
  <2>. SUFFICES ASSUME AllSound, NEW o \in Obj, ht[o].settings.use_empty
                PROVE  /\ ht[o].num_elements =
                            Cardinality({i \in Buckets(ht[o]) : ~test_empty(ht[o], i)})
                       /\ ht[o].num_deleted = Cardinality(Marked(ht[o]))
    BY FS_EmptySet DEF CountersExact, AllSound, Sound, Blank, Marked
  <2>1. Populated(ht[o])
    BY DEF AllSound, Sound
  <2>2. InUse(ht[o].table, ht[o].num_buckets, ht[o].emptykey) =
          {i \in Buckets(ht[o]) : ~test_empty(ht[o], i)}
    BY DEF InUse, Buckets, test_empty
  <2>. QED
    BY <2>1, <2>2 DEF Populated
<1>. QED
  BY <1>1, InitSound, NextSound, PTL DEF Spec

\* Under load factors of less than 100%, every search for a key that may be
\* inserted ends, for every hash function: the assertion "Hashtable is full"
\* of find_position (densehashtable.h 851) never fails, however many buckets
\* are deleted and whatever was cleared, swapped, copied or squashed.
THEOREM SearchesAlwaysEnd ==
  ASSUME FactorsLeaveRoom
  PROVE  Spec => []SearchesEnd
<1>1. AllSound /\ AllTuned /\ AllSpare => SearchesEnd
  <2>. SUFFICES ASSUME AllSound, AllTuned, AllSpare, NEW o \in Obj, NEW k \in Key,
                       Insertable(ht[o], k)
                PROVE  ~search_fails(find_position(ht[o], k))
    BY DEF SearchesEnd
  <2>. QED
    BY OfOne, Lookups DEF Insertable
<1>2. AllSound /\ AllTuned /\ AllSpare /\ [Next]_vars => (AllSound /\ AllTuned /\ AllSpare)'
  BY NextSound, NextTuned, NextSpare
<1>. QED
  BY <1>1, <1>2, InitSound, InitTuned, InitSpare, PTL DEF Spec

\* Under load factors of less than 100%, find, count and bucket are right for
\* every key, the reserved ones included, after any sequence of calls.
THEOREM LookupsStayCorrect ==
  ASSUME FactorsLeaveRoom
  PROVE  Spec => []LookupsCorrect
<1>1. AllSound /\ AllTuned /\ AllSpare => LookupsCorrect
  <2>. SUFFICES ASSUME AllSound, AllTuned, AllSpare, NEW o \in Obj, NEW k \in Key
                PROVE  LET t      == ht[o]
                           places == {i \in LiveBuckets(t) : t.table[i].key = k}
                       IN  /\ IF places = {} THEN find(t, k) = ILLEGAL_BUCKET
                                             ELSE places = {find(t, k)}
                           /\ t.settings.use_empty => count(t, k) = Cardinality(places)
                           /\ t.settings.use_empty => bucket(t, k) \in Buckets(t)
    BY DEF LookupsCorrect
  <2>. DEFINE t      == ht[o]
              p      == find_position(t, k)
              places == {i \in LiveBuckets(t) : t.table[i].key = k}
  <2>1. Sound(t) /\ t.num_elements < t.num_buckets
    BY OfOne
  <2>2. CASE ~t.settings.use_empty
    <3>1. places = {} /\ size(t) = 0
      BY <2>1, <2>2 DEF Sound, Blank, LiveBuckets, size
    <3>. QED
      BY <2>2, <3>1 DEF find
  <2>3. CASE t.settings.use_empty
    <3>1. /\ places = {} => p.first = ILLEGAL_BUCKET /\ p.second \in Buckets(t)
          /\ places # {} => places = {p.first} /\ p.first # ILLEGAL_BUCKET
      BY <2>1, <2>3, Lookups
    <3>2. size(t) = 0 => places = {}
      <4>1. Cardinality(LiveBuckets(t)) = size(t) /\ IsFiniteSet(LiveBuckets(t))
        BY <2>1, <2>3, LiveCount, LiveBucketsFinite, Fields DEF Sound
      <4>. QED
        BY <4>1, FS_EmptySet
    <3>. HIDE DEF p
    <3>3. places \subseteq Buckets(t)
      BY DEF LiveBuckets
    <3>. HIDE DEF places
    <3>4. Cardinality({}) = 0 /\ Cardinality({p.first}) = 1
      BY FS_EmptySet, FS_Singleton
    <3>5. find(t, k) = IF size(t) = 0 THEN ILLEGAL_BUCKET ELSE p.first
      BY DEF find, p
    <3>6. count(t, k) = IF p.first = ILLEGAL_BUCKET THEN 0 ELSE 1
      BY DEF count, p
    <3>7. bucket(t, k) = IF p.first = ILLEGAL_BUCKET THEN p.second ELSE p.first
      BY DEF bucket, p
    <3>8. CASE places = {}
      BY <3>1, <3>4, <3>5, <3>6, <3>7, <3>8 DEF places
    <3>9. CASE places # {}
      <4>1. p.first \in Buckets(t)
        BY <3>1, <3>3, <3>9
      <4>2. places = {find(t, k)} /\ count(t, k) = Cardinality(places)
            /\ bucket(t, k) \in Buckets(t)
        BY <3>1, <3>2, <3>4, <3>5, <3>6, <3>7, <3>9, <4>1
      <4>. QED
        BY <3>9, <4>2 DEF places
    <3>. QED
      BY <3>8, <3>9
  <2>. QED
    BY <2>2, <2>3
<1>2. AllSound /\ AllTuned /\ AllSpare /\ [Next]_vars => (AllSound /\ AllTuned /\ AllSpare)'
  BY NextSound, NextTuned, NextSpare
<1>. QED
  BY <1>1, <1>2, InitSound, InitTuned, InitSpare, PTL DEF Spec

\* A table has as many objects as its size says: no two of them are the same.
LEMMA ObjectsCount ==
  ASSUME NEW t, Sound(t)
  PROVE  IsFiniteSet(Objects(t)) /\ Cardinality(Objects(t)) = size(t)
<1>. DEFINE L == LiveBuckets(t)
            f == [i \in L |-> t.table[i]]
<1>1. IsFiniteSet(L) /\ Cardinality(L) = size(t)
      /\ \A i, j \in L : t.table[i].key = t.table[j].key => i = j
  <2>1. CASE t.settings.use_empty
    BY <2>1, LiveCount, LiveBucketsFinite, Fields DEF Sound, Populated, NoneTwice
  <2>2. CASE ~t.settings.use_empty
    <3>1. L = {} /\ size(t) = 0
      BY <2>2 DEF Sound, Blank, LiveBuckets, size
    <3>. QED
      BY <3>1, FS_EmptySet
  <2>. QED
    BY <2>1, <2>2
<1>. HIDE DEF L
<1>2. f \in [L -> Objects(t)] /\ \A i \in L : f[i] = t.table[i]
  BY DEF Objects, L
<1>3. \A x \in Objects(t) : \E i \in L : f[i] = x
  BY <1>2 DEF Objects, L
<1>4. \A i, j \in L : f[i] = f[j] => i = j
  BY <1>1, <1>2
<1>. HIDE DEF f
<1>5. f \in Surjection(L, Objects(t)) /\ f \in Injection(L, Objects(t))
  BY <1>2, <1>3, <1>4 DEF Surjection, Injection, IsInjective
<1>. QED
  BY <1>1, <1>5, FS_Surjection

\* Where find looks, in a table with an empty bucket.
LEMMA Finds ==
  ASSUME NEW t, Sound(t), t.num_elements < t.num_buckets, NEW k \in Key
  PROVE  /\ find(t, k) # ILLEGAL_BUCKET =>
              find(t, k) \in LiveBuckets(t) /\ t.table[find(t, k)].key = k
         /\ \A i \in LiveBuckets(t) :
              t.table[i].key = k => find(t, k) = i /\ i # ILLEGAL_BUCKET
<1>. DEFINE p      == find_position(t, k)
            places == {i \in LiveBuckets(t) : t.table[i].key = k}
<1>1. find(t, k) = IF size(t) = 0 THEN ILLEGAL_BUCKET ELSE p.first
  BY DEF find
<1>2. size(t) = 0 => places = {}
  <2>1. size(t) = 0 => Objects(t) = {}
    BY ObjectsCount, FS_EmptySet
  <2>2. \A i \in LiveBuckets(t) : t.table[i] \in Objects(t)
    BY DEF Objects
  <2>. QED
    BY <2>1, <2>2
<1>3. ~t.settings.use_empty => size(t) = 0
  BY DEF Sound, Blank, size
<1>4. t.settings.use_empty =>
        /\ places = {} => p.first = ILLEGAL_BUCKET
        /\ places # {} => places = {p.first} /\ p.first # ILLEGAL_BUCKET
  BY Lookups
<1>. HIDE DEF p
<1>5. CASE size(t) = 0
  BY <1>1, <1>2, <1>5
<1>6. CASE size(t) # 0 /\ places = {}
  BY <1>1, <1>3, <1>4, <1>6
<1>7. CASE size(t) # 0 /\ places # {}
  <2>1. places = {find(t, k)} /\ find(t, k) # ILLEGAL_BUCKET
    BY <1>1, <1>3, <1>4, <1>7
  <2>. QED
    BY <2>1
<1>. QED
  BY <1>5, <1>6, <1>7

\* The buckets taken one by one are the table: as many of them have an object as
\* the table has, and the bucket a key is said to be in has one if and only if
\* the key is there, so a loop over the objects of bucket(key) with the bucket
\* iterators sees them all, and never a deleted one.
THEOREM BucketsAlwaysAddUp ==
  ASSUME FactorsLeaveRoom
  PROVE  Spec => []BucketsAddUp
<1>1. AllSound /\ AllTuned /\ AllSpare => BucketsAddUp
  <2>. SUFFICES ASSUME AllSound, AllTuned, AllSpare, NEW o \in Obj,
                       ht[o].settings.use_empty
                PROVE  /\ Cardinality({i \in Buckets(ht[o]) : bucket_size(ht[o], i) = 1}) =
                            size(ht[o])
                       /\ \A k \in Key : Insertable(ht[o], k) =>
                            bucket_size(ht[o], bucket(ht[o], k)) = count(ht[o], k)
    BY DEF BucketsAddUp
  <2>. DEFINE t == ht[o]
  <2>1. /\ Sound(t) /\ t.num_elements < t.num_buckets
        /\ IsTable(t) /\ Populated(t) /\ t.num_buckets \in Nat
    BY OfOne, Fields DEF Sound
  <2>2. t.table # NULL
    BY <2>1, Fields, KeysAssumption DEF Populated, Buckets, Slot
  <2>3. \A i \in Buckets(t) :
          bucket_size(t, i) = IF i \in LiveBuckets(t) THEN 1 ELSE 0
    BY <2>1, <2>2 DEF bucket_size, local_begin, local_end, LiveBuckets, Buckets
  <2>4. LiveBuckets(t) \subseteq Buckets(t)
    BY DEF LiveBuckets
  <2>. HIDE DEF t
  <2>5. {i \in Buckets(t) : bucket_size(t, i) = 1} = LiveBuckets(t)
    BY <2>3, <2>4
  <2>6. Cardinality(LiveBuckets(t)) = size(t)
    BY <2>1, LiveCount
  <2>7. ASSUME NEW k \in Key PROVE bucket_size(t, bucket(t, k)) = count(t, k)
    <3>. DEFINE p      == find_position(t, k)
                places == {i \in LiveBuckets(t) : t.table[i].key = k}
    <3>1. /\ ~search_fails(p)
          /\ places = {} => p.first = ILLEGAL_BUCKET
          /\ places # {} => places = {p.first} /\ p.first # ILLEGAL_BUCKET
      BY <2>1, Lookups DEF t
    <3>2. p.first = ILLEGAL_BUCKET /\ p.second # ILLEGAL_BUCKET => Free(t, k, p.second)
      BY <2>1, FindPosition DEF t
    <3>. HIDE DEF p
    <3>3. bucket(t, k) = IF p.first = ILLEGAL_BUCKET THEN p.second ELSE p.first
      BY DEF bucket, p
    <3>4. count(t, k) = IF p.first = ILLEGAL_BUCKET THEN 0 ELSE 1
      BY DEF count, p
    <3>5. CASE places = {}
      <4>1. Free(t, k, p.second) /\ p.first = ILLEGAL_BUCKET
        BY <3>1, <3>2, <3>5 DEF search_fails
      <4>2. p.second \in Buckets(t) /\ p.second \notin LiveBuckets(t)
        BY <4>1 DEF Free, LiveBuckets
      <4>. QED
        BY <2>3, <3>3, <3>4, <4>1, <4>2
    <3>6. CASE places # {}
      <4>1. p.first \in LiveBuckets(t) /\ p.first # ILLEGAL_BUCKET
        BY <3>1, <3>6
      <4>. QED
        BY <2>3, <2>4, <3>3, <3>4, <4>1
    <3>. QED
      BY <3>5, <3>6
  <2>. QED
    BY <2>5, <2>6, <2>7 DEF t
<1>2. AllSound /\ AllTuned /\ AllSpare /\ [Next]_vars => (AllSound /\ AllTuned /\ AllSpare)'
  BY NextSound, NextTuned, NextSpare
<1>. QED
  BY <1>1, <1>2, InitSound, InitTuned, InitSpare, PTL DEF Spec

\* operator== is equality of what is in the maps: it asks for as many objects
\* and finds those of one side in the other, and that is enough, whatever the
\* capacities, the histories and the reserved keys of the two.
THEOREM EqualityStaysExtensional ==
  ASSUME FactorsLeaveRoom
  PROVE  Spec => []EqualityIsExtensional
<1>1. ASSUME NEW t, Sound(t), NEW u, Sound(u), u.num_elements < u.num_buckets
      PROVE  tables_equal(t, u) <=> Objects(t) = Objects(u)
  <2>1. \A i \in LiveBuckets(t) : t.table[i].key \in Key
    <3>1. CASE t.settings.use_empty
      BY <1>1, <3>1 DEF Sound, Populated, LiveBuckets, Slot
    <3>2. CASE ~t.settings.use_empty
      BY <1>1, <3>2 DEF Sound, Blank, LiveBuckets
    <3>. QED
      BY <3>1, <3>2
  <2>2. tables_equal(t, u) <=>
          /\ size(t) = size(u)
          /\ \A i \in LiveBuckets(t) : /\ find(u, t.table[i].key) # ILLEGAL_BUCKET
                                       /\ t.table[i] = u.table[find(u, t.table[i].key)]
    BY DEF tables_equal
  <2>3. ASSUME tables_equal(t, u) PROVE Objects(t) = Objects(u)
    <3>1. \A i \in LiveBuckets(t) : t.table[i] \in Objects(u)
      <4>1. \A i \in LiveBuckets(t) : find(u, t.table[i].key) \in LiveBuckets(u)
        BY <1>1, <2>1, <2>2, <2>3, Finds
      <4>. QED
        BY <2>2, <2>3, <4>1 DEF Objects
    <3>2. Objects(t) \subseteq Objects(u)
      BY <3>1 DEF Objects
    <3>3. Cardinality(Objects(t)) = Cardinality(Objects(u)) /\ IsFiniteSet(Objects(u))
      BY <1>1, <2>2, <2>3, ObjectsCount
    <3>. QED
      BY <3>2, <3>3, FS_Subset
  <2>4. ASSUME Objects(t) = Objects(u) PROVE tables_equal(t, u)
    <3>1. size(t) = size(u)
      BY <1>1, <2>4, ObjectsCount
    <3>2. ASSUME NEW i \in LiveBuckets(t)
          PROVE  /\ find(u, t.table[i].key) # ILLEGAL_BUCKET
                 /\ t.table[i] = u.table[find(u, t.table[i].key)]
      <4>1. t.table[i] \in Objects(u)
        BY <2>4 DEF Objects
      <4>2. PICK j \in LiveBuckets(u) : t.table[i] = u.table[j]
        BY <4>1 DEF Objects
      <4>3. find(u, t.table[i].key) = j /\ j # ILLEGAL_BUCKET
        BY <1>1, <2>1, <4>2, Finds
      <4>. QED
        BY <4>2, <4>3
    <3>. QED
      BY <2>2, <3>1, <3>2
  <2>. QED
    BY <2>3, <2>4
<1>2. AllSound /\ AllTuned /\ AllSpare => EqualityIsExtensional
  <2>. SUFFICES ASSUME AllSound, AllTuned, AllSpare, NEW o \in Obj, NEW p \in Obj
                PROVE  tables_equal(ht[o], ht[p]) <=> Objects(ht[o]) = Objects(ht[p])
    BY DEF EqualityIsExtensional, Objects
  <2>. QED
    BY <1>1, OfOne
<1>3. AllSound /\ AllTuned /\ AllSpare /\ [Next]_vars => (AllSound /\ AllTuned /\ AllSpare)'
  BY NextSound, NextTuned, NextSpare
<1>. QED
  BY <1>2, <1>3, InitSound, InitTuned, InitSpare, PTL DEF Spec

-----------------------------------------------------------------------------
(***************************************************************************)
(* dense_hash_map implements the abstract map of module HashMap: whatever  *)
(* the keys, the hash function, the load factors, the limits and the       *)
(* objects, every call answers what a map answers and changes what is in   *)
(* the objects as a map's call does.                                       *)
(*                                                                         *)
(* The argument goes by the set of objects in a table, which rehashing and *)
(* moving leave alone.  In a sound table that set and the abstract map say *)
(* the same, and each method changes the set in one of few ways: it adds   *)
(* an object of a new key, takes some away, changes a value, empties it or *)
(* leaves it.                                                              *)
(***************************************************************************)

-----------------------------------------------------------------------------
(* The objects of a table and its abstract map.                            *)

\* What is in the table, as a set and as a map.
LEMMA ContentsAre ==
  ASSUME NEW t, Sound(t)
  PROVE  /\ Objects(t) \subseteq Slot
         /\ DOMAIN Contents(t) = Key
         /\ \A obj \in Objects(t) : Contents(t)[obj.key] = obj.val /\ obj.val # MISSING
         /\ \A k \in Key :
              \/ Contents(t)[k] = MISSING /\ k \notin Keys(t)
              \/ /\ Contents(t)[k] \in Val /\ k \in Keys(t)
                 /\ [key |-> k, val |-> Contents(t)[k]] \in Objects(t)
<1>. DEFINE places(k) == {i \in LiveBuckets(t) : t.table[i].key = k}
            m == Contents(t)
<1>1. Objects(t) \subseteq Slot
  <2>1. CASE t.settings.use_empty
    BY <2>1 DEF Sound, Populated, Objects, LiveBuckets
  <2>2. CASE ~t.settings.use_empty
    BY <2>2 DEF Sound, Blank, Objects, LiveBuckets
  <2>. QED
    BY <2>1, <2>2
<1>2. \A i \in LiveBuckets(t) : t.table[i] \in Slot
  BY <1>1 DEF Objects
<1>3. \A i, j \in LiveBuckets(t) : t.table[i].key = t.table[j].key => i = j
  <2>1. CASE t.settings.use_empty
    BY <2>1 DEF Sound, Populated, NoneTwice
  <2>2. CASE ~t.settings.use_empty
    BY <2>2 DEF Sound, Blank, LiveBuckets
  <2>. QED
    BY <2>1, <2>2
<1>4. DOMAIN m = Key
  BY DEF Contents
<1>5. \A k \in Key : m[k] = IF places(k) = {}
                            THEN MISSING ELSE t.table[CHOOSE i \in places(k) : TRUE].val
  BY DEF Contents
<1>. HIDE DEF m
<1>6. ASSUME NEW i \in LiveBuckets(t) PROVE m[t.table[i].key] = t.table[i].val
  <2>1. t.table[i].key \in Key
    BY <1>2 DEF Slot
  <2>2. places(t.table[i].key) = {i}
    BY <1>3
  <2>. QED
    BY <1>5, <2>1, <2>2
<1>7. \A obj \in Objects(t) : m[obj.key] = obj.val /\ obj.val # MISSING
  BY <1>1, <1>6, ClientAssumption DEF Objects, Slot
<1>8. ASSUME NEW k \in Key
      PROVE  \/ m[k] = MISSING /\ k \notin Keys(t)
             \/ /\ m[k] \in Val /\ k \in Keys(t)
                /\ [key |-> k, val |-> m[k]] \in Objects(t)
  <2>1. CASE places(k) = {}
    BY <1>5, <2>1 DEF Keys
  <2>2. CASE places(k) # {}
    <3>1. PICK i \in LiveBuckets(t) : t.table[i].key = k
      BY <2>2
    <3>2. t.table[i] \in Slot /\ m[k] = t.table[i].val
      BY <1>2, <1>6, <3>1
    <3>3. t.table[i] = [key |-> k, val |-> m[k]] /\ m[k] \in Val
      BY <3>1, <3>2 DEF Slot
    <3>4. k \in Keys(t) /\ t.table[i] \in Objects(t)
      BY <3>1 DEF Keys, Objects
    <3>. QED
      BY <3>3, <3>4
  <2>. QED
    BY <2>1, <2>2
<1>. QED
  BY <1>1, <1>4, <1>7, <1>8 DEF m

\* The abstract map is the only one with each object's value at its key and no
\* other value.
LEMMA ContentsFrom ==
  ASSUME NEW t, Sound(t), NEW m, m = [k \in Key |-> m[k]],
         \A obj \in Objects(t) : m[obj.key] = obj.val,
         \A k \in Key : m[k] = MISSING \/ \E obj \in Objects(t) : obj.key = k
  PROVE  Contents(t) = m
<1>1. ASSUME NEW k \in Key PROVE Contents(t)[k] = m[k]
  <2>1. CASE \E obj \in Objects(t) : obj.key = k
    BY <2>1, ContentsAre
  <2>2. CASE ~ \E obj \in Objects(t) : obj.key = k
    <3>1. Contents(t)[k] = MISSING \/ [key |-> k, val |-> Contents(t)[k]] \in Objects(t)
      BY ContentsAre
    <3>2. [key |-> k, val |-> Contents(t)[k]].key = k
      OBVIOUS
    <3>3. Contents(t)[k] = MISSING
      BY <2>2, <3>1, <3>2
    <3>. QED
      BY <2>2, <3>3
  <2>. QED
    BY <2>1, <2>2
<1>2. Contents(t) = [k \in Key |-> Contents(t)[k]]
  BY DEF Contents
<1>. QED
  BY <1>1, <1>2

\* Tables with the same objects are the same map.
LEMMA SameContents ==
  ASSUME NEW t, Sound(t), NEW u, Sound(u), Objects(u) = Objects(t)
  PROVE  Contents(u) = Contents(t) /\ Keys(u) = Keys(t)
<1>1. Contents(t) = [k \in Key |-> Contents(t)[k]]
  BY DEF Contents
<1>2. \A obj \in Objects(u) : Contents(t)[obj.key] = obj.val
  BY ContentsAre
<1>3. \A k \in Key : Contents(t)[k] = MISSING \/ \E obj \in Objects(u) : obj.key = k
  <2>1. \A k \in Key : Contents(t)[k] = MISSING
                       \/ [key |-> k, val |-> Contents(t)[k]] \in Objects(u)
    BY ContentsAre
  <2>. QED
    BY <2>1
<1>4. Contents(u) = Contents(t)
  BY <1>1, <1>2, <1>3, ContentsFrom
<1>5. Keys(u) = Keys(t)
  BY KeysOfObjects
<1>. QED
  BY <1>4, <1>5

\* A table of size 0 is the empty map.
LEMMA EmptyContents ==
  ASSUME NEW t, Sound(t), size(t) = 0
  PROVE  Contents(t) = [k \in Key |-> MISSING] /\ Keys(t) = {} /\ Objects(t) = {}
<1>1. LiveBuckets(t) = {}
  <2>1. CASE t.settings.use_empty
    <3>1. Cardinality(LiveBuckets(t)) = 0 /\ IsFiniteSet(LiveBuckets(t))
      BY <2>1, LiveCount, LiveBucketsFinite, Fields DEF Sound
    <3>. QED
      BY <3>1, FS_EmptySet
  <2>2. CASE ~t.settings.use_empty
    BY <2>2 DEF Sound, Blank, LiveBuckets
  <2>. QED
    BY <2>1, <2>2
<1>2. Contents(t) = [k \in Key |-> MISSING]
  BY <1>1 DEF Contents
<1>. QED
  BY <1>1, <1>2 DEF Keys, Objects

\* One more object, of a new key.
LEMMA AddedContents ==
  ASSUME NEW t, Sound(t), NEW u, Sound(u), NEW obj \in Slot, obj.key \notin Keys(t),
         Objects(u) = Objects(t) \cup {obj}
  PROVE  Contents(u) = [Contents(t) EXCEPT ![obj.key] = obj.val]
<1>. DEFINE m == [Contents(t) EXCEPT ![obj.key] = obj.val]
<1>1. obj.key \in Key /\ obj.val \in Val
  BY DEF Slot
<1>2. /\ m = [k \in Key |-> m[k]] /\ m[obj.key] = obj.val
      /\ \A k \in Key : k # obj.key => m[k] = Contents(t)[k]
  BY <1>1, ContentsAre
<1>. HIDE DEF m
<1>3. \A x \in Objects(t) : x.key # obj.key /\ x.key \in Key /\ Contents(t)[x.key] = x.val
  BY KeysOfObjects, ContentsAre DEF Slot
<1>4. \A x \in Objects(u) : m[x.key] = x.val
  BY <1>2, <1>3
<1>5. \A k \in Key : m[k] = MISSING \/ \E x \in Objects(u) : x.key = k
  <2>1. \A k \in Key : Contents(t)[k] = MISSING
                       \/ [key |-> k, val |-> Contents(t)[k]] \in Objects(u)
    BY ContentsAre
  <2>2. \A k \in Key : Contents(t)[k] = MISSING \/ \E x \in Objects(u) : x.key = k
    BY <2>1
  <2>. QED
    BY <1>2, <2>2
<1>6. Contents(u) = m
  BY <1>2, <1>4, <1>5, ContentsFrom
<1>. QED
  BY <1>6 DEF m

\* Some objects fewer: those of the keys in gone.
LEMMA RemovedContents ==
  ASSUME NEW t, Sound(t), NEW u, Sound(u), NEW gone \in SUBSET Key,
         Objects(u) = {obj \in Objects(t) : obj.key \notin gone}
  PROVE  Contents(u) = [k \in Key |-> IF k \in gone THEN MISSING ELSE Contents(t)[k]]
<1>. DEFINE m == [k \in Key |-> IF k \in gone THEN MISSING ELSE Contents(t)[k]]
<1>1. m = [k \in Key |-> m[k]]
      /\ \A k \in Key : m[k] = IF k \in gone THEN MISSING ELSE Contents(t)[k]
  OBVIOUS
<1>. HIDE DEF m
<1>2. \A x \in Objects(t) : x.key \in Key /\ Contents(t)[x.key] = x.val
  BY ContentsAre DEF Slot
<1>3. \A x \in Objects(u) : m[x.key] = x.val
  BY <1>1, <1>2
<1>4. \A k \in Key : m[k] = MISSING \/ \E x \in Objects(u) : x.key = k
  <2>1. \A k \in Key : Contents(t)[k] = MISSING
                       \/ [key |-> k, val |-> Contents(t)[k]] \in Objects(t)
    BY ContentsAre
  <2>2. ASSUME NEW k \in Key, m[k] # MISSING PROVE \E x \in Objects(u) : x.key = k
    <3>1. k \notin gone /\ m[k] = Contents(t)[k]
      BY <1>1, <2>2
    <3>2. [key |-> k, val |-> Contents(t)[k]] \in Objects(t)
      BY <2>1, <2>2, <3>1
    <3>3. [key |-> k, val |-> Contents(t)[k]] \in Objects(u)
      BY <3>1, <3>2
    <3>. QED
      BY <3>3
  <2>. QED
    BY <2>2
<1>5. Contents(u) = m
  BY <1>1, <1>3, <1>4, ContentsFrom
<1>. QED
  BY <1>5 DEF m

-----------------------------------------------------------------------------
(* What the methods do to the objects.                                     *)

\* find_or_insert, whether the position it found is still good or not.
LEMMA FindOrInsertInserts ==
  ASSUME NEW t, Sound(t), NEW k \in Key, Allowed(t, k)
  PROVE  Inserted(find_or_insert(t, k), t, [key |-> k, val |-> DefaultVal])
<1>. DEFINE obj == [key |-> k, val |-> DefaultVal]
            p   == find_position(t, k)
            r   == resize_delta(t, 1)
<1>1. obj \in Slot /\ obj.key = k
  BY KeysAssumption DEF Slot
<1>2. Resized(r, t)
  BY ResizeDeltaSound
<1>3. /\ p.first # ILLEGAL_BUCKET => p.first \in LiveBuckets(t) /\ t.table[p.first].key = k
      /\ p.first = ILLEGAL_BUCKET /\ p.second # ILLEGAL_BUCKET => Free(t, k, p.second)
  BY FindPosition DEF Allowed
<1>4. find_or_insert(t, k) =
        IF search_fails(p) THEN Outcome(t, "table_full")
        ELSE IF p.first # ILLEGAL_BUCKET THEN Outcome(t, "present")
        ELSE IF r.res = "length_error" THEN r
        ELSE IF r.res = "resized" THEN insert_noresize(r.ht, obj)
        ELSE insert_at(r.ht, obj, p.second)
  BY DEF find_or_insert
<1>. SUFFICES Inserted(find_or_insert(t, k), t, obj)
  OBVIOUS
<1>. HIDE DEF obj, p, r
<1>5. Allowed(r.ht, k)
  BY <1>2 DEF Allowed, Resized, SameMap
<1>6. CASE search_fails(p)
  BY <1>4, <1>6 DEF Outcome, Inserted
<1>7. CASE ~search_fails(p) /\ p.first # ILLEGAL_BUCKET
  <2>1. obj.key \in Keys(t)
    BY <1>1, <1>3, <1>7 DEF Keys
  <2>. QED
    BY <1>4, <1>7, <2>1 DEF Outcome, Inserted
<1>8. CASE ~search_fails(p) /\ p.first = ILLEGAL_BUCKET
  <2>1. Free(t, k, p.second)
    BY <1>3, <1>8 DEF search_fails
  <2>2. CASE r.res = "length_error"
    BY <1>2, <1>4, <1>8, <2>2 DEF Inserted, Resized, SameMap
  <2>3. CASE r.res = "resized"
    <3>1. Inserted(insert_noresize(r.ht, obj), r.ht, obj)
      BY <1>1, <1>2, <1>5, InsertNoresizeInserts DEF Resized
    <3>2. Inserted(insert_noresize(r.ht, obj), t, obj)
      BY <1>2, <3>1, InsertedInto DEF Resized, SameMap
    <3>. QED
      BY <1>4, <1>8, <2>3, <3>2
  <2>4. CASE r.res = "kept"
    <3>1. SameBuckets(r.ht, t)
      BY <1>2, <2>4 DEF Resized
    <3>2. LiveBuckets(r.ht) = LiveBuckets(t) /\ Buckets(r.ht) = Buckets(t)
      BY <3>1 DEF SameBuckets, LiveBuckets, Buckets, test_empty, test_deleted
    <3>3. Free(r.ht, k, p.second)
      BY <2>1, <3>1, <3>2 DEF SameBuckets, Free, test_empty, test_deleted
    <3>4. Inserted(insert_at(r.ht, obj, p.second), r.ht, obj)
      BY <1>1, <1>2, <1>5, <3>3, InsertAtInserts DEF Resized
    <3>5. Inserted(insert_at(r.ht, obj, p.second), t, obj)
      BY <1>2, <3>4, InsertedInto DEF Resized, SameMap
    <3>. QED
      BY <1>4, <1>8, <2>4, <3>5
  <2>. QED
    BY <1>2, <2>2, <2>3, <2>4 DEF Resized
<1>. QED
  BY <1>6, <1>7, <1>8

-----------------------------------------------------------------------------
(* A range of objects.                                                     *)

\* m after the first n of objs are inserted: InsertedAll of that part.
UpTo(m, objs, n) ==
  [k \in Key |->
     LET places == {i \in 1 .. n : objs[i].key = k}
     IN  IF m[k] # MISSING \/ places = {} THEN m[k] ELSE objs[Min(places)].val]

\* The map's insertion of the first n objects of a range, written with UpTo.
LEMMA UpToIsInsertedAll ==
  ASSUME NEW m, NEW objs \in Seq(Slot), NEW n \in 0 .. Len(objs)
  PROVE  Map!InsertedAll(m, SubSeq(objs, 1, n)) = UpTo(m, objs, n)
<1>. DEFINE part == SubSeq(objs, 1, n)
            places(k) == {i \in DOMAIN part : part[i].key = k}
            ahead(k)  == {i \in 1 .. n : objs[i].key = k}
<1>1. DOMAIN part = 1 .. n /\ \A i \in 1 .. n : part[i] = objs[i]
  OBVIOUS
<1>. HIDE DEF part
<1>2. \A k : places(k) = ahead(k)
  BY <1>1
<1>3. \A S : Min(S) = CHOOSE i \in S : \A j \in S : i <= j
  BY Zenon DEF Min
<1>4. ASSUME NEW k \in Key, ahead(k) # {} PROVE part[Min(ahead(k))] = objs[Min(ahead(k))]
  <2>1. ahead(k) \in SUBSET Nat
    OBVIOUS
  <2>2. Min(ahead(k)) \in 1 .. n
    BY <1>4, <2>1, MinIsMember
  <2>. QED
    BY <1>1, <2>2
<1>. DEFINE first(k) == CHOOSE i \in places(k) : \A j \in places(k) : i <= j
            this(k)  == IF m[k] # MISSING \/ places(k) = {} THEN m[k] ELSE part[first(k)].val
            that(k)  == IF m[k] # MISSING \/ ahead(k) = {} THEN m[k] ELSE objs[Min(ahead(k))].val
<1>5. Map!InsertedAll(m, part) = [k \in Key |-> this(k)]
  BY DEF Map!InsertedAll
<1>6. UpTo(m, objs, n) = [k \in Key |-> that(k)]
  BY DEF UpTo
<1>7. \A k \in Key : first(k) = Min(ahead(k))
  BY <1>2, <1>3
<1>. HIDE DEF places, ahead, first
<1>8. \A k \in Key : this(k) = that(k)
  BY <1>2, <1>4, <1>7
<1>. HIDE DEF this, that
<1>9. Map!InsertedAll(m, part) = UpTo(m, objs, n)
  BY <1>5, <1>6, <1>8
<1>. QED
  BY <1>9 DEF part

\* Inserting the next object is inserting a longer part of the range.
LEMMA UpToNext ==
  ASSUME NEW m, NEW objs, NEW i \in Nat, i > 0, \A j \in 1 .. i : objs[j] \in Slot
  PROVE  LET w == UpTo(m, objs, i - 1)
         IN  UpTo(m, objs, i) = IF w[objs[i].key] = MISSING
                                THEN [w EXCEPT ![objs[i].key] = objs[i].val] ELSE w
<1>. DEFINE w == UpTo(m, objs, i - 1)
            x == objs[i].key
            before(k) == {j \in 1 .. i - 1 : objs[j].key = k}
            ahead(k)  == {j \in 1 .. i : objs[j].key = k}
            next == IF w[x] = MISSING THEN [w EXCEPT ![x] = objs[i].val] ELSE w
<1>1. x \in Key /\ \A j \in 1 .. i : objs[j].val # MISSING
  BY ClientAssumption DEF Slot
<1>2. /\ w = [k \in Key |-> w[k]]
      /\ \A k \in Key : w[k] = IF m[k] # MISSING \/ before(k) = {}
                               THEN m[k] ELSE objs[Min(before(k))].val
  BY DEF UpTo
<1>3. UpTo(m, objs, i) =
        [k \in Key |-> IF m[k] # MISSING \/ ahead(k) = {}
                       THEN m[k] ELSE objs[Min(ahead(k))].val]
  BY DEF UpTo
<1>4. \A k : before(k) \in SUBSET Nat /\ ahead(k) \in SUBSET Nat
            /\ ahead(k) = before(k) \cup (IF k = x THEN {i} ELSE {})
  OBVIOUS
<1>5. ASSUME NEW k, before(k) # {}
      PROVE  Min(ahead(k)) = Min(before(k)) /\ Min(before(k)) \in 1 .. i
  <2>1. Min(before(k)) \in before(k) /\ \A j \in before(k) : Min(before(k)) <= j
    BY <1>4, <1>5, MinIsMember
  <2>2. Min(ahead(k)) \in ahead(k) /\ \A j \in ahead(k) : Min(ahead(k)) <= j
    BY <1>4, <1>5, MinIsMember
  <2>3. Min(before(k)) \in 1 .. i - 1
    BY <2>1
  <2>4. \A j \in ahead(k) : Min(before(k)) <= j
    BY <1>4, <2>1, <2>3
  <2>5. Min(before(k)) \in ahead(k) /\ Min(ahead(k)) \in 1 .. i
    BY <1>4, <2>1, <2>2
  <2>. QED
    BY <2>2, <2>3, <2>4, <2>5
<1>6. before(x) = {} => Min(ahead(x)) = i
  BY <1>4, MinIsMember
<1>7. \A k : ahead(k) = {} => before(k) = {}
  BY <1>4
<1>8. \A k : k # x => ahead(k) = before(k)
  BY <1>4
<1>9. ahead(x) # {}
  BY <1>4
<1>. HIDE DEF before, ahead, w, x
<1>10. /\ next = [k \in Key |-> next[k]]
       /\ \A k \in Key : next[k] = IF w[x] = MISSING /\ k = x THEN objs[i].val ELSE w[k]
  BY <1>1, <1>2
<1>. HIDE DEF next
<1>11. ASSUME NEW k \in Key
       PROVE  next[k] = IF m[k] # MISSING \/ ahead(k) = {}
                        THEN m[k] ELSE objs[Min(ahead(k))].val
  <2>1. CASE k # x
    BY <1>2, <1>8, <1>10, <2>1
  <2>2. CASE k = x /\ before(x) = {}
    BY <1>1, <1>2, <1>6, <1>9, <1>10, <2>2
  <2>3. CASE k = x /\ before(x) # {}
    BY <1>1, <1>2, <1>5, <1>9, <1>10, <2>3
  <2>. QED
    BY <2>1, <2>2, <2>3
<1>12. UpTo(m, objs, i) = next
  BY <1>3, <1>10, <1>11
<1>. QED
  BY <1>12 DEF next, w, x

\* Nothing of the range is inserted yet.
LEMMA UpToNone ==
  ASSUME NEW t, NEW objs
  PROVE  UpTo(Contents(t), objs, 0) = Contents(t)
<1>. DEFINE m == Contents(t)
<1>1. UpTo(m, objs, 0) = [k \in Key |-> m[k]]
  <2>1. \A k : {i \in 1 .. 0 : objs[i].key = k} = {}
    OBVIOUS
  <2>. QED
    BY <2>1 DEF UpTo
<1>2. m = [k \in Key |-> m[k]]
  BY DEF Contents
<1>. HIDE DEF m
<1>3. UpTo(m, objs, 0) = m
  BY <1>1, <1>2
<1>. QED
  BY <1>3 DEF m

\* insert_each puts in the whole range, or up to the object it had no room for.
LEMMA InsertEachInserts ==
  ASSUME NEW t, Sound(t), NEW objs, Len(objs) \in Nat,
         \A i \in 1 .. Len(objs) : objs[i] \in Slot /\ Allowed(t, objs[i].key)
  PROVE  LET r == insert_each(t, objs)[Len(objs)]
             m == Contents(t)
         IN  /\ r.res \in {"ok", "length_error", "table_full"}
             /\ r.res = "ok" => Contents(r.ht) = UpTo(m, objs, Len(objs))
             /\ r.res = "length_error" =>
                  \E n \in 0 .. Len(objs) : Contents(r.ht) = UpTo(m, objs, n)
<1>. DEFINE N     == Len(objs)
            each  == insert_each(t, objs)
            m     == Contents(t)
            OK(r, i) == /\ Sound(r.ht) /\ SameReserved(r.ht, t)
                        /\ r.res \in {"ok", "length_error", "table_full"}
                        /\ r.res = "ok" => Contents(r.ht) = UpTo(m, objs, i)
                        /\ r.res = "length_error" =>
                             \E n \in 0 .. i : Contents(r.ht) = UpTo(m, objs, n)
            Bad   == {n \in 0 .. N : ~OK(each[n], n)}
<1>1. /\ each[0] = Outcome(t, "ok")
      /\ \A i \in 1 .. N : each[i] = insert_next(each[i - 1], objs[i])
  BY InsertEachUnfolds
<1>. HIDE DEF each
<1>2. OK(each[0], 0)
  BY <1>1, UpToNone DEF Outcome, SameReserved
<1>. HIDE DEF m
<1>3. ASSUME NEW i \in 1 .. N, OK(each[i - 1], i - 1) PROVE OK(each[i], i)
  <2>. DEFINE r   == each[i - 1]
              obj == objs[i]
              u   == insert_noresize(r.ht, obj)
  <2>1. obj \in Slot /\ Allowed(r.ht, obj.key) /\ obj.key \in Key /\ obj.val # MISSING
    BY <1>3, ClientAssumption DEF Allowed, SameReserved, Slot
  <2>2. Sound(u.ht) /\ SameReserved(u.ht, r.ht) /\ Inserted(u, r.ht, obj)
    BY <1>3, <2>1, InsertNoresizeSound, InsertNoresizeInserts
  <2>3. each[i] = IF r.res = "ok"
                  THEN IF u.res \in {"inserted", "present"} THEN Outcome(u.ht, "ok") ELSE u
                  ELSE r
    BY <1>1 DEF insert_next
  <2>4. UpTo(m, objs, i) =
          IF UpTo(m, objs, i - 1)[obj.key] = MISSING
          THEN [UpTo(m, objs, i - 1) EXCEPT ![obj.key] = obj.val] ELSE UpTo(m, objs, i - 1)
    <3>1. i \in Nat /\ i > 0 /\ \A j \in 1 .. i : objs[j] \in Slot
      OBVIOUS
    <3>. QED
      BY <3>1, UpToNext
  <2>. HIDE DEF u, obj
  <2>5. Sound(u.ht) /\ SameReserved(u.ht, t)
    BY <1>3, <2>2 DEF SameReserved
  <2>6. CASE r.res # "ok"
    <3>1. each[i] = r /\ 0 .. i - 1 \subseteq 0 .. i
      BY <2>3, <2>6
    <3>. QED
      BY <1>3, <2>6, <3>1
  <2>7. CASE r.res = "ok" /\ u.res = "inserted"
    <3>1. obj.key \notin Keys(r.ht) /\ Objects(u.ht) = Objects(r.ht) \cup {obj}
      BY <2>2, <2>7 DEF Inserted
    <3>2. Contents(u.ht) = [Contents(r.ht) EXCEPT ![obj.key] = obj.val]
      BY <1>3, <2>1, <2>5, <3>1, AddedContents
    <3>3. Contents(r.ht)[obj.key] = MISSING /\ Contents(r.ht) = UpTo(m, objs, i - 1)
      BY <1>3, <2>1, <2>7, <3>1, ContentsAre
    <3>4. Contents(u.ht) = UpTo(m, objs, i)
      BY <2>4, <3>2, <3>3
    <3>. QED
      BY <2>3, <2>5, <2>7, <3>4 DEF Outcome
  <2>8. CASE r.res = "ok" /\ u.res = "present"
    <3>1. obj.key \in Keys(r.ht) /\ Objects(u.ht) = Objects(r.ht)
      BY <2>2, <2>8 DEF Inserted
    <3>2. Contents(u.ht) = Contents(r.ht) /\ Contents(r.ht) = UpTo(m, objs, i - 1)
      BY <1>3, <2>5, <2>8, <3>1, SameContents
    <3>3. Contents(r.ht)[obj.key] # MISSING
      BY <1>3, <2>1, <3>1, ContentsAre, ClientAssumption
    <3>4. Contents(u.ht) = UpTo(m, objs, i)
      BY <2>4, <3>2, <3>3
    <3>. QED
      BY <2>3, <2>5, <2>8, <3>4 DEF Outcome
  <2>9. CASE r.res = "ok" /\ u.res \in {"length_error", "table_full"}
    <3>1. Objects(u.ht) = Objects(r.ht)
      BY <2>2, <2>9 DEF Inserted
    <3>2. Contents(u.ht) = UpTo(m, objs, i - 1)
      BY <1>3, <2>5, <2>9, <3>1, SameContents
    <3>3. i - 1 \in 0 .. i /\ each[i] = u
      BY <2>3, <2>9
    <3>. QED
      BY <2>5, <2>9, <3>2, <3>3
  <2>. QED
    BY <2>2, <2>6, <2>7, <2>8, <2>9 DEF Inserted
<1>. HIDE DEF OK
<1>4. Bad = {}
  <2>. SUFFICES ASSUME Bad # {} PROVE FALSE
    OBVIOUS
  <2>. Bad \in SUBSET Nat
    OBVIOUS
  <2>1. PICK n \in Bad : \A j \in Bad : n <= j
    BY LeastNumber
  <2>2. n # 0
    BY <1>2
  <2>3. n \in 1 .. N /\ n - 1 \in 0 .. N /\ ~ (n <= n - 1)
    BY <2>2
  <2>4. OK(each[n - 1], n - 1)
    BY <2>1, <2>3
  <2>. QED
    BY <1>3, <2>3, <2>4
<1>5. N \in 0 .. N
  OBVIOUS
<1>6. OK(each[N], N)
  BY <1>4, <1>5
<1>. QED
  BY <1>6 DEF each, OK, m

-----------------------------------------------------------------------------
(* The calls.                                                              *)

\* The maps the objects are.
maps == [o \in Obj |-> Contents(ht[o])]

\* A call that changes one object changes one map, if any.
LEMMA OneMap ==
  ASSUME AllSound, NEW o \in Obj, NEW u, ht' = [ht EXCEPT ![o] = u]
  PROVE  /\ maps' = [maps EXCEPT ![o] = Contents(u)]
         /\ Contents(u) = Contents(ht[o]) => maps' = maps
         /\ maps[o] = Contents(ht[o])
  BY DEF AllSound, maps

\* An answer is the call with one more element.
LEMMA AppendToTwo ==
  ASSUME NEW a, NEW b, NEW c
  PROVE  Append(<<a, b>>, c) = <<a, b, c>>
<1>. DEFINE S == {a, b, c}
            u == Append(<<a, b>>, c)
            v == <<a, b, c>>
<1>1. u \in Seq(S) /\ Len(u) = 3 /\ u[1] = a /\ u[2] = b /\ u[3] = c
  OBVIOUS
<1>2. v \in Seq(S) /\ Len(v) = 3 /\ v[1] = a /\ v[2] = b /\ v[3] = c
  OBVIOUS
<1>. HIDE DEF u, v
<1>3. \A i \in 1 .. 3 : i = 1 \/ i = 2 \/ i = 3
  OBVIOUS
<1>4. u = v
  BY <1>1, <1>2, <1>3, SeqEqual
<1>. QED
  BY <1>4 DEF u, v

\* The answer of a call with what was thrown added.
LEMMA AppendToThree ==
  ASSUME NEW a, NEW b, NEW c, NEW d
  PROVE  Append(<<a, b, c>>, d) = <<a, b, c, d>>
<1>. DEFINE S == {a, b, c, d}
            u == Append(<<a, b, c>>, d)
            v == <<a, b, c, d>>
<1>1. u \in Seq(S) /\ Len(u) = 4 /\ u[1] = a /\ u[2] = b /\ u[3] = c /\ u[4] = d
  OBVIOUS
<1>2. v \in Seq(S) /\ Len(v) = 4 /\ v[1] = a /\ v[2] = b /\ v[3] = c /\ v[4] = d
  OBVIOUS
<1>. HIDE DEF u, v
<1>3. \A i \in 1 .. 4 : i = 1 \/ i = 2 \/ i = 3 \/ i = 4
  OBVIOUS
<1>4. u = v
  BY <1>1, <1>2, <1>3, SeqEqual
<1>. QED
  BY <1>4 DEF u, v

\* A call that keeps house is invisible if it leaves the objects alone.
LEMMA HousekeptMap ==
  ASSUME AllSound, NEW o \in Obj, NEW u, Sound(u), Objects(u) = Objects(ht[o]),
         Housekeep(o, u)
  PROVE  Map!Housekeep(o)
<1>1. ht' = [ht EXCEPT ![o] = u] /\ ret' = <<"housekeep", o, "ok">>
  <2>1. Outcome(u, "ok").ht = u /\ Outcome(u, "ok").res = "ok"
    BY DEF Outcome
  <2>2. Append(<<"housekeep", o>>, "ok") = <<"housekeep", o, "ok">>
    BY AppendToTwo
  <2>. QED
    BY <2>1, <2>2 DEF Housekeep, Answer
<1>2. Contents(u) = Contents(ht[o])
  BY SameContents DEF AllSound
<1>3. maps' = maps
  BY <1>1, <1>2, OneMap
<1>. QED
  BY <1>1, <1>3 DEF Map!Housekeep, maps

\* insert.
LEMMA InsertImplements ==
  ASSUME AllSound, NEW o \in Obj, NEW obj \in Items, Insert(o, obj)
  PROVE  Map!Insert(o, obj)
<1>. DEFINE t == ht[o]
            r == insert(t, obj)
<1>1. Sound(t) /\ obj \in Slot /\ Allowed(t, obj.key)
  BY ClientAssumption DEF AllSound, Insert, Insertable, Ordinary, Allowed, Slot
<1>2. Sound(r.ht) /\ Inserted(r, t, obj)
  BY <1>1, InsertSound, InsertInserts
<1>. HIDE DEF r
<1>3. /\ r.res # "table_full" /\ ht' = [ht EXCEPT ![o] = r.ht]
      /\ ret' = <<"insert", o, obj.key, r.res>>
  <2>1. Append(<<"insert", o, obj.key>>, r.res) = <<"insert", o, obj.key, r.res>>
    BY AppendToThree
  <2>2. Answer(o, <<"insert", o, obj.key>>, r)
    BY DEF Insert, r
  <2>. QED
    BY <2>1, <2>2 DEF Answer
<1>4. /\ maps' = [maps EXCEPT ![o] = Contents(r.ht)] /\ maps[o] = Contents(t)
      /\ Contents(r.ht) = Contents(t) => maps' = maps
  BY <1>3, OneMap
<1>5. obj.key \in Key /\ obj.val \in Val
  BY <1>1 DEF Slot
<1>. DEFINE before == Contents(t)
            after  == Contents(r.ht)
<1>. HIDE DEF before, after, t
<1>6. ASSUME r.res = "inserted"
      PROVE  maps[o][obj.key] = MISSING /\ maps' = [maps EXCEPT ![o][obj.key] = obj.val]
  <2>1. obj.key \notin Keys(t) /\ Objects(r.ht) = Objects(t) \cup {obj}
    BY <1>2, <1>6 DEF Inserted
  <2>2. Contents(r.ht) = [Contents(t) EXCEPT ![obj.key] = obj.val]
    BY <1>1, <1>2, <2>1, AddedContents
  <2>3. Contents(t)[obj.key] = MISSING
    BY <1>1, <1>5, <2>1, ContentsAre
  <2>. QED
    BY <1>4, <2>2, <2>3
<1>7. ASSUME r.res = "present" PROVE maps[o][obj.key] # MISSING /\ maps' = maps
  <2>1. obj.key \in Keys(t) /\ Objects(r.ht) = Objects(t)
    BY <1>2, <1>7 DEF Inserted
  <2>2. Contents(t)[obj.key] \in Val
    BY <1>1, <1>5, <2>1, ContentsAre
  <2>3. Contents(r.ht) = Contents(t)
    BY <1>1, <1>2, <2>1, SameContents
  <2>. QED
    BY <1>4, <2>2, <2>3, ClientAssumption
<1>8. ASSUME r.res = "length_error" PROVE maps' = maps
  <2>1. Objects(r.ht) = Objects(t)
    BY <1>2, <1>8 DEF Inserted
  <2>2. Contents(r.ht) = Contents(t)
    BY <1>1, <1>2, <2>1, SameContents
  <2>. QED
    BY <1>4, <2>2
<1>9. r.res \in {"inserted", "present", "length_error"}
  BY <1>2, <1>3 DEF Inserted
<1>. QED
  BY <1>3, <1>6, <1>7, <1>8, <1>9 DEF Map!Insert, maps

\* operator[], and the assignment to what it returned.
LEMMA SubscriptImplements ==
  ASSUME AllSound, NEW o \in Obj, NEW k \in Key, NEW v \in Val, Subscript(o, k, v)
  PROVE  Map!Subscript(o, k, v)
<1>. DEFINE t   == ht[o]
            obj == [key |-> k, val |-> DefaultVal]
            r   == find_or_insert(t, k)
            pos == CHOOSE i \in LiveBuckets(r.ht) : r.ht.table[i].key = k
            w   == IF r.res \in {"inserted", "present"} THEN AssignThrough(r, k, v) ELSE r
            u   == [r.ht EXCEPT !.table[pos].val = v]
            old == r.ht.table[pos].val
<1>1. Sound(t) /\ Allowed(t, k)
  BY DEF AllSound, Subscript, Insertable, Ordinary, Allowed
<1>2. Sound(r.ht) /\ Inserted(r, t, obj) /\ r.ht.settings.use_empty
  BY <1>1, FindOrInsertSound, FindOrInsertInserts DEF SameReserved, Allowed
<1>3. Answer(o, <<"subscript", o, k>>, w)
  BY DEF Subscript
<1>4. w = IF r.res \in {"inserted", "present"} THEN [ht |-> u, res |-> old] ELSE r
  BY DEF AssignThrough
<1>5. obj \in Slot /\ obj.key = k /\ obj.val = DefaultVal
  BY KeysAssumption DEF Slot
<1>. HIDE DEF r, w, obj
<1>6. /\ w.res # "table_full" /\ ht' = [ht EXCEPT ![o] = w.ht]
      /\ ret' = <<"subscript", o, k, w.res>>
  <2>1. Append(<<"subscript", o, k>>, w.res) = <<"subscript", o, k, w.res>>
    BY AppendToThree
  <2>. QED
    BY <1>3, <2>1 DEF Answer
<1>7. /\ maps' = [maps EXCEPT ![o] = Contents(w.ht)] /\ maps[o] = Contents(t)
      /\ Contents(w.ht) = Contents(t) => maps' = maps
  BY <1>6, OneMap
<1>8. CASE r.res \in {"inserted", "present"}
  \* The reference is to the one object of the key.
  <2>1. pos \in LiveBuckets(r.ht) /\ r.ht.table[pos].key = k
    <3>1. k \in Keys(r.ht)
      <4>1. \E x \in Objects(r.ht) : x.key = k
        BY <1>2, <1>5, <1>8, KeysOfObjects DEF Inserted
      <4>. QED
        BY <4>1, KeysOfObjects
    <3>2. \E i \in LiveBuckets(r.ht) : r.ht.table[i].key = k
      BY <3>1 DEF Keys
    <3>. QED
      BY <3>2
  <2>2. old \in Val /\ Contents(r.ht)[k] = old
    <3>1. r.ht.table[pos] \in Objects(r.ht)
      BY <2>1 DEF Objects
    <3>2. r.ht.table[pos] \in Slot /\ Contents(r.ht)[r.ht.table[pos].key] = r.ht.table[pos].val
      BY <1>2, <3>1, ContentsAre
    <3>. QED
      BY <2>1, <3>2 DEF Slot
  <2>3. Sound(u) /\ LiveBuckets(u) = LiveBuckets(r.ht)
    <3>1. \A i : LET x == [r.ht EXCEPT !.table[i].val = v]
                 IN  Sound(x) /\ LiveBuckets(x) = LiveBuckets(r.ht)
      BY <1>2, ValueSound
    <3>. HIDE DEF pos
    <3>. QED
      BY <3>1
  <2>4. /\ r.ht.table \in [Buckets(r.ht) -> Slot] /\ LiveBuckets(r.ht) \subseteq Buckets(r.ht)
        /\ r.ht \in TableOf(r.ht.num_buckets)
        /\ \A i, j \in LiveBuckets(r.ht) : r.ht.table[i].key = r.ht.table[j].key => i = j
    BY <1>2, Fields DEF Sound, Populated, NoneTwice, LiveBuckets
  <2>5. \A i \in LiveBuckets(r.ht) :
          u.table[i] = IF i = pos THEN [key |-> k, val |-> v] ELSE r.ht.table[i]
    <3>1. u.table = [r.ht.table EXCEPT ![pos].val = v]
      BY <2>4 DEF TableOf
    <3>2. r.ht.table[pos] \in Slot
      BY <2>1, <2>4
    <3>3. \A x \in Slot : [x EXCEPT !.val = v] = [key |-> x.key, val |-> v]
      BY DEF Slot
    <3>4. [r.ht.table[pos] EXCEPT !.val = v] = [key |-> k, val |-> v]
      BY <2>1, <3>2, <3>3
    <3>. HIDE DEF pos, u
    <3>. QED
      BY <2>1, <2>4, <3>1, <3>4
  <2>. HIDE DEF pos, u, old
  <2>6. Contents(u) = [Contents(r.ht) EXCEPT ![k] = v]
    <3>. DEFINE m == [Contents(r.ht) EXCEPT ![k] = v]
    <3>1. /\ m = [x \in Key |-> m[x]] /\ m[k] = v
          /\ \A x \in Key : x # k => m[x] = Contents(r.ht)[x]
      BY <1>2, ContentsAre
    <3>. HIDE DEF m
    <3>2. ASSUME NEW i \in LiveBuckets(u) PROVE m[u.table[i].key] = u.table[i].val
      <4>1. CASE i = pos
        BY <2>1, <2>5, <3>1, <4>1
      <4>2. CASE i # pos
        <5>1. r.ht.table[i].key # k /\ r.ht.table[i] \in Objects(r.ht) /\ u.table[i] = r.ht.table[i]
          BY <2>1, <2>3, <2>4, <2>5, <4>2 DEF Objects
        <5>2. r.ht.table[i].key \in Key
              /\ Contents(r.ht)[r.ht.table[i].key] = r.ht.table[i].val
          BY <1>2, <5>1, ContentsAre DEF Slot
        <5>. QED
          BY <3>1, <5>1, <5>2
      <4>. QED
        BY <4>1, <4>2
    <3>3. ASSUME NEW x \in Key, m[x] # MISSING PROVE \E i \in LiveBuckets(u) : u.table[i].key = x
      <4>1. CASE x = k
        BY <2>1, <2>3, <2>5, <4>1
      <4>2. CASE x # k
        <5>1. x \in Keys(r.ht)
          BY <1>2, <3>1, <3>3, <4>2, ContentsAre
        <5>2. PICK i \in LiveBuckets(r.ht) : r.ht.table[i].key = x
          BY <5>1 DEF Keys
        <5>. QED
          BY <2>1, <2>3, <2>5, <4>2, <5>2
      <4>. QED
        BY <4>1, <4>2
    <3>4. \A x \in Objects(u) : m[x.key] = x.val
      BY <3>2 DEF Objects
    <3>5. \A x \in Key : m[x] = MISSING \/ \E y \in Objects(u) : y.key = x
      BY <3>3 DEF Objects
    <3>6. Contents(u) = m
      BY <2>3, <3>1, <3>4, <3>5, ContentsFrom
    <3>. QED
      BY <3>6 DEF m
  <2>7. \/ Contents(t)[k] = MISSING /\ Contents(r.ht) = [Contents(t) EXCEPT ![k] = DefaultVal]
        \/ Contents(t)[k] # MISSING /\ Contents(r.ht) = Contents(t)
    <3>1. CASE r.res = "inserted"
      <4>1. k \notin Keys(t) /\ Objects(r.ht) = Objects(t) \cup {obj}
        BY <1>2, <1>5, <3>1 DEF Inserted
      <4>2. Contents(r.ht) = [Contents(t) EXCEPT ![k] = DefaultVal]
        BY <1>1, <1>2, <1>5, <4>1, AddedContents
      <4>3. Contents(t)[k] = MISSING
        BY <1>1, <4>1, ContentsAre
      <4>. QED
        BY <4>2, <4>3
    <3>2. CASE r.res = "present"
      <4>1. k \in Keys(t) /\ Objects(r.ht) = Objects(t)
        BY <1>2, <1>5, <3>2 DEF Inserted
      <4>2. Contents(r.ht) = Contents(t)
        BY <1>1, <1>2, <4>1, SameContents
      <4>3. Contents(t)[k] # MISSING
        BY <1>1, <4>1, ContentsAre, ClientAssumption
      <4>. QED
        BY <4>2, <4>3
    <3>. QED
      BY <1>8, <3>1, <3>2
  <2>8. DOMAIN Contents(t) = Key
    BY <1>1, ContentsAre
  <2>9. old = (IF maps[o][k] = MISSING THEN DefaultVal ELSE maps[o][k])
    BY <1>7, <2>2, <2>7, <2>8
  <2>10. Contents(w.ht) = [Contents(t) EXCEPT ![k] = v] /\ w.res = old
    BY <1>4, <1>8, <2>6, <2>7, <2>8
  <2>11. maps' = [maps EXCEPT ![o][k] = v]
    BY <1>7, <2>10
  <2>. QED
    BY <1>6, <2>2, <2>9, <2>10, <2>11 DEF Map!Subscript, maps
<1>9. CASE r.res \notin {"inserted", "present"}
  <2>1. w = r /\ r.res = "length_error" /\ Objects(r.ht) = Objects(t)
    BY <1>2, <1>4, <1>9, <1>6 DEF Inserted
  <2>2. maps' = maps
    BY <1>1, <1>2, <1>7, <2>1, SameContents
  <2>. QED
    BY <1>6, <2>1, <2>2 DEF Map!Subscript, maps
<1>. QED
  BY <1>8, <1>9

\* insert of a range: one resize, then object by object.
LEMMA InsertRangeInserts ==
  ASSUME NEW t, Sound(t), NEW objs, Len(objs) \in Nat,
         \A i \in 1 .. Len(objs) : objs[i] \in Slot /\ Allowed(t, objs[i].key)
  PROVE  LET r == insert_range(t, objs)
             m == Contents(t)
         IN  /\ r.res \in {"ok", "length_error", "table_full"}
             /\ r.res = "ok" => Contents(r.ht) = UpTo(m, objs, Len(objs))
             /\ r.res = "length_error" =>
                  \E n \in 0 .. Len(objs) : Contents(r.ht) = UpTo(m, objs, n)
<1>. DEFINE N == Len(objs)
            q == resize_delta(t, N)
            e == insert_each(q.ht, objs)[N]
            r == insert_range(t, objs)
            m == Contents(t)
<1>1. Sound(q.ht) /\ SameMap(q.ht, t)
  BY ResizeDeltaSound DEF Resized
<1>2. r = IF N >= SizeMax THEN Outcome(t, "length_error")
          ELSE IF q.res = "length_error" THEN q ELSE e
  BY DEF insert_range
<1>. SUFFICES /\ r.res \in {"ok", "length_error", "table_full"}
              /\ r.res = "ok" => Contents(r.ht) = UpTo(m, objs, N)
              /\ r.res = "length_error" =>
                   \E n \in 0 .. N : Contents(r.ht) = UpTo(m, objs, n)
  OBVIOUS
<1>3. Contents(q.ht) = m
  BY <1>1, SameContents DEF SameMap
<1>4. 0 \in 0 .. N /\ UpTo(m, objs, 0) = m
  BY UpToNone
<1>5. \A i \in 1 .. N : objs[i] \in Slot /\ Allowed(q.ht, objs[i].key)
  BY <1>1 DEF Allowed, SameMap
<1>. HIDE DEF q
<1>6. /\ e.res \in {"ok", "length_error", "table_full"}
      /\ e.res = "ok" => Contents(e.ht) = UpTo(m, objs, N)
      /\ e.res = "length_error" =>
           \E n \in 0 .. N : Contents(e.ht) = UpTo(m, objs, n)
  BY <1>1, <1>3, <1>5, InsertEachInserts
<1>. HIDE DEF e, r, m
<1>7. CASE N >= SizeMax
  <2>1. r.res = "length_error" /\ Contents(r.ht) = m
    BY <1>2, <1>7 DEF Outcome, m
  <2>. QED
    BY <1>4, <2>1
<1>8. CASE N < SizeMax /\ q.res = "length_error"
  <2>1. r.res = "length_error" /\ Contents(r.ht) = m
    BY <1>2, <1>3, <1>8, SizesAssumption
  <2>. QED
    BY <1>4, <2>1
<1>9. CASE N < SizeMax /\ q.res # "length_error"
  <2>1. r = e
    BY <1>2, <1>9, SizesAssumption
  <2>. QED
    BY <1>6, <2>1
<1>. QED
  BY <1>7, <1>8, <1>9, SizesAssumption

\* insert of a range is the map's, whether it inserts all of it or throws.
LEMMA InsertRangeImplements ==
  ASSUME AllSound, NEW o \in Obj, NEW objs \in Ranges, InsertRange(o, objs)
  PROVE  Map!InsertRange(o, objs)
<1>. DEFINE t == ht[o]
            r == insert_range(t, objs)
            m == Contents(t)
<1>1. Sound(t) /\ objs \in Seq(Slot)
  BY ClientAssumption DEF AllSound, Slot
<1>2. /\ Len(objs) \in Nat
      /\ \A i \in 1 .. Len(objs) : objs[i] \in Slot /\ Allowed(t, objs[i].key)
  BY <1>1 DEF InsertRange, Insertable, Ordinary, Allowed
<1>3. /\ r.res \in {"ok", "length_error", "table_full"}
      /\ r.res = "ok" => Contents(r.ht) = UpTo(m, objs, Len(objs))
      /\ r.res = "length_error" =>
           \E n \in 0 .. Len(objs) : Contents(r.ht) = UpTo(m, objs, n)
  BY <1>1, <1>2, InsertRangeInserts
<1>4. Answer(o, <<"insert_range", o>>, r)
  BY DEF InsertRange
<1>. HIDE DEF r
<1>5. /\ r.res # "table_full" /\ ht' = [ht EXCEPT ![o] = r.ht]
      /\ ret' = <<"insert_range", o, r.res>>
  <2>1. Append(<<"insert_range", o>>, r.res) = <<"insert_range", o, r.res>>
    BY AppendToTwo
  <2>. QED
    BY <1>4, <2>1 DEF Answer
<1>6. maps' = [maps EXCEPT ![o] = Contents(r.ht)] /\ maps[o] = m
  BY <1>5, OneMap
<1>. HIDE DEF m, t
<1>7. \A n \in 0 .. Len(objs) : Map!InsertedAll(m, SubSeq(objs, 1, n)) = UpTo(m, objs, n)
  BY <1>1, UpToIsInsertedAll
<1>8. SubSeq(objs, 1, Len(objs)) = objs
  <2>. DEFINE part == SubSeq(objs, 1, Len(objs))
  <2>1. part \in Seq(Slot) /\ Len(part) = Len(objs)
        /\ \A i \in 1 .. Len(part) : part[i] = objs[i]
    BY <1>1, <1>2
  <2>. HIDE DEF part
  <2>2. part = objs
    BY <1>1, <2>1, SeqEqual
  <2>. QED
    BY <2>2 DEF part
<1>9. CASE r.res = "ok"
  <2>1. Contents(r.ht) = Map!InsertedAll(maps[o], objs)
    <3>1. Len(objs) \in 0 .. Len(objs)
      BY <1>2
    <3>. QED
      BY <1>3, <1>6, <1>7, <1>8, <1>9, <3>1
  <2>2. maps' = [maps EXCEPT ![o] = Map!InsertedAll(@, objs)]
    BY <1>6, <2>1
  <2>. QED
    BY <1>5, <1>9, <2>2 DEF Map!InsertRange, maps
<1>10. CASE r.res = "length_error"
  <2>1. PICK n \in 0 .. Len(objs) :
          Contents(r.ht) = Map!InsertedAll(maps[o], SubSeq(objs, 1, n))
    BY <1>3, <1>6, <1>7, <1>10
  <2>2. maps' = [maps EXCEPT ![o] = Map!InsertedAll(@, SubSeq(objs, 1, n))]
    BY <1>6, <2>1
  <2>. QED
    BY <1>5, <1>10, <2>2 DEF Map!InsertRange, maps
<1>. QED
  BY <1>3, <1>5, <1>9, <1>10

\* Erasing the objects of the buckets in S takes their keys out of the map.
LEMMA ErasedContents ==
  ASSUME NEW t, Sound(t), NEW u, Sound(u), NEW S \in SUBSET LiveBuckets(t),
         LiveBuckets(u) = LiveBuckets(t) \ S,
         \A i \in LiveBuckets(t) \ S : u.table[i] = t.table[i]
  PROVE  KeysIn(t, S) \in SUBSET Key /\ Contents(u) = Map!Without(Contents(t), KeysIn(t, S))
<1>1. KeysIn(t, S) \in SUBSET Key
  <2>1. \A i \in S : t.table[i] \in Objects(t)
    BY DEF Objects
  <2>. QED
    BY <2>1, ContentsAre DEF Slot, KeysIn
<1>2. Objects(u) = {obj \in Objects(t) : obj.key \notin KeysIn(t, S)}
  BY ErasedObjects
<1>. DEFINE gone == KeysIn(t, S)
<1>. HIDE DEF gone
<1>3. Contents(u) = [k \in Key |-> IF k \in gone THEN MISSING ELSE Contents(t)[k]]
  <2>1. gone \in SUBSET Key /\ Objects(u) = {obj \in Objects(t) : obj.key \notin gone}
    BY <1>1, <1>2 DEF gone
  <2>. QED
    BY <2>1, RemovedContents
<1>4. Contents(u) = Map!Without(Contents(t), KeysIn(t, S))
  BY <1>3 DEF Map!Without, gone
<1>. QED
  BY <1>1, <1>4

\* erase of a key.
LEMMA EraseImplements ==
  ASSUME AllSound, NEW o \in Obj, NEW k \in Key, Erase(o, k)
  PROVE  Map!Erase(o, k)
<1>. DEFINE t == ht[o]
            p == find_position(t, k)
            r == erase(t, k)
<1>1. Sound(t) /\ t.settings.use_deleted
  BY DEF AllSound, Erase
<1>2. r = IF size(t) = 0 THEN Outcome(t, "absent")
          ELSE IF search_fails(p) THEN Outcome(t, "table_full")
          ELSE IF p.first = ILLEGAL_BUCKET THEN Outcome(t, "absent")
          ELSE Outcome(erase_at(t, p.first), "erased")
  BY DEF erase
<1>3. t.settings.use_empty =>
        /\ p.first # ILLEGAL_BUCKET =>
             p.first \in LiveBuckets(t) /\ t.table[p.first].key = k
        /\ p.first = ILLEGAL_BUCKET /\ p.second # ILLEGAL_BUCKET => Free(t, k, p.second)
  BY <1>1, FindPosition
<1>4. Answer(o, <<"erase", o, k>>, r)
  BY DEF Erase
<1>. HIDE DEF p, r
<1>5. /\ r.res # "table_full" /\ ht' = [ht EXCEPT ![o] = r.ht]
      /\ ret' = <<"erase", o, k, r.res>>
  <2>1. Append(<<"erase", o, k>>, r.res) = <<"erase", o, k, r.res>>
    BY AppendToThree
  <2>. QED
    BY <1>4, <2>1 DEF Answer
<1>6. /\ maps' = [maps EXCEPT ![o] = Contents(r.ht)] /\ maps[o] = Contents(t)
      /\ Contents(r.ht) = Contents(t) => maps' = maps
  BY <1>5, OneMap
<1>. HIDE DEF t
<1>7. size(t) # 0 => t.settings.use_empty
  BY <1>1 DEF Sound, Blank, size
<1>8. CASE size(t) = 0 \/ p.first = ILLEGAL_BUCKET
  <2>1. r = Outcome(t, "absent")
    BY <1>2, <1>5, <1>8 DEF Outcome
  <2>2. k \notin Keys(t)
    <3>1. CASE size(t) = 0
      BY <1>1, <3>1, EmptyContents
    <3>2. CASE size(t) # 0
      <4>1. Free(t, k, p.second)
        BY <1>2, <1>3, <1>5, <1>7, <1>8, <3>2 DEF search_fails, Outcome
      <4>. QED
        BY <4>1 DEF Free, Keys
    <3>. QED
      BY <3>1, <3>2
  <2>3. Contents(t)[k] = MISSING
    BY <1>1, <2>2, ContentsAre
  <2>4. r.ht = t /\ r.res = "absent"
    BY <2>1 DEF Outcome
  <2>5. maps' = maps /\ maps[o][k] = MISSING
    BY <1>6, <2>3, <2>4
  <2>. QED
    BY <1>5, <2>4, <2>5 DEF Map!Erase, maps
<1>9. CASE size(t) # 0 /\ p.first # ILLEGAL_BUCKET
  <2>. DEFINE u == erase_at(t, p.first)
  <2>1. r.ht = u /\ r.res = "erased"
    BY <1>2, <1>9 DEF Outcome, search_fails
  <2>2. p.first \in LiveBuckets(t) /\ t.table[p.first].key = k /\ p.first \in Buckets(t)
    BY <1>3, <1>7, <1>9 DEF LiveBuckets
  <2>3. /\ Sound(u) /\ LiveBuckets(u) = LiveBuckets(t) \ {p.first}
        /\ \A i \in LiveBuckets(t) \ {p.first} : u.table[i] = t.table[i]
    BY <1>1, <1>7, <1>9, <2>2, EraseAtErases
  <2>. HIDE DEF u
  <2>4. {p.first} \in SUBSET LiveBuckets(t) /\ KeysIn(t, {p.first}) = {k}
    BY <2>2 DEF KeysIn
  <2>5. Contents(u) = Map!Without(Contents(t), {k})
    BY <1>1, <2>3, <2>4, ErasedContents
  <2>6. Contents(u) = [Contents(t) EXCEPT ![k] = MISSING]
    <3>. DEFINE m == Contents(t)
    <3>1. m = [x \in Key |-> m[x]]
      BY DEF Contents
    <3>. HIDE DEF m
    <3>2. Contents(u) = [x \in Key |-> IF x \in {k} THEN MISSING ELSE m[x]]
      BY <2>5 DEF Map!Without, m
    <3>3. Contents(u) = [m EXCEPT ![k] = MISSING]
      BY <3>1, <3>2
    <3>. QED
      BY <3>3 DEF m
  <2>7. Contents(t)[k] # MISSING
    <3>1. k \in Keys(t)
      BY <2>2 DEF Keys
    <3>2. Contents(t)[k] \in Val
      BY <1>1, <3>1, ContentsAre
    <3>. QED
      BY <3>2, ClientAssumption
  <2>8. maps' = [maps EXCEPT ![o][k] = MISSING] /\ maps[o][k] # MISSING
    BY <1>6, <2>1, <2>6, <2>7
  <2>. QED
    BY <1>5, <2>1, <2>8 DEF Map!Erase, maps
<1>. QED
  BY <1>8, <1>9

\* erase of one iterator, and of a range of them.
LEMMA EraseRangeImplements ==
  ASSUME AllSound, NEW o \in Obj
  PROVE  /\ \A pos \in Buckets(ht[o]) :
              EraseAt(o, pos) => \E keys \in SUBSET Key : Map!EraseRange(o, keys)
         /\ \A f, l :
              EraseRange(o, f, l) => \E keys \in SUBSET Key : Map!EraseRange(o, keys)
<1>. DEFINE t == ht[o]
<1>1. Sound(t)
  BY DEF AllSound
<1>2. \A i : i \in LiveBuckets(t) \/ test_deleted(t, i) => t.settings.use_empty
  BY <1>1 DEF Sound, Blank, LiveBuckets, test_deleted
<1>3. ASSUME NEW u, Sound(u), NEW S \in SUBSET LiveBuckets(t),
             LiveBuckets(u) = LiveBuckets(t) \ S,
             \A i \in LiveBuckets(t) \ S : u.table[i] = t.table[i],
             ht' = [ht EXCEPT ![o] = u], ret' = <<"erase_range", o, KeysIn(t, S), "ok">>
      PROVE  \E keys \in SUBSET Key : Map!EraseRange(o, keys)
  <2>1. KeysIn(t, S) \in SUBSET Key /\ Contents(u) = Map!Without(Contents(t), KeysIn(t, S))
    BY <1>1, <1>3, ErasedContents
  <2>2. maps' = [maps EXCEPT ![o] = Contents(u)] /\ maps[o] = Contents(t)
    BY <1>3, OneMap
  <2>. HIDE DEF t
  <2>3. maps' = [maps EXCEPT ![o] = Map!Without(@, KeysIn(t, S))]
    BY <2>1, <2>2
  <2>4. Map!EraseRange(o, KeysIn(t, S))
    BY <1>3, <2>3 DEF Map!EraseRange, maps
  <2>. QED
    BY <2>1, <2>4
<1>4. ASSUME NEW pos \in Buckets(t), EraseAt(o, pos)
      PROVE  \E keys \in SUBSET Key : Map!EraseRange(o, keys)
  <2>. DEFINE u == erase_at(t, pos)
              S == {pos} \cap LiveBuckets(t)
  <2>1. /\ t.settings.use_deleted /\ (pos \in LiveBuckets(t) \/ test_deleted(t, pos))
        /\ ht' = [ht EXCEPT ![o] = u]
        /\ ret' = <<"erase_range", o, IF pos \in LiveBuckets(t)
                                      THEN {t.table[pos].key} ELSE {}, "ok">>
    BY <1>4 DEF EraseAt
  <2>2. /\ Sound(u) /\ LiveBuckets(u) = LiveBuckets(t) \ {pos}
        /\ \A i \in LiveBuckets(t) \ {pos} : u.table[i] = t.table[i]
    BY <1>1, <1>2, <2>1, EraseAtErases
  <2>3. LiveBuckets(t) \ {pos} = LiveBuckets(t) \ S
    OBVIOUS
  <2>4. KeysIn(t, S) = IF pos \in LiveBuckets(t) THEN {t.table[pos].key} ELSE {}
    BY DEF KeysIn
  <2>5. S \in SUBSET LiveBuckets(t)
    OBVIOUS
  <2>. HIDE DEF u, S, t
  <2>. QED
    BY <1>3, <2>1, <2>2, <2>3, <2>4, <2>5
<1>5. ASSUME NEW f, NEW l, EraseRange(o, f, l)
      PROVE  \E keys \in SUBSET Key : Map!EraseRange(o, keys)
  <2>. DEFINE u == erase_range(t, f, l)
              S == {i \in LiveBuckets(t) : f <= i /\ i < l}
  <2>1. /\ t.settings.use_deleted /\ f \in LiveBuckets(t)
        /\ ht' = [ht EXCEPT ![o] = u] /\ ret' = <<"erase_range", o, KeysIn(t, S), "ok">>
    BY <1>5 DEF EraseRange, KeysIn
  <2>2. Sound(u) /\ LiveBuckets(u) = LiveBuckets(t) \ S
    BY <1>1, <1>2, <2>1, EraseRangeSound
  <2>3. \A i \in LiveBuckets(t) \ S : u.table[i] = t.table[i]
    <3>1. t \in TableOf(t.num_buckets)
      BY <1>1, Fields DEF Sound
    <3>2. u.table = [i \in Buckets(t) |-> IF i \in S THEN DeletedBucket(t) ELSE t.table[i]]
      BY <3>1 DEF erase_range, TableOf
    <3>. HIDE DEF S, u
    <3>. QED
      BY <3>2 DEF LiveBuckets
  <2>4. S \in SUBSET LiveBuckets(t)
    OBVIOUS
  <2>. HIDE DEF u, S, t
  <2>. QED
    BY <1>3, <2>1, <2>2, <2>3, <2>4
<1>. QED
  BY <1>4, <1>5

\* clear, clear_no_resize, and construction anew, leave no object.
LEMMA ClearImplements ==
  ASSUME AllSound, NEW o \in Obj
  PROVE  /\ Clear(o) \/ ClearNoResize(o) => Map!Clear(o)
         /\ \A n \in Expected : Construct(o, n) => Map!Clear(o)
<1>. DEFINE t == ht[o]
<1>1. Sound(t)
  BY DEF AllSound
<1>2. t \in TableOf(t.num_buckets)
  BY <1>1, Fields DEF Sound
<1>3. ASSUME NEW u, Sound(u), size(u) = 0, ht' = [ht EXCEPT ![o] = u], ret' = <<"clear", o>>
      PROVE  Map!Clear(o)
  <2>1. Contents(u) = [k \in Key |-> MISSING]
    BY <1>3, EmptyContents
  <2>2. maps' = [maps EXCEPT ![o] = Contents(u)]
    BY <1>3, OneMap
  <2>3. Contents(u) = Map!Without(maps[o], Key)
    BY <2>1 DEF Map!Without
  <2>4. maps' = [maps EXCEPT ![o] = Map!Without(@, Key)]
    BY <2>2, <2>3
  <2>. QED
    BY <1>3, <2>4 DEF Map!Clear, maps
<1>4. ASSUME Clear(o) \/ ClearNoResize(o) PROVE Map!Clear(o)
  <2>1. Sound(clear(t)) /\ Sound(clear_no_resize(t)) /\ Populated(t)
    BY <1>1, <1>4, ClearSound DEF Clear, ClearNoResize, Sound
  <2>2. size(clear(t)) = 0
    <3>1. CASE t.num_elements = 0 /\ min_buckets(t.settings, 0, 0) = t.num_buckets
      <4>1. size(t) \in Nat /\ t.num_deleted \in Nat
        BY <1>1, SizeFits, Fields DEF Sound
      <4>2. t.num_deleted = 0
        BY <3>1, <4>1 DEF size
      <4>. QED
        BY <3>1, <4>2 DEF clear, size
    <3>2. CASE ~(t.num_elements = 0 /\ min_buckets(t.settings, 0, 0) = t.num_buckets)
      <4>1. clear(t) = clear_to_size(t, min_buckets(t.settings, 0, 0))
        BY <3>2 DEF clear
      <4>2. \A n : clear_to_size(t, n).num_elements = 0 /\ clear_to_size(t, n).num_deleted = 0
        BY <1>2 DEF clear_to_size, TableOf
      <4>. QED
        BY <4>1, <4>2 DEF size
    <3>. QED
      BY <3>1, <3>2
  <2>3. size(clear_no_resize(t)) = 0
    BY <1>2 DEF clear_no_resize, size, TableOf
  <2>4. CASE Clear(o)
    BY <1>3, <2>1, <2>2, <2>4 DEF Clear
  <2>5. CASE ClearNoResize(o)
    BY <1>3, <2>1, <2>3, <2>5 DEF ClearNoResize
  <2>. QED
    BY <1>4, <2>4, <2>5
<1>5. ASSUME NEW n \in Expected, Construct(o, n) PROVE Map!Clear(o)
  <2>1. n \in Nat
    BY ClientAssumption, SizesAssumption
  <2>2. Sound(new_table(n))
    BY <1>5, <2>1, RoomUnderFactors, NewTableSound DEF Construct
  <2>3. size(new_table(n)) = 0
    BY DEF new_table, size
  <2>. QED
    BY <1>3, <1>5, <2>2, <2>3 DEF Construct
<1>. QED
  BY <1>4, <1>5

\* The calls that deal with two objects.
LEMMA ObjectsImplement ==
  ASSUME AllSound, NEW o \in Obj, NEW p \in Obj
  PROVE  /\ Swap(o, p) => Map!Swap(o, p)
         /\ Assign(o, p) \/ CopyConstruct(o, p) => Map!Copy(o, p)
<1>1. Sound(ht[o]) /\ Sound(ht[p]) /\ maps[o] = Contents(ht[o]) /\ maps[p] = Contents(ht[p])
  BY DEF AllSound, maps
<1>2. ASSUME Swap(o, p) PROVE Map!Swap(o, p)
  <2>1. Contents(swapped(ht[o])) = maps[o] /\ Contents(swapped(ht[p])) = maps[p]
    BY <1>1, SwappedSound, SameContents DEF SameMap
  <2>2. /\ ret' = <<"swap", o, p>>
        /\ ht' = [ht EXCEPT ![o] = swapped(ht[p]), ![p] = swapped(ht[o])]
    BY <1>2 DEF Swap
  <2>3. maps' = [maps EXCEPT ![o] = maps[p], ![p] = maps[o]]
    <3>1. \A x \in Obj : ht'[x] = IF x = p THEN swapped(ht[o])
                                  ELSE IF x = o THEN swapped(ht[p]) ELSE ht[x]
      BY <2>2 DEF AllSound
    <3>2. \A x \in Obj : Contents(ht'[x]) = IF x = p THEN maps[o]
                                            ELSE IF x = o THEN maps[p] ELSE maps[x]
      BY <2>1, <3>1 DEF maps
    <3>3. maps' = [x \in Obj |-> Contents(ht'[x])] /\ maps = [x \in Obj |-> maps[x]]
      BY DEF maps
    <3>. HIDE DEF maps
    <3>. QED
      BY <3>2, <3>3
  <2>. QED
    BY <2>2, <2>3 DEF Map!Swap, maps
<1>3. ASSUME NEW u, Sound(u), Objects(u) = Objects(ht[p]),
             ht' = [ht EXCEPT ![o] = u], ret' = <<"copy", o, p>>
      PROVE  Map!Copy(o, p)
  <2>1. Contents(u) = maps[p]
    BY <1>1, <1>3, SameContents
  <2>2. maps' = [maps EXCEPT ![o] = Contents(u)]
    BY <1>3, OneMap
  <2>3. maps' = [maps EXCEPT ![o] = maps[p]]
    BY <2>1, <2>2
  <2>. QED
    BY <1>3, <2>3 DEF Map!Copy, maps
<1>4. ASSUME Assign(o, p) PROVE Map!Copy(o, p)
  <2>. DEFINE u == IF o = p THEN ht[o] ELSE assign(ht[o], ht[p])
  <2>1. Sound(u) /\ Objects(u) = Objects(ht[p])
    BY <1>1, AssignSound DEF SameMap
  <2>2. ht' = [ht EXCEPT ![o] = u] /\ ret' = <<"copy", o, p>>
    BY <1>4 DEF Assign
  <2>. HIDE DEF u
  <2>. QED
    BY <1>3, <2>1, <2>2
<1>5. ASSUME CopyConstruct(o, p) PROVE Map!Copy(o, p)
  <2>. DEFINE u == copy_of(ht[p], HT_DEFAULT_STARTING_BUCKETS)
  <2>1. Sound(u) /\ Objects(u) = Objects(ht[p])
    BY <1>1, CopyOfSound, StartingSizes DEF SameMap
  <2>2. ht' = [ht EXCEPT ![o] = u] /\ ret' = <<"copy", o, p>>
    BY <1>5 DEF CopyConstruct
  <2>. HIDE DEF u
  <2>. QED
    BY <1>3, <2>1, <2>2
<1>. QED
  BY <1>2, <1>4, <1>5

\* A squashed table whose deleted key changes has the same objects: it has no
\* deleted buckets that the new key could tell apart.
LEMMA DeletedKeyObjects ==
  ASSUME NEW t, Sound(t), NEW u, LET q == squash_deleted(t)
                                 IN  /\ u.table = q.table /\ u.num_buckets = q.num_buckets
                                     /\ u.emptykey = q.emptykey
                                     /\ u.num_deleted = q.num_deleted
  PROVE  Objects(u) = Objects(t)
<1>. DEFINE q == squash_deleted(t)
<1>1. Sound(q) /\ Objects(q) = Objects(t) /\ q.num_deleted = 0
  BY SquashSound DEF SameMap
<1>2. /\ u.table = q.table /\ u.num_buckets = q.num_buckets
      /\ u.emptykey = q.emptykey /\ u.num_deleted = q.num_deleted
  OBVIOUS
<1>. HIDE DEF q
<1>3. LiveBuckets(u) = LiveBuckets(q)
  BY <1>1, <1>2 DEF LiveBuckets, Buckets, test_empty, test_deleted
<1>. QED
  BY <1>1, <1>2, <1>3 DEF Objects

\* The calls that keep house.
LEMMA HousekeepingImplements ==
  ASSUME AllSound, AllSound', NEW o \in Obj
  PROVE  /\ \A k \in EmptyKeys : SetEmptyKey(o, k) => Map!Housekeep(o)
         /\ \A k \in DeletedKeys : SetDeletedKey(o, k) => Map!Housekeep(o)
         /\ ClearDeletedKey(o) => Map!Housekeep(o)
         /\ \A n \in Requests : Resize(o, n) => Map!Housekeep(o)
         /\ \A f \in Factors : \/ SetResizingParameters(o, f[1], f[2])
                               \/ MinLoadFactor(o, f[1]) \/ MaxLoadFactor(o, f[2])
                               => Map!Housekeep(o)
<1>. DEFINE t == ht[o]
            q == squash_deleted(t)
<1>1. Sound(t) /\ t \in TableOf(t.num_buckets) /\ t.settings \in Settings
  BY Fields DEF AllSound, Sound
<1>2. q \in TableOf(q.num_buckets)
  BY <1>1, SquashSound, Fields DEF Sound
\* The table a call leaves is sound already.
<1>3. ASSUME NEW u, Objects(u) = Objects(t), Housekeep(o, u) PROVE Map!Housekeep(o)
  <2>1. ht' = [ht EXCEPT ![o] = u]
    BY <1>3 DEF Housekeep, Answer, Outcome
  <2>2. Sound(u)
    BY <2>1 DEF AllSound
  <2>. QED
    BY <1>3, <2>2, HousekeptMap
<1>4. ASSUME NEW k \in EmptyKeys, SetEmptyKey(o, k) PROVE Map!Housekeep(o)
  <2>. DEFINE u == set_empty_key(t, k)
  <2>1. ~t.settings.use_empty /\ Housekeep(o, u)
    BY <1>4 DEF SetEmptyKey
  <2>2. LiveBuckets(t) = {}
    BY <1>1, <2>1 DEF Sound, Blank, LiveBuckets
  <2>3. /\ u.num_buckets = t.num_buckets /\ u.emptykey = k
        /\ u.table = [i \in Buckets(t) |-> [key |-> k, val |-> DefaultVal]]
    BY <1>1 DEF set_empty_key, TableOf
  <2>. HIDE DEF u
  <2>4. LiveBuckets(u) = {}
    BY <2>3 DEF LiveBuckets, Buckets, test_empty
  <2>. QED
    BY <1>3, <2>1, <2>2, <2>4 DEF Objects
<1>5. ASSUME NEW k \in DeletedKeys, SetDeletedKey(o, k) PROVE Map!Housekeep(o)
  <2>. DEFINE u == set_deleted_key(t, k)
  <2>1. /\ u.table = q.table /\ u.num_buckets = q.num_buckets
        /\ u.emptykey = q.emptykey /\ u.num_deleted = q.num_deleted
    BY <1>2 DEF set_deleted_key, TableOf
  <2>2. Housekeep(o, u)
    BY <1>5 DEF SetDeletedKey
  <2>. HIDE DEF u
  <2>3. Objects(u) = Objects(t)
    BY <1>1, <2>1, DeletedKeyObjects
  <2>. QED
    BY <1>3, <2>2, <2>3
<1>6. ASSUME ClearDeletedKey(o) PROVE Map!Housekeep(o)
  <2>. DEFINE u == clear_deleted_key(t)
  <2>1. /\ u.table = q.table /\ u.num_buckets = q.num_buckets
        /\ u.emptykey = q.emptykey /\ u.num_deleted = q.num_deleted
    BY <1>2 DEF clear_deleted_key, TableOf
  <2>2. Housekeep(o, u)
    BY <1>6 DEF ClearDeletedKey
  <2>. HIDE DEF u
  <2>3. Objects(u) = Objects(t)
    BY <1>1, <2>1, DeletedKeyObjects
  <2>. QED
    BY <1>3, <2>2, <2>3
<1>7. ASSUME NEW n \in Requests, Resize(o, n) PROVE Map!Housekeep(o)
  <2>. DEFINE r == resize(t, n)
  <2>1. n \in Nat
    BY ClientAssumption, SizesAssumption
  <2>2. Sound(r.ht) /\ Objects(r.ht) = Objects(t) /\ r.res \in {"kept", "resized", "length_error"}
    BY <1>1, <2>1, ResizeSound DEF SameMap
  <2>3. Answer(o, <<"resize", o>>, r)
    BY <1>7 DEF Resize
  <2>. HIDE DEF r
  <2>4. ht' = [ht EXCEPT ![o] = r.ht] /\ ret' = <<"resize", o, r.res>>
    <3>1. Append(<<"resize", o>>, r.res) = <<"resize", o, r.res>>
      BY AppendToTwo
    <3>. QED
      BY <2>3, <3>1 DEF Answer
  <2>5. maps' = maps
    BY <1>1, <2>2, <2>4, SameContents, OneMap
  <2>. QED
    BY <2>2, <2>4, <2>5 DEF Map!Housekeep, maps
<1>8. ASSUME NEW shrink, NEW grow, SetResizingParameters(o, shrink, grow)
      PROVE  Map!Housekeep(o)
  <2>. DEFINE u == change_resizing_parameters(t, shrink, grow)
  <2>1. /\ u.table = t.table /\ u.num_buckets = t.num_buckets
        /\ u.emptykey = t.emptykey /\ u.delkey = t.delkey /\ u.num_deleted = t.num_deleted
    BY <1>1 DEF change_resizing_parameters, TableOf
  <2>2. Housekeep(o, u)
    BY <1>8 DEF SetResizingParameters
  <2>. HIDE DEF u
  <2>3. LiveBuckets(u) = LiveBuckets(t)
    BY <2>1 DEF LiveBuckets, Buckets, test_empty, test_deleted
  <2>4. Objects(u) = Objects(t)
    BY <2>1, <2>3 DEF Objects
  <2>. QED
    BY <1>3, <2>2, <2>4
<1>. QED
  BY <1>4, <1>5, <1>6, <1>7, <1>8 DEF MinLoadFactor, MaxLoadFactor

-----------------------------------------------------------------------------
(* The theorems.                                                           *)

\* New objects are empty maps.
LEMMA InitImplements == Init => Map!Init
<1>. SUFFICES ASSUME Init PROVE Map!Init
  OBVIOUS
<1>1. Sound(new_table(0)) /\ size(new_table(0)) = 0
  BY RoomUnderFactors, NewTableSound DEF new_table, size
<1>2. Contents(new_table(0)) = [k \in Key |-> MISSING]
  BY <1>1, EmptyContents
<1>3. maps = [o \in Obj |-> [k \in Key |-> MISSING]]
  BY <1>2 DEF maps, Init
<1>. QED
  BY <1>3 DEF Map!Init, Init, maps

\* A step of the program is a step of the maps, or changes nothing.
LEMMA NextImplements ==
  ASSUME AllSound, [Next]_vars
  PROVE  [Map!Next]_(Map!vars)
<1>1. AllSound'
  BY NextSound
<1>2. CASE UNCHANGED vars
  BY <1>2 DEF vars, Map!vars
<1>3. CASE Next
  <2>1. ASSUME NEW o \in Obj, NEW obj \in Items, Insert(o, obj) PROVE Map!Next
    <3>1. obj.key \in Key /\ obj.val \in Val /\ obj = [key |-> obj.key, val |-> obj.val]
      BY ClientAssumption
    <3>. QED
      BY <1>1, <2>1, <3>1, InsertImplements DEF Map!Next
  <2>2. ASSUME NEW o \in Obj, NEW obj \in Items, Subscript(o, obj.key, obj.val)
        PROVE  Map!Next
    <3>1. obj.key \in Key /\ obj.val \in Val
      BY ClientAssumption
    <3>. QED
      BY <2>2, <3>1, SubscriptImplements DEF Map!Next
  <2>3. ASSUME NEW o \in Obj, NEW objs \in Ranges, InsertRange(o, objs) PROVE Map!Next
    BY <2>3, InsertRangeImplements DEF Map!Next
  <2>4. ASSUME NEW o \in Obj, NEW k \in Key, Erase(o, k) PROVE Map!Next
    BY <2>4, EraseImplements DEF Map!Next
  <2>5. ASSUME NEW o \in Obj,
               \/ \E pos \in Buckets(ht[o]) : EraseAt(o, pos)
               \/ \E f, l \in 0 .. ht[o].num_buckets : EraseRange(o, f, l)
        PROVE  Map!Next
    <3>1. PICK keys \in SUBSET Key : Map!EraseRange(o, keys)
      BY <2>5, EraseRangeImplements
    <3>. QED
      BY <3>1 DEF Map!Next
  <2>6. ASSUME NEW o \in Obj,
               Clear(o) \/ ClearNoResize(o) \/ \E n \in Expected : Construct(o, n)
        PROVE  Map!Next
    BY <2>6, ClearImplements DEF Map!Next
  <2>7. ASSUME NEW o \in Obj, NEW p \in Obj, Swap(o, p) \/ Assign(o, p) \/ CopyConstruct(o, p)
        PROVE  Map!Next
    BY <2>7, ObjectsImplement DEF Map!Next
  <2>8. ASSUME NEW o \in Obj,
               \/ \E k \in EmptyKeys : SetEmptyKey(o, k)
               \/ \E k \in DeletedKeys : SetDeletedKey(o, k)
               \/ ClearDeletedKey(o)
               \/ \E n \in Requests : Resize(o, n)
               \/ \E f \in Factors : \/ SetResizingParameters(o, f[1], f[2])
                                     \/ MinLoadFactor(o, f[1]) \/ MaxLoadFactor(o, f[2])
        PROVE  Map!Next
    <3>1. Map!Housekeep(o)
      BY <1>1, <2>8, HousekeepingImplements
    <3>. QED
      BY <3>1 DEF Map!Next
  <2>. QED
    BY <1>3, <2>1, <2>2, <2>3, <2>4, <2>5, <2>6, <2>7, <2>8 DEF Next
<1>. QED
  BY <1>2, <1>3

\* dense_hash_map is a map: every sequence of calls, with any keys, hash
\* function, load factors and limits, answers as the abstract map does and
\* changes what is in the objects as it does.  A rehash loses and doubles
\* nothing, a search never mistakes a key, and a call that throws leaves the
\* map alone, or with the first part of its range.
THEOREM DenseHashMapIsAMap == Spec => ImplementsHashMap
<1>1. Init => Map!Init
  BY InitImplements
<1>2. AllSound /\ [Next]_vars => [Map!Next]_(Map!vars)
  BY NextImplements
<1>. QED
  BY <1>1, <1>2, InitSound, NextSound, PTL DEF Spec, ImplementsHashMap, Map!Spec

-----------------------------------------------------------------------------
(***************************************************************************)
(* What a call may do to the size of a table, and to its buckets.  Every   *)
(* size is a power of two, and the least one that has room: half of it had *)
(* none, so it is at least as full as its shrink threshold wants, which is *)
(* the point of keeping the two load factors a factor of two apart.        *)
(***************************************************************************)

-----------------------------------------------------------------------------
(* Sizes.                                                                  *)

\* Of two powers of two one is at least twice the other.
LEMMA PowersApart ==
  ASSUME NEW n \in Nat, NEW m \in Nat, IsPowerOfTwo(n), IsPowerOfTwo(m), n < m
  PROVE  2 * n <= m
<1>. DEFINE Close(a) == \E b \in Nat : /\ IsPowerOfTwo(a) /\ IsPowerOfTwo(b)
                                       /\ a < b /\ b < 2 * a
            Bad == {a \in Nat : Close(a)}
<1>1. Bad = {}
  <2>. SUFFICES ASSUME Bad # {} PROVE FALSE
    OBVIOUS
  <2>1. Bad \in SUBSET Nat
    OBVIOUS
  <2>2. PICK a \in Bad : \A c \in Bad : a <= c
    BY <2>1, LeastNumber
  <2>3. a \in Nat /\ IsPowerOfTwo(a)
    OBVIOUS
  <2>4. PICK b \in Nat : IsPowerOfTwo(b) /\ a < b /\ b < 2 * a
    OBVIOUS
  <2>5. a > 1 /\ b > 1
    BY <2>3, <2>4
  <2>6. PICK c \in Nat : a = 2 * c /\ c < a /\ IsPowerOfTwo(c)
    BY <2>3, <2>5, HalfOfPower
  <2>7. PICK d \in Nat : b = 2 * d /\ d < b /\ IsPowerOfTwo(d)
    BY <2>4, <2>5, HalfOfPower
  <2>8. c < d /\ d < 2 * c
    BY <2>3, <2>4, <2>6, <2>7
  <2>9. c \in Bad
    BY <2>6, <2>7, <2>8
  <2>. QED
    BY <2>2, <2>3, <2>6, <2>9
<1>2. n \notin Bad
  BY <1>1
<1>. QED
  BY <1>2

\* min_buckets answers the least size that has room.
LEMMA LeastSize ==
  ASSUME NEW s, s.enlarge_factor \in Percent, NEW num \in Nat, NEW wanted \in Nat,
         NEW n \in BucketCounts, wanted <= n, num < enlarge_size(s, n)
  PROVE  /\ min_buckets(s, num, wanted) \in BucketCounts
         /\ wanted <= min_buckets(s, num, wanted) /\ min_buckets(s, num, wanted) <= n
         /\ num < enlarge_size(s, min_buckets(s, num, wanted))
         /\ \A m \in BucketCounts :
              wanted <= m /\ m < min_buckets(s, num, wanted) => num >= enlarge_size(s, m)
<1>. DEFINE R == roomy_sizes(s, num, wanted)
            b == min_buckets(s, num, wanted)
<1>1. \A m \in BucketCounts : m \in Nat
  BY BucketCountIsPower
<1>2. n \in R /\ R \in SUBSET Nat
  BY <1>1 DEF roomy_sizes
<1>3. b \in R /\ \A m \in R : b <= m
  BY <1>2, MinIsMember DEF min_buckets
<1>4. b \in BucketCounts /\ wanted <= b /\ num < enlarge_size(s, b) /\ b <= n
  BY <1>2, <1>3 DEF roomy_sizes
<1>5. ASSUME NEW m \in BucketCounts, wanted <= m, m < b PROVE num >= enlarge_size(s, m)
  <2>1. m \notin R
    BY <1>1, <1>3, <1>4, <1>5
  <2>2. ~(num < enlarge_size(s, m))
    BY <1>5, <2>1 DEF roomy_sizes
  <2>3. enlarge_size(s, m) \in Nat
    BY <1>1, EnlargeGrows
  <2>. QED
    BY <2>2, <2>3
<1>. QED
  BY <1>4, <1>5

\* A load under the one factor in half the buckets is no more than the other
\* factor asks of them all.
LEMMA HalfIsFullEnough ==
  ASSUME NEW s, FactorsOK(s), NEW n \in Nat
  PROVE  /\ shrink_size(s, 2 * n) \in Nat
         /\ shrink_size(s, 2 * n) <= enlarge_size(s, n)
<1>. DEFINE g == s.enlarge_factor
            k == s.shrink_factor
<1>1. g \in Nat /\ k \in Nat /\ 2 * k <= g
  BY DEF FactorsOK, Percent
<1>. HIDE DEF g, k
<1>2. (2 * n) * k = n * (2 * k) /\ n * (2 * k) <= n * g
      /\ (2 * n) * k \in Nat /\ n * g \in Nat
  BY <1>1
<1>3. \A x, y \in Nat : x <= y => x \div 100 <= y \div 100 /\ x \div 100 \in Nat
  OBVIOUS
<1>4. ((2 * n) * k) \div 100 <= (n * g) \div 100 /\ ((2 * n) * k) \div 100 \in Nat
  BY <1>2, <1>3
<1>. QED
  BY <1>4 DEF shrink_size, enlarge_size, g, k

\* The least size with room, if it is not the size asked for, is not so large
\* that the table should shrink.
LEMMA LeastIsFullEnough ==
  ASSUME NEW s, FactorsOK(s), NEW num \in Nat, NEW wanted \in BucketCounts,
         NEW b \in BucketCounts, wanted < b,
         \A m \in BucketCounts : wanted <= m /\ m < b => num >= enlarge_size(s, m)
  PROVE  num >= shrink_size(s, b)
<1>1. /\ wanted \in Nat /\ b \in Nat /\ IsPowerOfTwo(wanted) /\ IsPowerOfTwo(b)
      /\ wanted > 0 /\ HT_MIN_BUCKETS <= wanted /\ b <= SizeMax
      /\ HT_MIN_BUCKETS \in Nat /\ SizeMax \in Nat
  BY BucketCountIsPower, SizesAssumption DEF BucketCounts
<1>2. 2 * wanted <= b
  BY <1>1, PowersApart
<1>3. PICK m \in Nat : b = 2 * m /\ m < b /\ IsPowerOfTwo(m)
  BY <1>1, <1>2, HalfOfPower
<1>4. wanted <= m /\ m \in BucketCounts
  <2>1. wanted <= m
    BY <1>1, <1>2, <1>3
  <2>2. m \in HT_MIN_BUCKETS .. SizeMax
    BY <1>1, <1>3, <2>1
  <2>. QED
    BY <1>3, <2>1, <2>2 DEF BucketCounts
<1>5. num >= enlarge_size(s, m)
  BY <1>3, <1>4
<1>6. shrink_size(s, 2 * m) \in Nat /\ shrink_size(s, 2 * m) <= enlarge_size(s, m)
      /\ enlarge_size(s, m) \in Nat
  <2>1. m <= m /\ s.enlarge_factor \in Percent
    BY DEF FactorsOK
  <2>. QED
    BY <2>1, HalfIsFullEnough, EnlargeGrows
<1>7. num >= shrink_size(s, 2 * m)
  BY <1>5, <1>6
<1>. QED
  BY <1>3, <1>7

\* What a table should at least have never is more than it may have.
LEMMA ThresholdsApart ==
  ASSUME NEW s, FactorsOK(s), NEW n \in Nat
  PROVE  shrink_size(s, n) \in Nat /\ enlarge_size(s, n) \in Nat
         /\ shrink_size(s, n) <= enlarge_size(s, n)
<1>. DEFINE g == s.enlarge_factor
            k == s.shrink_factor
<1>1. g \in Nat /\ k \in Nat /\ 2 * k <= g
  BY DEF FactorsOK, Percent
<1>. HIDE DEF g, k
<1>2. n * k <= n * g /\ n * k \in Nat /\ n * g \in Nat
  <2>1. k <= g
    BY <1>1
  <2>. QED
    BY <1>1, <2>1
<1>3. \A x, y \in Nat : x <= y => /\ x \div 100 <= y \div 100
                                  /\ x \div 100 \in Nat /\ y \div 100 \in Nat
  OBVIOUS
<1>4. (n * k) \div 100 <= (n * g) \div 100 /\ (n * k) \div 100 \in Nat
      /\ (n * g) \div 100 \in Nat
  BY <1>2, <1>3
<1>. QED
  BY <1>4 DEF shrink_size, enlarge_size, g, k

-----------------------------------------------------------------------------
(* Resizing.                                                               *)

SameFactors(u, t) ==
  /\ u.settings.enlarge_factor = t.settings.enlarge_factor
  /\ u.settings.shrink_factor = t.settings.shrink_factor

\* There is a size, no less than wanted, with room for num objects.
Roomy(t, num, wanted) ==
  \E n \in BucketCounts : wanted <= n /\ num < enlarge_size(t.settings, n)

\* A sound table's objects have room in some size, however many buckets are
\* wanted.
LEMMA AlwaysRoomy ==
  ASSUME NEW t, Sound(t), NEW wanted \in BucketCounts
  PROVE  Roomy(t, size(t), wanted)
<1>1. size(t) \in Nat /\ size(t) <= MaxSize /\ t.settings.enlarge_factor \in Percent
      /\ RoomFor(t.settings) /\ MaxSize \in Nat
  BY SizeFits, Fields, KeysAssumption DEF Sound
<1>2. PICK n \in BucketCounts : MaxSize < enlarge_size(t.settings, n)
  BY <1>1 DEF RoomFor
<1>3. n \in Nat /\ wanted \in Nat
  BY BucketCountIsPower
<1>4. enlarge_size(t.settings, n) \in Nat /\ size(t) < enlarge_size(t.settings, n)
  <2>1. n <= n
    BY <1>3
  <2>2. enlarge_size(t.settings, n) \in Nat
    BY <1>1, <1>3, <2>1, EnlargeGrows
  <2>. QED
    BY <1>1, <1>2, <2>2
<1>5. CASE wanted <= n
  BY <1>4, <1>5 DEF Roomy
<1>6. CASE ~(wanted <= n)
  <2>1. enlarge_size(t.settings, n) <= enlarge_size(t.settings, wanted)
        /\ enlarge_size(t.settings, wanted) \in Nat
    BY <1>1, <1>3, <1>6, EnlargeGrows
  <2>2. wanted <= wanted /\ size(t) < enlarge_size(t.settings, wanted)
    BY <1>1, <1>3, <1>4, <2>1
  <2>. QED
    BY <2>2 DEF Roomy
<1>. QED
  BY <1>5, <1>6

\* The size and the settings that a rehash leaves.
LEMMA RehashSize ==
  ASSUME NEW t, Tunable(t), NEW wanted
  PROVE  LET u == swapped(copy_of(t, wanted))
         IN  /\ u.num_buckets = min_buckets(t.settings, size(t), wanted)
             /\ SameFactors(u, t)
<1>. DEFINE n == min_buckets(t.settings, size(t), wanted)
            c == copy_of(t, wanted)
            Left(u) == u.num_buckets = n /\ SameFactors(u, t)
<1>. HIDE DEF n
<1>1. DOMAIN t = TableFields /\ DOMAIN t.settings = SettingsFields
  BY DEF Tunable, FactorsOK
<1>2. Left(clear_to_size(t, n)) /\ DOMAIN clear_to_size(t, n) = TableFields
      /\ DOMAIN clear_to_size(t, n).settings = SettingsFields
  BY <1>1 DEF clear_to_size, reset_thresholds, SameFactors, TableFields, SettingsFields
<1>3. /\ Left(copy_to_size(t, t, n)) /\ DOMAIN copy_to_size(t, t, n) = TableFields
      /\ DOMAIN copy_to_size(t, t, n).settings = SettingsFields
  BY <1>2 DEF copy_to_size, SameFactors, TableFields
<1>4. /\ Left(no_table_of(t, n)) /\ DOMAIN no_table_of(t, n) = TableFields
      /\ DOMAIN no_table_of(t, n).settings = SettingsFields
  BY <1>1 DEF no_table_of, reset_thresholds, SameFactors, TableFields, SettingsFields
<1>5. c = IF t.settings.use_empty THEN copy_to_size(t, t, n) ELSE no_table_of(t, n)
  BY DEF copy_of, copy_from, n
<1>6. Left(c) /\ DOMAIN c = TableFields /\ DOMAIN c.settings = SettingsFields
  BY <1>3, <1>4, <1>5
<1>. HIDE DEF c
<1>7. Left(swapped(c))
  BY <1>6 DEF swapped, reset_thresholds, SameFactors, TableFields, SettingsFields
<1>. QED
  BY <1>7 DEF n, c

\* A rehash leaves the size wanted, if that has room, and else the least that
\* has, which is not so large that the table should shrink.
LEMMA Rehashed ==
  ASSUME NEW t, Sound(t), Tuned(t), NEW wanted \in BucketCounts
  PROVE  LET u == swapped(copy_of(t, wanted))
         IN  /\ Sound(u) /\ Tuned(u) /\ SameFactors(u, t)
             /\ u.num_deleted = 0 /\ u.num_elements = size(t) /\ size(u) = size(t)
             /\ u.num_buckets \in BucketCounts /\ wanted <= u.num_buckets
             /\ \A n \in BucketCounts :
                  wanted <= n /\ size(t) < enlarge_size(t.settings, n) =>
                    u.num_buckets <= n
             /\ wanted < u.num_buckets => size(t) >= u.settings.shrink_threshold
<1>. DEFINE u == swapped(copy_of(t, wanted))
            s == t.settings
<1>1. /\ Sound(u) /\ SameMap(u, t) /\ u.num_deleted = 0 /\ wanted <= u.num_buckets
  BY RehashSound
<1>2. Tuned(u) /\ u.num_buckets = min_buckets(s, size(t), wanted) /\ SameFactors(u, t)
  BY RehashIsTuned, RehashSize DEF Tuned
<1>. HIDE DEF u
<1>3. size(t) \in Nat /\ s.enlarge_factor \in Percent /\ FactorsOK(s) /\ wanted \in Nat
  BY SizeFits, Fields, BucketCountIsPower DEF Sound, Tuned, Tunable
<1>4. size(u) = size(t) /\ u.num_elements = size(t)
  BY <1>1, Fields DEF SameMap, size, Sound
<1>5. PICK n \in BucketCounts : wanted <= n /\ size(t) < enlarge_size(s, n)
  BY AlwaysRoomy DEF Roomy
<1>6. /\ u.num_buckets \in BucketCounts
      /\ \A m \in BucketCounts :
           wanted <= m /\ m < u.num_buckets => size(t) >= enlarge_size(s, m)
  BY <1>2, <1>3, <1>5, LeastSize
<1>7. \A m \in BucketCounts :
        wanted <= m /\ size(t) < enlarge_size(s, m) => u.num_buckets <= m
  BY <1>2, <1>3, LeastSize
<1>8. u.settings.shrink_threshold = shrink_size(s, u.num_buckets)
  BY <1>2 DEF Tuned, in_sync, SameFactors, shrink_size
<1>9. wanted < u.num_buckets => size(t) >= u.settings.shrink_threshold
  BY <1>3, <1>6, <1>8, LeastIsFullEnough
<1>. QED
  BY <1>1, <1>2, <1>4, <1>6, <1>7, <1>9 DEF u

\* maybe_shrink, whether it shrinks or not, leaves no more buckets than there
\* were, and no fewer under a shrink factor of 0; done, the table is as full as
\* its shrink threshold wants, or as small as it gets.
Shrunk(u, t) ==
  /\ Sound(u) /\ Tuned(u) /\ SameFactors(u, t)
  /\ size(u) = size(t) /\ u.num_buckets \in BucketCounts
  /\ t.num_deleted = 0 => u.num_deleted = 0
  /\ u.num_buckets <= t.num_buckets
  /\ t.settings.shrink_factor = 0 => u.num_buckets = t.num_buckets

\* maybe_shrink leaves the table as Shrunk says, and stops at the default size
\* or when it is full enough.
LEMMA MaybeShrinkShrinks ==
  ASSUME NEW t, Sound(t), Tuned(t)
  PROVE  LET u == maybe_shrink(t).ht
         IN  /\ Shrunk(u, t)
             /\ \/ u.num_buckets <= HT_DEFAULT_STARTING_BUCKETS
                \/ size(u) >= u.settings.shrink_threshold
<1>. DEFINE s       == t.settings
            shrinks == /\ s.shrink_threshold > 0
                       /\ size(t) < s.shrink_threshold
                       /\ t.num_buckets > HT_DEFAULT_STARTING_BUCKETS
            sizes   == {n \in BucketCounts :
                          /\ HT_DEFAULT_STARTING_BUCKETS <= n /\ n < t.num_buckets
                          /\ \/ n = HT_DEFAULT_STARTING_BUCKETS
                             \/ size(t) * 100 >= n * s.shrink_factor}
            kept    == [t EXCEPT !.settings.consider_shrink = FALSE]
            Done(u) == /\ Shrunk(u, t)
                       /\ \/ u.num_buckets <= HT_DEFAULT_STARTING_BUCKETS
                          \/ size(u) >= u.settings.shrink_threshold
<1>1. /\ t.num_buckets \in BucketCounts /\ t.num_buckets \in Nat
      /\ size(t) \in Nat /\ FactorsOK(s) /\ DOMAIN t = TableFields
      /\ s.shrink_factor \in Nat /\ s.enlarge_factor \in Percent
      /\ HT_DEFAULT_STARTING_BUCKETS \in Nat
  BY Fields, SizeFits, StartingSizes, BucketCountIsPower
     DEF Sound, Tuned, Tunable, FactorsOK, Percent
<1>2. /\ s.shrink_threshold = shrink_size(s, t.num_buckets)
      /\ shrink_size(s, t.num_buckets) <= enlarge_size(s, t.num_buckets)
      /\ shrink_size(s, t.num_buckets) \in Nat /\ enlarge_size(s, t.num_buckets) \in Nat
  BY <1>1, ThresholdsApart DEF Tuned, in_sync
<1>3. s.shrink_factor = 0 => ~shrinks
  <2>1. \A n \in Nat : (n * 0) \div 100 = 0
    OBVIOUS
  <2>. QED
    BY <1>1, <1>2, <2>1 DEF shrink_size
<1>4. maybe_shrink(t).ht = IF shrinks THEN swapped(copy_of(t, Max(sizes))) ELSE kept
  BY DEF maybe_shrink, Outcome
<1>5. ASSUME ~shrinks PROVE Done(kept)
  <2>1. maybe_shrink(t).ht = kept
    BY <1>4, <1>5
  <2>2. Sound(kept) /\ Tuned(kept)
    BY <2>1, MaybeShrinkSound, MaybeShrinkIsTuned DEF Resized
  <2>3. /\ kept.num_buckets = t.num_buckets /\ kept.num_elements = t.num_elements
        /\ kept.num_deleted = t.num_deleted /\ SameFactors(kept, t)
        /\ kept.settings.shrink_threshold = s.shrink_threshold
    BY <1>1 DEF TableFields, FactorsOK, SettingsFields, SameFactors
  <2>. HIDE DEF kept
  <2>4. size(kept) = size(t)
    BY <2>3 DEF size
  <2>. QED
    BY <1>1, <1>2, <1>5, <2>2, <2>3, <2>4 DEF Shrunk
<1>6. ASSUME shrinks PROVE Done(swapped(copy_of(t, Max(sizes))))
  <2>. DEFINE m == Max(sizes)
              u == swapped(copy_of(t, m))
  <2>1. sizes \in SUBSET (0 .. SizeMax) /\ SizeMax \in Nat
    BY SizesAssumption DEF BucketCounts
  <2>2. HT_DEFAULT_STARTING_BUCKETS \in sizes
    BY <1>1, <1>6, StartingSizes
  <2>3. m \in sizes
    BY <2>1, <2>2, MaxIsMember
  <2>4. /\ m \in BucketCounts /\ m < t.num_buckets
        /\ m = HT_DEFAULT_STARTING_BUCKETS \/ size(t) * 100 >= m * s.shrink_factor
    BY <2>3
  <2>. HIDE DEF m, sizes
  <2>5. m \in Nat
    BY <2>4, BucketCountIsPower
  <2>6. /\ Sound(u) /\ Tuned(u) /\ SameFactors(u, t)
        /\ u.num_deleted = 0 /\ size(u) = size(t)
        /\ u.num_buckets \in BucketCounts /\ m <= u.num_buckets
        /\ \A n \in BucketCounts :
             m <= n /\ size(t) < enlarge_size(s, n) => u.num_buckets <= n
        /\ m < u.num_buckets => size(t) >= u.settings.shrink_threshold
    BY <2>4, Rehashed
  <2>. HIDE DEF u
  <2>7. u.num_buckets <= t.num_buckets
    <3>1. size(t) < enlarge_size(s, t.num_buckets)
      BY <1>1, <1>2, <1>6
    <3>2. m <= t.num_buckets
      BY <1>1, <2>4, <2>5
    <3>. QED
      BY <1>1, <2>6, <3>1, <3>2
  <2>8. Shrunk(u, t)
    BY <1>3, <1>6, <2>6, <2>7 DEF Shrunk
  <2>9. ASSUME m < u.num_buckets PROVE Done(u)
    BY <2>6, <2>8, <2>9
  <2>10. ASSUME ~(m < u.num_buckets) PROVE Done(u)
    <3>1. u.num_buckets = m
      BY <2>5, <2>6, <2>10, BucketCountIsPower
    <3>2. CASE m = HT_DEFAULT_STARTING_BUCKETS
      BY <1>1, <2>8, <3>1, <3>2
    <3>3. CASE size(t) * 100 >= m * s.shrink_factor
      <4>1. \A x, y \in Nat : x * 100 >= y => x >= y \div 100
        OBVIOUS
      <4>2. m * s.shrink_factor \in Nat
        BY <1>1, <2>5
      <4>3. size(t) >= (m * s.shrink_factor) \div 100
        BY <1>1, <3>3, <4>1, <4>2
      <4>4. u.settings.shrink_threshold = (m * s.shrink_factor) \div 100
        BY <2>6, <3>1 DEF Tuned, in_sync, shrink_size, SameFactors
      <4>. QED
        BY <2>6, <2>8, <4>3, <4>4
    <3>. QED
      BY <2>4, <3>2, <3>3
  <2>11. Done(u)
    BY <2>9, <2>10
  <2>. QED
    BY <2>11 DEF u, m
<1>. HIDE DEF Done, kept, shrinks
<1>7. Done(maybe_shrink(t).ht)
  BY <1>4, <1>5, <1>6
<1>. QED
  BY <1>7 DEF Done

\* After the rest of resize_delta there is room for delta more objects under
\* the grow threshold, deleted buckets counted in, unless it threw; the table
\* is no smaller, and if it is larger it is not so large that it should shrink.
Grown(r, t, delta) ==
  /\ t.num_buckets <= r.ht.num_buckets
  /\ t.num_deleted = 0 => r.ht.num_deleted = 0
  /\ r.res # "length_error" => r.ht.num_elements + delta <= r.ht.settings.enlarge_threshold
  /\ t.num_buckets < r.ht.num_buckets =>
       size(t) + delta >= r.ht.settings.shrink_threshold

\* The growing half of resize_delta leaves room for delta objects, or throws.
LEMMA GrowGrows ==
  ASSUME NEW u, Sound(u.ht), Tuned(u.ht), u.res # "length_error", NEW delta \in Nat
  PROVE  Grown(grow_if_needed(u, delta), u.ht, delta)
<1>. DEFINE t    == u.ht
            s    == t.settings
            n    == t.num_elements
            fits == min_buckets(s, size(t) + delta, t.num_buckets)
            to   == resize_to(t, delta)
            c    == swapped(copy_of(t, to))
<1>1. /\ n \in Nat /\ t.num_buckets \in Nat /\ t.num_buckets \in BucketCounts
      /\ s.enlarge_factor \in Percent /\ FactorsOK(s) /\ n + delta \in Nat
      /\ size(t) \in Nat /\ size(t) <= n /\ size(t) + delta \in Nat
      /\ s.enlarge_threshold = enlarge_size(s, t.num_buckets)
      /\ size(t) + delta <= n + delta
  BY Fields, SizeFits DEF Sound, Tuned, Tunable, in_sync, size
<1>2. \A m \in BucketCounts : m \in Nat /\ enlarge_size(s, m) \in Nat
  BY <1>1, BucketCountIsPower, EnlargeGrows
<1>3. ASSUME n + delta <= s.enlarge_threshold PROVE Grown(u, t, delta)
  BY <1>1, <1>3 DEF Grown
<1>4. ASSUME ~min_buckets_overflows(s, n + delta, 0),
             min_buckets(s, n + delta, 0) <= t.num_buckets
      PROVE  Grown(u, t, delta)
  <2>. DEFINE b == min_buckets(s, n + delta, 0)
  <2>1. PICK m \in BucketCounts : n + delta < enlarge_size(s, m)
    BY <1>4 DEF min_buckets_overflows, roomy_sizes
  <2>2. 0 \in Nat /\ 0 <= m
    BY <1>2
  <2>3. b \in BucketCounts /\ n + delta < enlarge_size(s, b)
    BY <1>1, <2>1, <2>2, MinBuckets
  <2>4. b <= t.num_buckets
    BY <1>4
  <2>. HIDE DEF b
  <2>5. enlarge_size(s, b) <= enlarge_size(s, t.num_buckets)
    BY <1>1, <1>2, <2>3, <2>4, EnlargeGrows
  <2>6. n + delta <= s.enlarge_threshold
    BY <1>1, <1>2, <2>3, <2>5
  <2>. QED
    BY <1>3, <2>6
<1>5. ASSUME ~min_buckets_overflows(s, n + delta, 0)
      PROVE  Grown(Outcome(c, "resized"), t, delta)
  <2>1. PICK m \in BucketCounts : n + delta < enlarge_size(s, m)
    BY <1>5 DEF min_buckets_overflows, roomy_sizes
  <2>2. size(t) + delta < enlarge_size(s, m)
    BY <1>1, <1>2, <2>1
  <2>3. PICK k \in BucketCounts : t.num_buckets <= k /\ size(t) + delta < enlarge_size(s, k)
    <3>1. CASE t.num_buckets <= m
      BY <2>2, <3>1
    <3>2. CASE ~(t.num_buckets <= m)
      <4>1. enlarge_size(s, m) <= enlarge_size(s, t.num_buckets)
        BY <1>1, <1>2, <3>2, EnlargeGrows
      <4>2. size(t) + delta < enlarge_size(s, t.num_buckets)
        BY <1>1, <1>2, <2>2, <4>1
      <4>. QED
        BY <1>1, <4>2
    <3>. QED
      BY <3>1, <3>2
  <2>4. /\ fits \in BucketCounts /\ t.num_buckets <= fits
        /\ size(t) + delta < enlarge_size(s, fits)
        /\ \A j \in BucketCounts :
             t.num_buckets <= j /\ j < fits => size(t) + delta >= enlarge_size(s, j)
    BY <1>1, <2>3, LeastSize
  <2>5. t.num_buckets < fits => size(t) + delta >= shrink_size(s, fits)
    BY <1>1, <2>4, LeastIsFullEnough
  <2>6. /\ to \in {fits, fits * 2}
        /\ to = fits \/ size(t) + delta >= shrink_size(s, to)
    <3>. HIDE DEF fits
    <3>1. to = IF /\ fits < min_buckets(s, n - t.num_deleted \div 4 + delta, 0)
                  /\ fits < SizeMax \div 2
                  /\ size(t) + delta >= shrink_size(s, fits * 2)
               THEN fits * 2 ELSE fits
      BY DEF resize_to, fits
    <3>. HIDE DEF to
    <3>. QED
      BY <3>1
  <2>. HIDE DEF fits, to
  <2>7. to \in BucketCounts
    BY <1>5, ResizeToSize DEF to
  <2>8. fits <= to /\ t.num_buckets <= to /\ to \in Nat
    BY <1>1, <1>2, <2>4, <2>6, <2>7
  <2>9. size(t) + delta < enlarge_size(s, to)
    BY <1>1, <1>2, <2>4, <2>7, <2>8, EnlargeGrows
  <2>10. t.num_buckets < to => size(t) + delta >= shrink_size(s, to)
    BY <2>5, <2>6
  <2>11. size(t) < enlarge_size(s, to)
    BY <1>1, <1>2, <2>7, <2>9
  <2>12. /\ Sound(c) /\ Tuned(c) /\ SameFactors(c, t)
         /\ c.num_deleted = 0 /\ c.num_elements = size(t)
         /\ c.num_buckets \in BucketCounts /\ to <= c.num_buckets
         /\ \A j \in BucketCounts :
              to <= j /\ size(t) < enlarge_size(s, j) => c.num_buckets <= j
    BY <2>7, Rehashed
  <2>. HIDE DEF c
  <2>13. c.num_buckets = to
    <3>1. c.num_buckets \in Nat /\ to <= to
      BY <2>8, <2>12, BucketCountIsPower
    <3>2. c.num_buckets <= to
      BY <2>7, <2>11, <2>12, <3>1
    <3>. QED
      BY <2>8, <2>12, <3>1, <3>2
  <2>14. /\ c.settings.enlarge_threshold = enlarge_size(s, to)
         /\ c.settings.shrink_threshold = shrink_size(s, to)
    BY <2>12, <2>13 DEF Tuned, in_sync, SameFactors, enlarge_size, shrink_size
  <2>15. c.num_elements + delta <= c.settings.enlarge_threshold
    BY <1>1, <1>2, <2>7, <2>9, <2>12, <2>14
  <2>. QED
    BY <2>8, <2>10, <2>12, <2>13, <2>14, <2>15 DEF Grown, Outcome
<1>6. Grown(Outcome(t, "length_error"), t, delta)
  BY <1>1 DEF Grown, Outcome
<1>. HIDE DEF c
<1>. QED
  BY <1>3, <1>4, <1>5, <1>6 DEF grow_if_needed, c

\* resize_delta, whether it shrinks first or not.
LEMMA ResizeDeltaGrows ==
  ASSUME NEW t, Sound(t), Tuned(t), NEW delta \in Nat
  PROVE  LET r == resize_delta(t, delta)
         IN  /\ Sound(r.ht) /\ Tuned(r.ht) /\ size(r.ht) = size(t)
             /\ t.num_deleted = 0 => r.ht.num_deleted = 0
             /\ r.res # "length_error" =>
                  r.ht.num_elements + delta <= r.ht.settings.enlarge_threshold
             /\ t.num_buckets < r.ht.num_buckets =>
                  size(t) + delta >= r.ht.settings.shrink_threshold
             /\ t.settings.shrink_factor = 0 => t.num_buckets <= r.ht.num_buckets
<1>. DEFINE u == IF t.settings.consider_shrink THEN maybe_shrink(t) ELSE Outcome(t, "kept")
            r == resize_delta(t, delta)
<1>1. t.num_buckets \in BucketCounts /\ t.num_buckets \in Nat
  BY Fields DEF Sound
<1>2. Shrunk(t, t)
  BY <1>1 DEF Shrunk, SameFactors
<1>3. Shrunk(u.ht, t) /\ u.res # "length_error"
  <2>1. maybe_shrink(t).res # "length_error"
    BY DEF maybe_shrink, Outcome
  <2>. QED
    BY <1>2, <2>1, MaybeShrinkShrinks DEF Outcome
<1>4. r = grow_if_needed(u, delta)
  BY DEF resize_delta
<1>. HIDE DEF u
<1>5. Grown(r, u.ht, delta)
  BY <1>3, <1>4, GrowGrows DEF Shrunk
<1>6. Resized(r, t) /\ Tuned(r.ht)
  BY ResizeDeltaSound, ResizeDeltaIsTuned
<1>. HIDE DEF r
<1>7. r.ht.num_buckets \in Nat /\ u.ht.num_buckets \in Nat /\ size(r.ht) = size(t)
  BY <1>3, <1>6, Fields DEF Resized, SameMap, Shrunk, Sound
<1>8. t.num_buckets < r.ht.num_buckets =>
        size(t) + delta >= r.ht.settings.shrink_threshold
  BY <1>1, <1>3, <1>5, <1>7 DEF Grown, Shrunk
<1>9. t.settings.shrink_factor = 0 => t.num_buckets <= r.ht.num_buckets
  BY <1>3, <1>5 DEF Grown, Shrunk
<1>. QED
  BY <1>3, <1>5, <1>6, <1>7, <1>8, <1>9 DEF r, Grown, Shrunk, Resized

-----------------------------------------------------------------------------
(* Insertion.                                                              *)

\* The same buckets and settings.
SameShape(u, t) ==
  DOMAIN u = TableFields /\ u.num_buckets = t.num_buckets /\ u.settings = t.settings

\* What putting an object in a table without resizing leaves and answers.
Placed(r, t) ==
  /\ SameShape(r.ht, t)
  /\ r.res \in {"inserted", "present", "length_error", "table_full"}
  /\ r.ht.num_elements \in {t.num_elements, t.num_elements + 1}
  /\ r.res = "inserted" => size(r.ht) = size(t) + 1

\* insert_at takes one bucket at most.
LEMMA InsertAtPlaces ==
  ASSUME NEW t, Sound(t), NEW obj, NEW pos
  PROVE  Placed(insert_at(t, obj, pos), t)
<1>1. t \in TableOf(t.num_buckets) /\ t.num_elements \in Nat /\ t.num_deleted \in Nat
      /\ DOMAIN t = TableFields
  BY Fields DEF Sound, TableOf, TableFields
<1>. DEFINE u == [t EXCEPT !.table[pos] = obj, !.num_deleted = @ - 1]
            v == [t EXCEPT !.table[pos] = obj, !.num_elements = @ + 1]
<1>2. /\ SameShape(u, t) /\ u.num_elements = t.num_elements
      /\ u.num_deleted = t.num_deleted - 1
      /\ SameShape(v, t) /\ v.num_elements = t.num_elements + 1
      /\ v.num_deleted = t.num_deleted
  BY <1>1 DEF SameShape, TableFields
<1>. HIDE DEF u, v
<1>3. size(u) = size(t) + 1 /\ size(v) = size(t) + 1
  BY <1>1, <1>2 DEF size
<1>4. Placed(Outcome(u, "inserted"), t) /\ Placed(Outcome(v, "inserted"), t)
      /\ Placed(Outcome(t, "length_error"), t)
  BY <1>1, <1>2, <1>3 DEF Placed, Outcome, SameShape
<1>5. insert_at(t, obj, pos) \in {Outcome(u, "inserted"), Outcome(v, "inserted"),
                                  Outcome(t, "length_error")}
  BY DEF insert_at, u, v
<1>. QED
  BY <1>4, <1>5

\* So does insert_noresize.
LEMMA InsertNoresizePlaces ==
  ASSUME NEW t, Sound(t), NEW obj
  PROVE  Placed(insert_noresize(t, obj), t)
<1>1. \A res \in {"present", "table_full"} : Placed(Outcome(t, res), t)
  BY Fields DEF Placed, Outcome, SameShape, Sound, TableOf, TableFields
<1>. QED
  BY <1>1, InsertAtPlaces DEF insert_noresize

\* An insertion that did not throw leaves the load under the grow threshold; a
\* table it made larger is not so large that it should shrink; and under a
\* shrink factor of 0 it made it no smaller.
Fits(r, t) ==
  /\ r.res # "length_error" => r.ht.num_elements <= r.ht.settings.enlarge_threshold
  /\ r.res = "inserted" /\ t.num_buckets < r.ht.num_buckets =>
       size(r.ht) >= r.ht.settings.shrink_threshold
  /\ t.settings.shrink_factor = 0 => t.num_buckets <= r.ht.num_buckets

\* Putting one object in, once resize_delta made room for it.
LEMMA PlacedFits ==
  ASSUME NEW t, Sound(t), Tuned(t), resize_delta(t, 1).res # "length_error",
         NEW r, Placed(r, resize_delta(t, 1).ht)
  PROVE  Fits(r, t)
<1>. DEFINE q == resize_delta(t, 1)
<1>1. /\ Sound(q.ht) /\ size(q.ht) = size(t)
      /\ q.ht.num_elements + 1 <= q.ht.settings.enlarge_threshold
      /\ t.num_buckets < q.ht.num_buckets => size(t) + 1 >= q.ht.settings.shrink_threshold
      /\ t.settings.shrink_factor = 0 => t.num_buckets <= q.ht.num_buckets
  BY ResizeDeltaGrows
<1>2. Placed(r, q.ht)
  OBVIOUS
<1>. HIDE DEF q
<1>3. q.ht.num_elements \in Nat /\ q.ht.settings.enlarge_threshold \in Nat
  BY <1>1, Fields DEF Sound, Settings
<1>. QED
  BY <1>1, <1>2, <1>3 DEF Placed, SameShape, Fits

\* insert of one object.
LEMMA InsertFits ==
  ASSUME NEW t, Sound(t), Tuned(t), NEW obj
  PROVE  Fits(insert(t, obj), t)
<1>. DEFINE q == resize_delta(t, 1)
<1>1. /\ Sound(q.ht)
      /\ t.settings.shrink_factor = 0 => t.num_buckets <= q.ht.num_buckets
  BY ResizeDeltaGrows
<1>2. q.res # "length_error" => Fits(insert_noresize(q.ht, obj), t)
  BY <1>1, InsertNoresizePlaces, PlacedFits
<1>. HIDE DEF q
<1>3. q.res = "length_error" => Fits(q, t)
  BY <1>1 DEF Fits
<1>. QED
  BY <1>2, <1>3 DEF insert, q

\* operator[], which leaves a table alone that has the key.
LEMMA FindOrInsertFits ==
  ASSUME NEW t, Sound(t), Tuned(t), NEW k \in Key, Allowed(t, k)
  PROVE  LET r == find_or_insert(t, k)
         IN  \/ r.ht = t /\ r.res \in {"present", "table_full"}
             \/ Fits(r, t) /\ r.res \in {"inserted", "length_error", "table_full"}
<1>. DEFINE q   == resize_delta(t, 1)
            p   == find_position(t, k)
            obj == [key |-> k, val |-> DefaultVal]
            r   == find_or_insert(t, k)
            OK(x) == \/ x.ht = t /\ x.res \in {"present", "table_full"}
                     \/ Fits(x, t) /\ x.res \in {"inserted", "length_error", "table_full"}
<1>1. r = IF search_fails(p) THEN Outcome(t, "table_full")
          ELSE IF p.first # ILLEGAL_BUCKET THEN Outcome(t, "present")
          ELSE IF q.res = "length_error" THEN q
          ELSE IF q.res = "resized" THEN insert_noresize(q.ht, obj)
          ELSE insert_at(q.ht, obj, p.second)
  BY DEF find_or_insert
<1>2. /\ Sound(q.ht)
      /\ t.settings.shrink_factor = 0 => t.num_buckets <= q.ht.num_buckets
  BY ResizeDeltaGrows
<1>3. q.res # "length_error" => /\ Fits(insert_noresize(q.ht, obj), t)
                                /\ Fits(insert_at(q.ht, obj, p.second), t)
  BY <1>2, InsertNoresizePlaces, InsertAtPlaces, PlacedFits
<1>4. Inserted(r, t, obj)
  BY FindOrInsertInserts
<1>5. ~search_fails(p) /\ p.first = ILLEGAL_BUCKET => k \notin Keys(t)
  <2>1. p.first = ILLEGAL_BUCKET /\ p.second # ILLEGAL_BUCKET => Free(t, k, p.second)
    BY FindPosition DEF Allowed
  <2>. QED
    BY <2>1 DEF search_fails, Free, Keys
<1>6. obj.key = k
  OBVIOUS
<1>. HIDE DEF q, p, obj, r
<1>7. CASE search_fails(p) \/ p.first # ILLEGAL_BUCKET
  <2>1. r.ht = t /\ r.res \in {"present", "table_full"}
    BY <1>1, <1>7 DEF Outcome
  <2>. QED
    BY <2>1 DEF r
<1>8. CASE ~search_fails(p) /\ p.first = ILLEGAL_BUCKET
  <2>1. r.res \in {"inserted", "length_error", "table_full"}
    BY <1>4, <1>5, <1>6, <1>8 DEF Inserted
  <2>2. q.res = "length_error" => Fits(q, t)
    BY <1>2 DEF Fits
  <2>3. Fits(r, t)
    BY <1>1, <1>3, <1>8, <2>2
  <2>. QED
    BY <2>1, <2>3 DEF r
<1>. QED
  BY <1>7, <1>8

\* insert of a range: the buckets are those that the one resize left.
LEMMA InsertRangeKeepsSize ==
  ASSUME NEW t, Sound(t), Tuned(t), t.settings.shrink_factor = 0,
         NEW objs, Len(objs) \in Nat,
         \A i \in 1 .. Len(objs) : objs[i] \in Slot /\ Allowed(t, objs[i].key)
  PROVE  t.num_buckets <= insert_range(t, objs).ht.num_buckets
<1>. DEFINE N == Len(objs)
            q == resize_delta(t, N)
            each == insert_each(q.ht, objs)
            OK(r) == /\ Sound(r.ht) /\ SameReserved(r.ht, t)
                     /\ r.ht.num_buckets = q.ht.num_buckets
            Bad == {n \in 0 .. N : ~OK(each[n])}
<1>1. Resized(q, t) /\ t.num_buckets <= q.ht.num_buckets
  BY ResizeDeltaGrows, ResizeDeltaSound
<1>2. /\ each[0] = Outcome(q.ht, "ok")
      /\ \A i \in 1 .. N : each[i] = insert_next(each[i - 1], objs[i])
  BY InsertEachUnfolds
<1>. HIDE DEF each, q
<1>3. OK(each[0])
  BY <1>1, <1>2 DEF Outcome, SameReserved, Resized, SameMap
<1>4. ASSUME NEW i \in 1 .. N, OK(each[i - 1]) PROVE OK(each[i])
  <2>. DEFINE r == each[i - 1]
              u == insert_noresize(r.ht, objs[i])
  <2>1. Allowed(r.ht, objs[i].key)
    BY <1>4 DEF Allowed, SameReserved
  <2>2. Sound(u.ht) /\ SameReserved(u.ht, r.ht) /\ Placed(u, r.ht)
    BY <1>4, <2>1, InsertNoresizeSound, InsertNoresizePlaces
  <2>. HIDE DEF u
  <2>3. OK(u) /\ OK(Outcome(u.ht, "ok"))
    BY <1>4, <2>2 DEF SameReserved, Placed, SameShape, Outcome
  <2>4. insert_next(r, objs[i]) =
          IF r.res = "ok"
          THEN IF u.res \in {"inserted", "present"} THEN Outcome(u.ht, "ok") ELSE u
          ELSE r
    BY DEF insert_next, u
  <2>. HIDE DEF OK
  <2>. QED
    BY <1>2, <1>4, <2>3, <2>4
<1>. HIDE DEF OK
<1>5. Bad = {}
  <2>. SUFFICES ASSUME Bad # {} PROVE FALSE
    OBVIOUS
  <2>. Bad \in SUBSET Nat
    OBVIOUS
  <2>1. PICK n \in Bad : \A m \in Bad : n <= m
    BY LeastNumber
  <2>2. n # 0
    BY <1>3
  <2>3. n \in 1 .. N /\ n - 1 \in 0 .. N /\ ~ (n <= n - 1)
    BY <2>2
  <2>4. OK(each[n - 1])
    BY <2>1, <2>3
  <2>. QED
    BY <1>4, <2>3, <2>4
<1>6. OK(each[N])
  BY <1>5
<1>7. insert_range(t, objs) \in {Outcome(t, "length_error"), q, each[N]}
  BY DEF insert_range, each, q
<1>8. t.num_buckets <= Outcome(t, "length_error").ht.num_buckets
  BY Fields DEF Outcome, Sound
<1>9. t.num_buckets <= each[N].ht.num_buckets
  BY <1>1, <1>6 DEF OK
<1>. QED
  BY <1>1, <1>7, <1>8, <1>9

-----------------------------------------------------------------------------
(* What the calls answer.                                                  *)

\* The object of a call that answers is what the outcome says, the others are
\* left alone.
LEMMA Left ==
  ASSUME DOMAIN ht = Obj, NEW o \in Obj, NEW u, ht' = [ht EXCEPT ![o] = u]
  PROVE  ht'[o] = u /\ \A p \in Obj \ {o} : ht'[p] = ht[p]
OBVIOUS

\* insert, and operator[] with the assignment through what it returned.
LEMMA InsertCall ==
  ASSUME AllSound, AllTuned, NEW o \in Obj, NEW obj \in Items, Insert(o, obj)
  PROVE  \E r : /\ Fits(r, ht[o]) /\ ht' = [ht EXCEPT ![o] = r.ht]
                /\ ret' = <<"insert", o, obj.key, r.res>>
                /\ r.res \in {"inserted", "present", "length_error"}
<1>. DEFINE r == insert(ht[o], obj)
<1>1. Sound(ht[o]) /\ Tuned(ht[o])
  BY DEF AllSound, AllTuned
<1>2. Fits(r, ht[o])
  BY <1>1, InsertFits
<1>3. r.res \in {"inserted", "present", "length_error", "table_full"}
  <2>1. Sound(resize_delta(ht[o], 1).ht)
    BY <1>1, ResizeDeltaGrows
  <2>2. insert_noresize(resize_delta(ht[o], 1).ht, obj).res
          \in {"inserted", "present", "length_error", "table_full"}
    BY <2>1, InsertNoresizePlaces DEF Placed
  <2>. QED
    BY <2>2 DEF insert
<1>4. Answer(o, <<"insert", o, obj.key>>, r)
  BY DEF Insert
<1>. HIDE DEF r
<1>5. Append(<<"insert", o, obj.key>>, r.res) = <<"insert", o, obj.key, r.res>>
  BY AppendToThree
<1>. QED
  BY <1>2, <1>3, <1>4, <1>5 DEF Answer

\* A call of operator[] leaves a table that took at most one object more.
LEMMA SubscriptCall ==
  ASSUME AllSound, AllTuned, NEW o \in Obj, NEW k \in Key, NEW v, Subscript(o, k, v)
  PROVE  \E u, x : /\ ht' = [ht EXCEPT ![o] = u] /\ ret' = <<"subscript", o, k, x>>
                   /\ ht[o].num_buckets < u.num_buckets /\ x # "length_error" =>
                        size(u) >= u.settings.shrink_threshold
                   /\ x # "length_error" /\ k \notin Keys(ht[o]) =>
                        u.num_elements <= u.settings.enlarge_threshold
                   /\ ht[o].settings.shrink_factor = 0 =>
                        ht[o].num_buckets <= u.num_buckets
<1>. DEFINE t == ht[o]
            r == find_or_insert(t, k)
            w == IF r.res \in {"inserted", "present"} THEN AssignThrough(r, k, v) ELSE r
<1>1. Sound(t) /\ Tuned(t) /\ t.num_buckets \in Nat
  BY Fields DEF AllSound, AllTuned, Sound
<1>2. Answer(o, <<"subscript", o, k>>, w)
  BY DEF Subscript
<1>3. /\ \/ r.ht = t /\ r.res \in {"present", "table_full"}
         \/ Fits(r, t) /\ r.res \in {"inserted", "length_error", "table_full"}
      /\ r.res = "present" => k \in Keys(t)
  <2>1. Allowed(t, k)
    BY DEF Subscript, Insertable, Ordinary, Allowed
  <2>2. Inserted(r, t, [key |-> k, val |-> DefaultVal])
    BY <1>1, <2>1, FindOrInsertInserts
  <2>. HIDE DEF r
  <2>3. r.res = "present" => k \in Keys(t)
    BY <2>2 DEF Inserted
  <2>. QED
    BY <1>1, <2>1, <2>3, FindOrInsertFits DEF r
<1>4. DOMAIN r.ht = TableFields
  BY <1>1, FindOrInsertIsTuned DEF Tuned, Tunable
<1>. HIDE DEF r
<1>5. /\ w.ht.num_buckets = r.ht.num_buckets /\ w.ht.settings = r.ht.settings
      /\ size(w.ht) = size(r.ht) /\ w.ht.num_elements = r.ht.num_elements
  BY <1>4 DEF AssignThrough, TableFields, size
<1>6. r.res \notin {"inserted", "present"} => w.res = r.res
  OBVIOUS
<1>7. Append(<<"subscript", o, k>>, w.res) = <<"subscript", o, k, w.res>>
  BY AppendToThree
<1>. HIDE DEF w, t
<1>8. w.res # "table_full" /\ ht' = [ht EXCEPT ![o] = w.ht]
      /\ ret' = <<"subscript", o, k, w.res>>
  BY <1>2, <1>7 DEF Answer
<1>9. /\ t.num_buckets < w.ht.num_buckets /\ w.res # "length_error" =>
           size(w.ht) >= w.ht.settings.shrink_threshold
      /\ w.res # "length_error" /\ k \notin Keys(t) =>
           w.ht.num_elements <= w.ht.settings.enlarge_threshold
      /\ t.settings.shrink_factor = 0 => t.num_buckets <= w.ht.num_buckets
  <2>1. CASE r.ht = t /\ r.res \in {"present", "table_full"}
    BY <1>1, <1>3, <1>5, <1>6, <1>8, <2>1
  <2>2. CASE Fits(r, t) /\ r.res \in {"inserted", "length_error", "table_full"}
    BY <1>5, <1>6, <1>8, <2>2 DEF Fits
  <2>. QED
    BY <1>3, <2>1, <2>2
<1>. QED
  BY <1>8, <1>9 DEF t

\* The other calls, by what they answer first.
LEMMA OtherCalls ==
  ASSUME NEW o \in Obj
  PROVE  /\ \A objs : InsertRange(o, objs) => ret'[1] = "insert_range"
         /\ \A k : Erase(o, k) => ret'[1] = "erase"
         /\ \A pos : EraseAt(o, pos) => ret'[1] = "erase_range"
         /\ \A f, l : EraseRange(o, f, l) => ret'[1] = "erase_range"
         /\ Clear(o) \/ ClearNoResize(o) => ret'[1] = "clear"
         /\ \A n : Construct(o, n) => ret'[1] = "clear"
         /\ \A p : Swap(o, p) => ret'[1] = "swap"
         /\ \A p : Assign(o, p) \/ CopyConstruct(o, p) => ret'[1] = "copy"
         /\ \A k : SetEmptyKey(o, k) \/ SetDeletedKey(o, k) => ret'[1] = "housekeep"
         /\ ClearDeletedKey(o) => ret'[1] = "housekeep"
         /\ \A n : Resize(o, n) => ret'[1] = "resize"
         /\ \A f : \/ SetResizingParameters(o, f[1], f[2])
                   \/ MinLoadFactor(o, f[1]) \/ MaxLoadFactor(o, f[2])
                   => ret'[1] = "housekeep"
<1>1. ASSUME NEW a, NEW r, Answer(o, <<a, o>>, r) PROVE ret'[1] = a
  <2>. DEFINE x == r.res
  <2>1. ret' = Append(<<a, o>>, x)
    BY <1>1 DEF Answer
  <2>. HIDE DEF x
  <2>2. ret' = <<a, o, x>>
    BY <2>1, AppendToTwo
  <2>. QED
    BY <2>2
<1>2. ASSUME NEW a, NEW b, NEW r, Answer(o, <<a, o, b>>, r) PROVE ret'[1] = a
  <2>. DEFINE x == r.res
  <2>1. ret' = Append(<<a, o, b>>, x)
    BY <1>2 DEF Answer
  <2>. HIDE DEF x
  <2>2. ret' = <<a, o, b, x>>
    BY <2>1, AppendToThree
  <2>. QED
    BY <2>2
<1>3. \A u : Housekeep(o, u) => ret'[1] = "housekeep"
  BY <1>1 DEF Housekeep
<1>4. \A objs : InsertRange(o, objs) => ret'[1] = "insert_range"
  BY <1>1 DEF InsertRange
<1>5. \A k : Erase(o, k) => ret'[1] = "erase"
  BY <1>2 DEF Erase
<1>6. /\ \A pos : EraseAt(o, pos) => ret'[1] = "erase_range"
      /\ \A f, l : EraseRange(o, f, l) => ret'[1] = "erase_range"
  BY DEF EraseAt, EraseRange
<1>7. /\ Clear(o) \/ ClearNoResize(o) => ret'[1] = "clear"
      /\ \A n : Construct(o, n) => ret'[1] = "clear"
  BY DEF Clear, ClearNoResize, Construct
<1>8. /\ \A p : Swap(o, p) => ret'[1] = "swap"
      /\ \A p : Assign(o, p) \/ CopyConstruct(o, p) => ret'[1] = "copy"
  BY DEF Swap, Assign, CopyConstruct
<1>9. /\ \A k : SetEmptyKey(o, k) \/ SetDeletedKey(o, k) => ret'[1] = "housekeep"
      /\ ClearDeletedKey(o) => ret'[1] = "housekeep"
  BY <1>3 DEF SetEmptyKey, SetDeletedKey, ClearDeletedKey
<1>10. \A n : Resize(o, n) => ret'[1] = "resize"
  BY <1>1 DEF Resize
<1>11. \A f : \/ SetResizingParameters(o, f[1], f[2])
              \/ MinLoadFactor(o, f[1]) \/ MaxLoadFactor(o, f[2])
              => ret'[1] = "housekeep"
  BY <1>3 DEF SetResizingParameters, MinLoadFactor, MaxLoadFactor
<1>. QED
  BY <1>4, <1>5, <1>6, <1>7, <1>8, <1>9, <1>10, <1>11

\* Every step of the specification is one call of one object, and keeps the
\* invariant.
LEMMA OneStep ==
  ASSUME Next
  PROVE  \E o \in Obj :
           \/ \E obj \in Items : Insert(o, obj)
           \/ \E k \in Key : \E v : Subscript(o, k, v)
           \/ \E objs \in Ranges : InsertRange(o, objs)
           \/ \E k \in Key : Erase(o, k)
           \/ \E pos \in Buckets(ht[o]) : EraseAt(o, pos)
           \/ \E f, l : EraseRange(o, f, l)
           \/ \E n \in Requests : Resize(o, n)
           \/ ret'[1] \in {"clear", "swap", "copy", "housekeep"}
<1>1. PICK o \in Obj :
        \/ \E obj \in Items : Insert(o, obj)
        \/ \E obj \in Items : Subscript(o, obj.key, obj.val)
        \/ \E objs \in Ranges : InsertRange(o, objs)
        \/ \E k \in Key : Erase(o, k)
        \/ \E pos \in Buckets(ht[o]) : EraseAt(o, pos)
        \/ \E f, l : EraseRange(o, f, l)
        \/ Clear(o) \/ ClearNoResize(o)
        \/ \E p \in Obj : Swap(o, p) \/ Assign(o, p) \/ CopyConstruct(o, p)
        \/ \E n \in Expected : Construct(o, n)
        \/ \E k : SetEmptyKey(o, k) \/ SetDeletedKey(o, k)
        \/ ClearDeletedKey(o)
        \/ \E n \in Requests : Resize(o, n)
        \/ \E f \in Factors : \/ SetResizingParameters(o, f[1], f[2])
                              \/ MinLoadFactor(o, f[1]) \/ MaxLoadFactor(o, f[2])
  BY DEF Next
<1>2. \A obj \in Items : obj.key \in Key
  BY ClientAssumption
<1>. QED
  BY <1>1, <1>2, OtherCalls

-----------------------------------------------------------------------------
(* resize.                                                                 *)

\* resize(n): what considering to shrink leaves, or that table grown.
LEMMA ResizeMakes ==
  ASSUME NEW t, Sound(t), Tuned(t), NEW n \in Nat
  PROVE  LET r == resize(t, n)
         IN  /\ t.num_deleted = 0 => HasRoom(r, n)
             /\ t.settings.shrink_factor = 0 => t.num_buckets <= r.ht.num_buckets
             /\ n = 0 => r.ht = maybe_shrink(t).ht
<1>. DEFINE u == IF t.settings.consider_shrink \/ n = 0 THEN maybe_shrink(t).ht ELSE t
            d == n - u.num_elements
            g == resize_delta(u, d)
            r == resize(t, n)
<1>1. t.num_buckets \in BucketCounts /\ t.num_buckets \in Nat
  BY Fields DEF Sound
<1>2. Shrunk(t, t)
  BY <1>1 DEF Shrunk, SameFactors
<1>3. Shrunk(u, t)
  BY <1>2, MaybeShrinkShrinks
<1>4. r = IF n > u.num_elements THEN g ELSE Outcome(u, "kept")
  BY DEF resize
<1>5. n = 0 => u = maybe_shrink(t).ht
  OBVIOUS
<1>. HIDE DEF u, g, r
<1>6. /\ u.num_elements \in Nat /\ u.num_deleted \in Nat /\ u.num_buckets \in Nat
      /\ Sound(u) /\ Tuned(u) /\ SameFactors(u, t)
  BY <1>3, Fields DEF Shrunk, Sound
<1>7. CASE n > u.num_elements
  <2>1. d \in Nat
    BY <1>6, <1>7
  <2>2. /\ Sound(g.ht) /\ size(g.ht) = size(u)
        /\ u.num_deleted = 0 => g.ht.num_deleted = 0
        /\ g.res # "length_error" =>
             g.ht.num_elements + d <= g.ht.settings.enlarge_threshold
        /\ u.settings.shrink_factor = 0 => u.num_buckets <= g.ht.num_buckets
    BY <1>6, <2>1, ResizeDeltaGrows DEF g
  <2>3. r = g
    BY <1>4, <1>7
  <2>4. ASSUME t.num_deleted = 0 PROVE HasRoom(r, n)
    <3>1. u.num_deleted = 0 /\ g.ht.num_deleted = 0
      BY <1>3, <2>2, <2>4 DEF Shrunk
    <3>2. g.ht.num_elements = u.num_elements
      BY <1>6, <2>2, <3>1, Fields DEF size, Sound
    <3>3. g.ht.num_elements + d = n
      BY <1>6, <3>2
    <3>. QED
      BY <2>2, <2>3, <3>3 DEF HasRoom
  <2>5. t.settings.shrink_factor = 0 => t.num_buckets <= r.ht.num_buckets
    BY <1>3, <2>2, <2>3 DEF Shrunk, SameFactors
  <2>6. n # 0
    BY <1>6, <1>7
  <2>. QED
    BY <2>4, <2>5, <2>6 DEF r
<1>8. CASE ~(n > u.num_elements)
  <2>1. r.ht = u
    BY <1>4, <1>8 DEF Outcome
  <2>2. HasRoom(r, n)
    BY <1>6, <1>8, <2>1 DEF HasRoom
  <2>3. t.settings.shrink_factor = 0 => t.num_buckets <= r.ht.num_buckets
    BY <1>1, <1>3, <2>1 DEF Shrunk
  <2>. QED
    BY <1>5, <2>1, <2>2, <2>3 DEF r
<1>. QED
  BY <1>7, <1>8

\* The invariant that the following theorems rest on.
LEMMA SoundAndTuned ==
  /\ Init => AllSound /\ AllTuned
  /\ AllSound /\ AllTuned /\ [Next]_vars => (AllSound /\ AllTuned)'
BY InitSound, InitTuned, NextSound, NextTuned

\* resize(n) makes room: a table without deleted buckets takes n objects after
\* it before it grows again, whether the call shrank it first, grew it or both,
\* and whatever load factors are in use; or it threw.
THEOREM ResizeAlwaysMakesRoom == Spec => []ResizeMakesRoom
<1>1. AllSound /\ AllTuned => ResizeMakesRoom
  <2>. SUFFICES ASSUME AllSound, AllTuned, NEW o \in Obj, NEW n \in Requests,
                       ht[o].num_deleted = 0
                PROVE  HasRoom(resize(ht[o], n), n)
    BY DEF ResizeMakesRoom
  <2>1. Sound(ht[o]) /\ Tuned(ht[o]) /\ n \in Nat
    BY ClientAssumption, SizesAssumption DEF AllSound, AllTuned
  <2>. QED
    BY <2>1, ResizeMakes
<1>. QED
  BY <1>1, SoundAndTuned, PTL DEF Spec

\* resize(0) compacts in one call: it ends with a table as full as the shrink
\* threshold wants or no larger than the default, never a larger one, and with
\* every object.
THEOREM CompactionAlwaysEnds == Spec => []CompactionEnds
<1>1. AllSound /\ AllTuned => CompactionEnds
  <2>. SUFFICES ASSUME AllSound, AllTuned, NEW o \in Obj
                PROVE  LET t == resize(ht[o], 0).ht
                       IN  /\ t.num_buckets <= ht[o].num_buckets
                           /\ \/ t.num_buckets <= HT_DEFAULT_STARTING_BUCKETS
                              \/ size(t) >= t.settings.shrink_threshold
                           /\ size(t) = size(ht[o])
    BY DEF CompactionEnds
  <2>1. Sound(ht[o]) /\ Tuned(ht[o]) /\ 0 \in Nat
    BY DEF AllSound, AllTuned
  <2>2. resize(ht[o], 0).ht = maybe_shrink(ht[o]).ht
    BY <2>1, ResizeMakes
  <2>. QED
    BY <2>1, <2>2, MaybeShrinkShrinks DEF Shrunk
<1>. QED
  BY <1>1, SoundAndTuned, PTL DEF Spec

-----------------------------------------------------------------------------
(* What a step may never do.                                               *)

\* insert(), and operator[] of a new key, leave no more buckets in use, the
\* deleted ones counted in, than the grow factor allows: room is made before the
\* object is put in, even when the factor was lowered or deleted buckets piled up
\* since the last one.
THEOREM InsertionsBoundLoad == Spec => InsertionBoundsLoad
<1>1. ASSUME AllSound, AllTuned, Next, NEW o \in Obj, Inserting(o),
             ret'[1] = "insert" \/ ret'[3] \notin Keys(ht[o])
      PROVE  ht'[o].num_elements <= ht'[o].settings.enlarge_threshold
  <2>1. PICK p \in Obj : \/ \E obj \in Items : Insert(p, obj)
                         \/ \E k \in Key : \E v : Subscript(p, k, v)
    BY <1>1, OneStep, OtherCalls DEF Inserting
  <2>2. CASE \E obj \in Items : Insert(p, obj)
    <3>1. PICK r : /\ Fits(r, ht[p]) /\ ht' = [ht EXCEPT ![p] = r.ht]
                   /\ \E k : ret' = <<"insert", p, k, r.res>>
      BY <1>1, <2>2, InsertCall
    <3>2. p = o /\ r.res # "length_error"
      BY <1>1, <3>1 DEF Inserting
    <3>3. ht'[o] = r.ht
      BY <1>1, <3>1, <3>2, Left DEF AllSound
    <3>. QED
      BY <3>1, <3>2, <3>3 DEF Fits
  <2>3. CASE \E k \in Key : \E v : Subscript(p, k, v)
    <3>1. PICK k \in Key : \E v : Subscript(p, k, v)
      BY <2>3
    <3>2. PICK u, x : /\ ht' = [ht EXCEPT ![p] = u] /\ ret' = <<"subscript", p, k, x>>
                      /\ x # "length_error" /\ k \notin Keys(ht[p]) =>
                           u.num_elements <= u.settings.enlarge_threshold
      BY <1>1, <3>1, SubscriptCall
    <3>3. p = o /\ x # "length_error" /\ k \notin Keys(ht[o])
      BY <1>1, <3>2 DEF Inserting
    <3>4. ht'[o] = u
      BY <1>1, <3>2, <3>3, Left DEF AllSound
    <3>. QED
      BY <3>2, <3>3, <3>4
  <2>. QED
    BY <2>1, <2>2, <2>3
<1>2. AllSound /\ AllTuned /\ [Next]_vars =>
        [\A o \in Obj : Inserting(o) /\ (ret'[1] = "insert" \/ ret'[3] \notin Keys(ht[o])) =>
           ht'[o].num_elements <= ht'[o].settings.enlarge_threshold]_vars
  BY <1>1
<1>. QED
  BY <1>2, SoundAndTuned, PTL DEF Spec, InsertionBoundsLoad

\* A table that grew for a new key is full enough not to shrink at once: the
\* least size with room is, and twice that is taken only if it would be.
THEOREM SizesNeverThrash == Spec => NoThrashing
<1>1. ASSUME AllSound, AllTuned, Next, NEW o \in Obj, Inserting(o), ret'[4] # "present",
             ht'[o].num_buckets > ht[o].num_buckets
      PROVE  size(ht'[o]) >= ht'[o].settings.shrink_threshold
  <2>1. PICK p \in Obj : \/ \E obj \in Items : Insert(p, obj)
                         \/ \E k \in Key : \E v : Subscript(p, k, v)
    BY <1>1, OneStep, OtherCalls DEF Inserting
  <2>2. CASE \E obj \in Items : Insert(p, obj)
    <3>1. PICK r : /\ Fits(r, ht[p]) /\ ht' = [ht EXCEPT ![p] = r.ht]
                   /\ \E k : ret' = <<"insert", p, k, r.res>>
                   /\ r.res \in {"inserted", "present", "length_error"}
      BY <1>1, <2>2, InsertCall
    <3>2. p = o /\ r.res = "inserted"
      BY <1>1, <3>1 DEF Inserting
    <3>3. ht'[o] = r.ht
      BY <1>1, <3>1, <3>2, Left DEF AllSound
    <3>4. ht[o].num_buckets < r.ht.num_buckets
      BY <1>1, <3>3
    <3>. QED
      BY <3>1, <3>2, <3>3, <3>4 DEF Fits
  <2>3. CASE \E k \in Key : \E v : Subscript(p, k, v)
    <3>1. PICK u, x : /\ ht' = [ht EXCEPT ![p] = u]
                      /\ \E k : ret' = <<"subscript", p, k, x>>
                      /\ ht[p].num_buckets < u.num_buckets /\ x # "length_error" =>
                           size(u) >= u.settings.shrink_threshold
      BY <1>1, <2>3, SubscriptCall
    <3>2. p = o /\ x # "length_error"
      BY <1>1, <3>1 DEF Inserting
    <3>3. ht'[o] = u
      BY <1>1, <3>1, <3>2, Left DEF AllSound
    <3>. QED
      BY <1>1, <3>1, <3>2, <3>3
  <2>. QED
    BY <2>1, <2>2, <2>3
<1>2. AllSound /\ AllTuned /\ [Next]_vars =>
        [\A o \in Obj :
           Inserting(o) /\ ret'[4] # "present" /\ ht'[o].num_buckets > ht[o].num_buckets =>
             size(ht'[o]) >= ht'[o].settings.shrink_threshold]_vars
  BY <1>1
<1>. QED
  BY <1>2, SoundAndTuned, PTL DEF Spec, NoThrashing

\* u has some of the objects of t, each where it was.
KeepsPlaces(u, t) ==
  /\ u.num_buckets = t.num_buckets
  /\ LiveBuckets(u) \subseteq LiveBuckets(t)
  /\ \A i \in LiveBuckets(u) : u.table[i] = t.table[i]

\* Every way to erase leaves the other objects where they are.
LEMMA ErasuresKeepPlaces ==
  ASSUME AllSound, NEW p \in Obj,
         \/ \E k \in Key : Erase(p, k)
         \/ \E pos \in Buckets(ht[p]) : EraseAt(p, pos)
         \/ \E f, l : EraseRange(p, f, l)
  PROVE  \A o \in Obj : KeepsPlaces(ht'[o], ht[o])
<1>. DEFINE t == ht[p]
<1>1. Sound(t) /\ DOMAIN ht = Obj
  BY DEF AllSound
<1>2. \A i : i \in LiveBuckets(t) \/ test_deleted(t, i) => t.settings.use_empty
  BY <1>1 DEF Sound, Blank, LiveBuckets, test_deleted
<1>3. \A u : KeepsPlaces(u, u)
  BY DEF KeepsPlaces
<1>4. ASSUME NEW u, KeepsPlaces(u, t), ht' = [ht EXCEPT ![p] = u]
      PROVE  \A o \in Obj : KeepsPlaces(ht'[o], ht[o])
  <2>1. ht'[p] = u /\ \A o \in Obj \ {p} : ht'[o] = ht[o]
    BY <1>1, <1>4, Left
  <2>. QED
    BY <1>3, <1>4, <2>1
<1>5. ASSUME NEW pos \in Buckets(t), t.settings.use_deleted,
             pos \in LiveBuckets(t) \/ test_deleted(t, pos)
      PROVE  KeepsPlaces(erase_at(t, pos), t)
  <2>1. /\ LiveBuckets(erase_at(t, pos)) = LiveBuckets(t) \ {pos}
        /\ erase_at(t, pos).num_buckets = t.num_buckets
        /\ \A i \in LiveBuckets(t) \ {pos} : erase_at(t, pos).table[i] = t.table[i]
    BY <1>1, <1>2, <1>5, EraseAtErases
  <2>. QED
    BY <2>1 DEF KeepsPlaces
<1>6. ASSUME NEW k \in Key, Erase(p, k)
      PROVE  \E u : KeepsPlaces(u, t) /\ ht' = [ht EXCEPT ![p] = u]
  <2>. DEFINE q == find_position(t, k)
              r == erase(t, k)
  <2>1. /\ t.settings.use_deleted /\ ht' = [ht EXCEPT ![p] = r.ht]
    BY <1>6 DEF Erase, Answer
  <2>2. r.ht = IF size(t) = 0 \/ search_fails(q) \/ q.first = ILLEGAL_BUCKET
               THEN t ELSE erase_at(t, q.first)
    BY DEF erase, Outcome
  <2>3. t.settings.use_empty /\ q.first # ILLEGAL_BUCKET =>
          q.first \in LiveBuckets(t) /\ q.first \in Buckets(t)
    BY <1>1, FindPosition DEF LiveBuckets
  <2>4. size(t) # 0 => t.settings.use_empty
    BY <1>1 DEF Sound, Blank, size
  <2>. HIDE DEF q, r, t
  <2>5. KeepsPlaces(r.ht, t)
    BY <1>3, <1>5, <2>1, <2>2, <2>3, <2>4
  <2>. QED
    BY <2>1, <2>5
<1>7. ASSUME NEW pos \in Buckets(t), EraseAt(p, pos)
      PROVE  \E u : KeepsPlaces(u, t) /\ ht' = [ht EXCEPT ![p] = u]
  BY <1>5, <1>7 DEF EraseAt
<1>8. ASSUME NEW f, NEW l, EraseRange(p, f, l)
      PROVE  \E u : KeepsPlaces(u, t) /\ ht' = [ht EXCEPT ![p] = u]
  <2>. DEFINE u == erase_range(t, f, l)
              S == {i \in LiveBuckets(t) : f <= i /\ i < l}
  <2>1. /\ t.settings.use_deleted /\ f \in LiveBuckets(t)
        /\ ht' = [ht EXCEPT ![p] = u]
    BY <1>8 DEF EraseRange
  <2>2. LiveBuckets(u) = LiveBuckets(t) \ S
    BY <1>1, <1>2, <2>1, EraseRangeSound
  <2>3. t \in TableOf(t.num_buckets)
    BY <1>1, Fields DEF Sound
  <2>4. /\ u.table = [i \in Buckets(t) |-> IF i \in S THEN DeletedBucket(t) ELSE t.table[i]]
        /\ u.num_buckets = t.num_buckets
    BY <2>3 DEF erase_range, TableOf
  <2>. HIDE DEF S, u
  <2>5. \A i \in LiveBuckets(t) \ S : u.table[i] = t.table[i]
    BY <2>4 DEF LiveBuckets
  <2>6. KeepsPlaces(u, t)
    BY <2>2, <2>4, <2>5 DEF KeepsPlaces
  <2>. QED
    BY <2>1, <2>6
<1>. HIDE DEF t
<1>. QED
  BY <1>4, <1>6, <1>7, <1>8 DEF t

\* Erasing moves, changes or copies no other object, and makes no place live.
THEOREM ErasuresKeepIterators == Spec => EraseKeepsIterators
<1>1. ASSUME AllSound, AllTuned, Next, ret'[1] \in {"erase", "erase_range"}
      PROVE  \A o \in Obj : KeepsPlaces(ht'[o], ht[o])
  <2>1. PICK p \in Obj : \/ \E k \in Key : Erase(p, k)
                         \/ \E pos \in Buckets(ht[p]) : EraseAt(p, pos)
                         \/ \E f, l : EraseRange(p, f, l)
    <3>1. \A p \in Obj : /\ \A k \in Key : \A v : Subscript(p, k, v) => ret'[1] = "subscript"
                         /\ \A obj \in Items : Insert(p, obj) => ret'[1] = "insert"
      BY <1>1, SubscriptCall, InsertCall
    <3>. QED
      BY <1>1, <3>1, OneStep, OtherCalls
  <2>. QED
    BY <1>1, <2>1, ErasuresKeepPlaces
<1>2. AllSound /\ AllTuned /\ [Next]_vars =>
        [ret'[1] \in {"erase", "erase_range"} =>
           \A o \in Obj :
             /\ ht'[o].num_buckets = ht[o].num_buckets
             /\ LiveBuckets(ht'[o]) \subseteq LiveBuckets(ht[o])
             /\ \A i \in LiveBuckets(ht'[o]) : ht'[o].table[i] = ht[o].table[i]]_vars
  BY <1>1 DEF KeepsPlaces
<1>. QED
  BY <1>2, SoundAndTuned, PTL DEF Spec, EraseKeepsIterators

\* Under a shrink factor of 0 a table keeps its buckets: it has a threshold of
\* 0, below which there is nothing, and only the calls that are about clearing,
\* copying or the deleted key make it smaller.
THEOREM NothingShrinksAtZero == Spec => NeverShrinksAtZero
<1>. DEFINE Calls == {"insert", "insert_range", "subscript", "erase", "erase_range",
                      "resize"}
<1>1. ASSUME AllSound, AllTuned, Next, NEW o \in Obj, ret'[1] \in Calls,
             ht[o].settings.shrink_factor = 0
      PROVE  ht'[o].num_buckets >= ht[o].num_buckets
  <2>1. ht[o].num_buckets \in Nat /\ DOMAIN ht = Obj
    BY <1>1, Fields DEF AllSound, Sound
  <2>2. PICK p \in Obj :
          \/ \E obj \in Items : Insert(p, obj)
          \/ \E k \in Key : \E v : Subscript(p, k, v)
          \/ \E objs \in Ranges : InsertRange(p, objs)
          \/ \E k \in Key : Erase(p, k)
          \/ \E pos \in Buckets(ht[p]) : EraseAt(p, pos)
          \/ \E f, l : EraseRange(p, f, l)
          \/ \E n \in Requests : Resize(p, n)
    BY <1>1, OneStep
  <2>. DEFINE t == ht[p]
  <2>3. Sound(t) /\ Tuned(t)
    BY <1>1 DEF AllSound, AllTuned
  <2>4. ASSUME NEW u, ht' = [ht EXCEPT ![p] = u],
               t.settings.shrink_factor = 0 => t.num_buckets <= u.num_buckets
        PROVE  ht'[o].num_buckets >= ht[o].num_buckets
    <3>1. ht'[p] = u /\ \A q \in Obj \ {p} : ht'[q] = ht[q]
      BY <2>1, <2>4, Left
    <3>2. CASE o = p
      <4>1. t.num_buckets <= u.num_buckets
        BY <1>1, <2>4, <3>2
      <4>. QED
        BY <3>1, <3>2, <4>1
    <3>3. CASE o # p
      BY <2>1, <3>1, <3>3
    <3>. QED
      BY <3>2, <3>3
  <2>5. CASE \E obj \in Items : Insert(p, obj)
    <3>1. PICK r : Fits(r, t) /\ ht' = [ht EXCEPT ![p] = r.ht]
      BY <1>1, <2>5, InsertCall
    <3>. QED
      BY <2>4, <3>1 DEF Fits
  <2>6. CASE \E k \in Key : \E v : Subscript(p, k, v)
    <3>1. PICK u : /\ ht' = [ht EXCEPT ![p] = u]
                   /\ t.settings.shrink_factor = 0 => t.num_buckets <= u.num_buckets
      BY <1>1, <2>6, SubscriptCall
    <3>. QED
      BY <2>4, <3>1
  <2>7. CASE \E objs \in Ranges : InsertRange(p, objs)
    <3>1. PICK objs \in Ranges : InsertRange(p, objs)
      BY <2>7
    <3>2. /\ Len(objs) \in Nat
          /\ \A i \in 1 .. Len(objs) : objs[i] \in Slot /\ Allowed(t, objs[i].key)
      <4>1. objs \in Seq(Slot)
        BY ClientAssumption DEF Slot
      <4>. QED
        BY <3>1, <4>1 DEF InsertRange, Insertable, Ordinary, Allowed
    <3>3. ht' = [ht EXCEPT ![p] = insert_range(t, objs).ht]
      BY <3>1 DEF InsertRange, Answer
    <3>4. t.settings.shrink_factor = 0 =>
            t.num_buckets <= insert_range(t, objs).ht.num_buckets
      BY <2>3, <3>2, InsertRangeKeepsSize
    <3>. HIDE DEF t
    <3>. QED
      BY <2>4, <3>3, <3>4
  <2>8. CASE \/ \E k \in Key : Erase(p, k)
             \/ \E pos \in Buckets(ht[p]) : EraseAt(p, pos)
             \/ \E f, l : EraseRange(p, f, l)
    <3>1. KeepsPlaces(ht'[o], ht[o])
      BY <1>1, <2>8, ErasuresKeepPlaces
    <3>. QED
      BY <2>1, <3>1 DEF KeepsPlaces
  <2>9. CASE \E n \in Requests : Resize(p, n)
    <3>1. PICK n \in Requests : Resize(p, n)
      BY <2>9
    <3>2. n \in Nat
      BY ClientAssumption, SizesAssumption
    <3>3. ht' = [ht EXCEPT ![p] = resize(t, n).ht]
      BY <3>1 DEF Resize, Answer
    <3>4. t.settings.shrink_factor = 0 => t.num_buckets <= resize(t, n).ht.num_buckets
      BY <2>3, <3>2, ResizeMakes
    <3>. HIDE DEF t
    <3>. QED
      BY <2>4, <3>3, <3>4
  <2>. HIDE DEF t
  <2>. QED
    BY <2>2, <2>5, <2>6, <2>7, <2>8, <2>9 DEF t
<1>2. AllSound /\ AllTuned /\ [Next]_vars =>
        [\A o \in Obj :
           /\ ret'[1] \in {"insert", "insert_range", "subscript", "erase", "erase_range",
                           "resize"}
           /\ ht[o].settings.shrink_factor = 0
           => ht'[o].num_buckets >= ht[o].num_buckets]_vars
  BY <1>1
<1>. QED
  BY <1>2, SoundAndTuned, PTL DEF Spec, NeverShrinksAtZero

-----------------------------------------------------------------------------
(***************************************************************************)
(* A churn never makes its table larger than its window asks for, whatever *)
(* the window (DenseChurn).  A table doubles for one of two reasons.  Its  *)
(* objects need the room: then half as many buckets are too few for them,  *)
(* and they are no more than the window.  Or too few of its buckets are    *)
(* deleted, at most about a third of the load: then the objects are the    *)
(* others, and again they are no more than the window.                     *)
(***************************************************************************)

-----------------------------------------------------------------------------
(* Sizes.                                                                  *)

\* A grow factor of 50% lets half of the buckets be in use.
LEMMA HalfInUse ==
  ASSUME NEW s, s.enlarge_factor = HT_OCCUPANCY_PCT, NEW n \in BucketCounts
  PROVE  n \in Nat /\ n >= 4 /\ enlarge_size(s, n) \in Nat /\ 2 * enlarge_size(s, n) = n
<1>1. n \in Nat /\ IsPowerOfTwo(n) /\ n >= 4
  BY BucketCountIsPower, SizesAssumption DEF BucketCounts
<1>2. PICK h \in Nat : n = 2 * h
  <2>1. n > 1
    BY <1>1
  <2>. QED
    BY <1>1, <2>1, HalfOfPower
<1>3. enlarge_size(s, n) = (n * 50) \div 100
  BY DEF enlarge_size, HT_OCCUPANCY_PCT
<1>4. (n * 50) \div 100 = h
  <2>1. n * 50 = 100 * h
    BY <1>2
  <2>2. (100 * h) \div 100 = h
    OBVIOUS
  <2>. QED
    BY <2>1, <2>2
<1>. QED
  BY <1>1, <1>2, <1>3, <1>4

\* The least size with room for num objects, if it is not the size wanted, is
\* at most four times as many.
LEMMA FourTimes ==
  ASSUME NEW s, s.enlarge_factor = HT_OCCUPANCY_PCT, NEW num \in Nat,
         NEW wanted \in BucketCounts, NEW b \in BucketCounts, wanted < b,
         \A m \in BucketCounts : wanted <= m /\ m < b => num >= enlarge_size(s, m)
  PROVE  b <= 4 * num
<1>1. /\ wanted \in Nat /\ b \in Nat /\ IsPowerOfTwo(wanted) /\ IsPowerOfTwo(b)
      /\ wanted > 0 /\ HT_MIN_BUCKETS <= wanted /\ b <= SizeMax
      /\ HT_MIN_BUCKETS \in Nat /\ SizeMax \in Nat
  BY BucketCountIsPower, SizesAssumption DEF BucketCounts
<1>2. 2 * wanted <= b
  BY <1>1, PowersApart
<1>3. PICK h \in Nat : b = 2 * h /\ h < b /\ IsPowerOfTwo(h)
  BY <1>1, <1>2, HalfOfPower
<1>4. wanted <= h /\ h \in HT_MIN_BUCKETS .. SizeMax
  BY <1>1, <1>2, <1>3
<1>5. h \in BucketCounts
  BY <1>3, <1>4 DEF BucketCounts
<1>6. num >= enlarge_size(s, h) /\ 2 * enlarge_size(s, h) = h /\ enlarge_size(s, h) \in Nat
  BY <1>3, <1>4, <1>5, HalfInUse
<1>. QED
  BY <1>3, <1>6

-----------------------------------------------------------------------------
(* The table.                                                              *)

\* The table of the churn between two calls.
Churning(t) ==
  /\ Sound(t) /\ Tuned(t)
  /\ t.settings.use_empty /\ t.emptykey = EmptyKey
  /\ t.settings.use_deleted /\ t.delkey = DeletedKey
  /\ t.settings.shrink_factor = 0 /\ t.settings.enlarge_factor = HT_OCCUPANCY_PCT
  /\ t.num_elements <= t.settings.enlarge_threshold
  /\ t.num_buckets < 4 * (Window + 8)

\* Its counters, as numbers.
LEMMA ChurningCounts ==
  ASSUME NEW t, Churning(t)
  PROVE  /\ t.num_buckets \in BucketCounts /\ t.num_buckets \in Nat /\ t.num_buckets >= 4
         /\ t.num_elements \in Nat /\ t.num_deleted \in Nat /\ size(t) \in Nat
         /\ size(t) = t.num_elements - t.num_deleted
         /\ 2 * t.num_elements <= t.num_buckets
         /\ t.settings.enlarge_threshold = enlarge_size(t.settings, t.num_buckets)
         /\ t.settings.shrink_threshold = 0
<1>1. Sound(t) /\ Tuned(t) /\ IsTable(t) /\ t.settings.enlarge_factor = HT_OCCUPANCY_PCT
      /\ t.settings.shrink_factor = 0 /\ t.num_elements <= t.settings.enlarge_threshold
  BY DEF Churning, Sound
<1>2. /\ t.num_buckets \in BucketCounts /\ t.num_elements \in Nat /\ t.num_deleted \in Nat
      /\ size(t) \in Nat
  BY <1>1, Fields, SizeFits
<1>3. /\ t.num_buckets \in Nat /\ t.num_buckets >= 4
      /\ enlarge_size(t.settings, t.num_buckets) \in Nat
      /\ 2 * enlarge_size(t.settings, t.num_buckets) = t.num_buckets
  BY <1>1, <1>2, HalfInUse
<1>4. /\ t.settings.enlarge_threshold = enlarge_size(t.settings, t.num_buckets)
      /\ t.settings.shrink_threshold = shrink_size(t.settings, t.num_buckets)
  BY <1>1 DEF Tuned, in_sync
<1>5. shrink_size(t.settings, t.num_buckets) = 0
  <2>1. \A n \in Nat : (n * 0) \div 100 = 0
    OBVIOUS
  <2>. QED
    BY <1>1, <1>3, <2>1 DEF shrink_size
<1>. QED
  BY <1>1, <1>2, <1>3, <1>4, <1>5 DEF size

\* maybe_shrink does nothing to it but drop the request.
LEMMA ChurnNeverShrinks ==
  ASSUME NEW t, Churning(t)
  PROVE  /\ Churning(maybe_shrink(t).ht) /\ maybe_shrink(t).res = "kept"
         /\ size(maybe_shrink(t).ht) = size(t)
<1>. DEFINE r == maybe_shrink(t)
<1>1. t.settings.shrink_threshold = 0 /\ Sound(t) /\ Tuned(t) /\ t \in TableOf(t.num_buckets)
  BY ChurningCounts, Fields DEF Churning, Sound
<1>2. r = Outcome([t EXCEPT !.settings.consider_shrink = FALSE], "kept")
  BY <1>1 DEF maybe_shrink
<1>3. /\ r.ht = [t EXCEPT !.settings.consider_shrink = FALSE] /\ r.res = "kept"
  BY <1>2 DEF Outcome
<1>4. /\ r.ht.num_buckets = t.num_buckets /\ r.ht.num_elements = t.num_elements
      /\ r.ht.num_deleted = t.num_deleted
      /\ r.ht.settings.shrink_factor = t.settings.shrink_factor
      /\ r.ht.settings.enlarge_threshold = t.settings.enlarge_threshold
  BY <1>1, <1>3 DEF TableOf, Settings
<1>5. Sound(r.ht) /\ SameMap(r.ht, t)
  BY <1>1, MaybeShrinkSound DEF Resized
<1>6. Tuned(r.ht)
  BY <1>1, MaybeShrinkIsTuned
<1>. HIDE DEF r
<1>7. Churning(r.ht)
  BY <1>4, <1>5, <1>6 DEF Churning, SameMap
<1>. QED
  BY <1>3, <1>4, <1>7 DEF r, size

\* What a growing table is rehashed into: room for one more object and no more
\* than the window asks for.
LEMMA ChurnResizesTo ==
  ASSUME NEW t, Churning(t), size(t) < Window
  PROVE  LET to == resize_to(t, 1)
         IN  /\ to \in BucketCounts /\ to < 4 * (Window + 8)
             /\ size(t) < enlarge_size(t.settings, to)
<1>. DEFINE s    == t.settings
            N    == t.num_buckets
            n    == t.num_elements
            fits == min_buckets(s, size(t) + 1, N)
            load == n - t.num_deleted \div 4 + 1
            needed == min_buckets(s, load, 0)
            to   == resize_to(t, 1)
<1>1. /\ N \in BucketCounts /\ N \in Nat /\ N >= 4 /\ n \in Nat /\ t.num_deleted \in Nat
      /\ size(t) \in Nat /\ size(t) = n - t.num_deleted /\ 2 * n <= N
  BY ChurningCounts
<1>2. /\ s.enlarge_factor = HT_OCCUPANCY_PCT /\ s.enlarge_factor \in Percent
      /\ N < 4 * (Window + 8)
  BY DEF Churning, HT_OCCUPANCY_PCT, Percent
<1>3. Window \in Nat /\ 8 * (Window + 8) <= SizeMax /\ SizeMax \in Nat
  BY ChurnAssumption, SizesAssumption
<1>. HIDE DEF N, n, s
<1>4. /\ N * 2 \in BucketCounts /\ N * 2 \in Nat /\ enlarge_size(s, N * 2) = N
  <2>1. N < SizeMax \div 2
    BY <1>1, <1>2, <1>3
  <2>2. N * 2 \in BucketCounts
    BY <1>1, <2>1, TwiceASize
  <2>3. N * 2 \in Nat /\ enlarge_size(s, N * 2) \in Nat /\ 2 * enlarge_size(s, N * 2) = N * 2
    BY <1>2, <2>2, HalfInUse
  <2>. QED
    BY <1>1, <2>2, <2>3
<1>5. load \in Nat /\ load <= n + 1 /\ n + 1 < N /\ 4 * load <= 3 * n + size(t) + 7
  <2>1. \A d \in Nat : d \div 4 \in Nat /\ 4 * (d \div 4) <= d /\ d <= 4 * (d \div 4) + 3
    OBVIOUS
  <2>2. /\ t.num_deleted \div 4 \in Nat /\ 4 * (t.num_deleted \div 4) <= t.num_deleted
        /\ t.num_deleted <= 4 * (t.num_deleted \div 4) + 3
    BY <1>1, <2>1
  <2>. QED
    BY <1>1, <2>2
<1>. HIDE DEF load
<1>6. /\ fits \in BucketCounts /\ N <= fits /\ size(t) + 1 < enlarge_size(s, fits)
      /\ \A m \in BucketCounts : N <= m /\ m < fits => size(t) + 1 >= enlarge_size(s, m)
  <2>1. size(t) + 1 \in Nat /\ N <= N * 2 /\ size(t) + 1 < enlarge_size(s, N * 2)
    BY <1>1, <1>4, <1>5
  <2>. QED
    BY <1>1, <1>2, <1>4, <2>1, LeastSize
<1>7. \A m \in BucketCounts : 0 <= m /\ m < needed => load >= enlarge_size(s, m)
  <2>1. 0 \in Nat /\ 0 <= N * 2 /\ load < enlarge_size(s, N * 2)
    BY <1>1, <1>4, <1>5
  <2>. QED
    BY <1>2, <1>4, <1>5, <2>1, LeastSize
<1>8. \/ to = fits
      \/ to = fits * 2 /\ fits < needed /\ fits < SizeMax \div 2
  BY DEF resize_to, N, n, s, load
<1>. HIDE DEF fits, needed, to
<1>9. /\ fits \in Nat /\ enlarge_size(s, fits) \in Nat /\ 2 * enlarge_size(s, fits) = fits
  BY <1>2, <1>6, HalfInUse
<1>10. fits = N \/ fits <= 4 * (size(t) + 1)
  <2>1. N < fits => fits <= 4 * (size(t) + 1)
    BY <1>1, <1>2, <1>6, FourTimes
  <2>. QED
    BY <1>1, <1>6, <1>9, <2>1
<1>11. fits < 4 * (Window + 8)
  BY <1>1, <1>2, <1>3, <1>9, <1>10
<1>12. ASSUME to = fits * 2, fits < needed, fits < SizeMax \div 2
       PROVE  to \in BucketCounts /\ to < 4 * (Window + 8) /\ size(t) < enlarge_size(s, to)
  <2>1. to \in BucketCounts
    BY <1>6, <1>12, TwiceASize
  <2>2. load >= enlarge_size(s, fits)
    BY <1>6, <1>7, <1>9, <1>12
  <2>3. 4 * load >= 2 * fits
    BY <1>5, <1>9, <2>2
  <2>4. 2 * n <= fits
    BY <1>1, <1>6, <1>9
  <2>5. to < 4 * (Window + 8)
    BY <1>1, <1>3, <1>5, <1>9, <1>12, <2>3, <2>4
  <2>6. 2 * enlarge_size(s, to) = to /\ enlarge_size(s, to) \in Nat /\ to \in Nat
    BY <1>2, <2>1, HalfInUse
  <2>7. size(t) < enlarge_size(s, to)
    BY <1>1, <1>6, <1>9, <1>12, <2>6
  <2>. QED
    BY <2>1, <2>5, <2>7
<1>13. to \in BucketCounts /\ to < 4 * (Window + 8) /\ size(t) < enlarge_size(s, to)
  BY <1>1, <1>6, <1>8, <1>9, <1>11, <1>12
<1>. QED
  BY <1>13 DEF to, s

\* The table still churns after it grew, if it had to, and never throws.
LEMMA ChurnGrows ==
  ASSUME NEW t, Churning(t), size(t) < Window
  PROVE  LET r == resize_delta(t, 1)
         IN  /\ r.res # "length_error"
             /\ r.ht.num_buckets < 4 * (Window + 8)
             /\ SameFactors(r.ht, t)
<1>. DEFINE u  == IF t.settings.consider_shrink THEN maybe_shrink(t) ELSE Outcome(t, "kept")
            b  == u.ht
            s  == b.settings
            n  == b.num_elements
            to == resize_to(b, 1)
            c  == swapped(copy_of(b, to))
            r  == resize_delta(t, 1)
            OK(x) == /\ x.res # "length_error" /\ x.ht.num_buckets < 4 * (Window + 8)
                     /\ SameFactors(x.ht, t)
<1>1. Churning(b) /\ size(b) = size(t) /\ u.res = "kept"
  BY ChurnNeverShrinks DEF Outcome
<1>2. r = grow_if_needed(u, 1)
  BY DEF resize_delta
<1>. HIDE DEF u
<1>3. /\ b.num_buckets \in BucketCounts /\ b.num_buckets \in Nat /\ b.num_buckets >= 4
      /\ n \in Nat /\ 2 * n <= b.num_buckets
  BY <1>1, ChurningCounts
<1>4. /\ s.enlarge_factor = HT_OCCUPANCY_PCT /\ b.num_buckets < 4 * (Window + 8)
      /\ SameFactors(b, t) /\ Sound(b) /\ Tuned(b)
  BY <1>1 DEF Churning, SameFactors
<1>5. Window \in Nat /\ 8 * (Window + 8) <= SizeMax /\ SizeMax \in Nat
  BY ChurnAssumption, SizesAssumption
<1>6. n < SizeMax - 1
  BY <1>3, <1>4, <1>5
<1>7. ~min_buckets_overflows(s, n + 1, 0)
  <2>. DEFINE N == b.num_buckets
  <2>1. N < SizeMax \div 2
    BY <1>3, <1>4, <1>5
  <2>2. N * 2 \in BucketCounts
    BY <1>3, <2>1, TwiceASize
  <2>3. N * 2 \in Nat /\ enlarge_size(s, N * 2) \in Nat /\ 2 * enlarge_size(s, N * 2) = N * 2
    BY <1>4, <2>2, HalfInUse
  <2>4. n + 1 < enlarge_size(s, N * 2) /\ 0 <= N * 2
    BY <1>3, <2>3
  <2>5. N * 2 \in roomy_sizes(s, n + 1, 0)
    BY <2>2, <2>4 DEF roomy_sizes
  <2>. QED
    BY <2>5 DEF min_buckets_overflows
<1>8. OK(u)
  BY <1>1, <1>4
<1>9. OK(Outcome(c, "resized"))
  <2>1. /\ to \in BucketCounts /\ to < 4 * (Window + 8) /\ size(b) < enlarge_size(s, to)
    BY <1>1, ChurnResizesTo
  <2>. HIDE DEF to
  <2>2. /\ SameFactors(c, b) /\ c.num_buckets \in BucketCounts
        /\ \A m \in BucketCounts :
             to <= m /\ size(b) < enlarge_size(s, m) => c.num_buckets <= m
    BY <1>4, <2>1, Rehashed
  <2>. HIDE DEF c
  <2>3. to \in Nat /\ to <= to /\ c.num_buckets \in Nat
    BY <2>1, <2>2, BucketCountIsPower
  <2>4. c.num_buckets < 4 * (Window + 8)
    BY <1>5, <2>1, <2>2, <2>3
  <2>5. SameFactors(c, t)
    BY <1>4, <2>2 DEF SameFactors
  <2>. QED
    BY <2>4, <2>5 DEF Outcome
<1>. HIDE DEF c, to, OK
<1>10. ~(n >= SizeMax - 1)
  BY <1>3, <1>5, <1>6
<1>11. r \in {u, Outcome(c, "resized")}
  BY <1>2, <1>7, <1>10 DEF grow_if_needed, c, to
<1>12. OK(r)
  BY <1>8, <1>9, <1>11
<1>. QED
  BY <1>12 DEF OK

-----------------------------------------------------------------------------
(* The calls.                                                              *)

\* The reserved keys are none of the window's.
LEMMA ChurnAllows ==
  ASSUME NEW t, Churning(t), NEW k \in 0 .. Count - 1
  PROVE  k \in Key /\ Allowed(t, k)
<1>1. k \in 0 .. DeletedKey /\ k # EmptyKey /\ k # DeletedKey
  BY ChurnAssumption DEF EmptyKey, DeletedKey
<1>. QED
  BY <1>1, ChurnAssumption DEF Churning, Allowed

\* operator[] of a key that is not there puts it in, if its search ends.
LEMMA ChurnInserts ==
  ASSUME NEW t, Churning(t), size(t) < Window, NEW k \in 0 .. Count - 1, k \notin Keys(t),
         NEW r, r = find_or_insert(t, k), r.res # "table_full"
  PROVE  /\ r.res = "inserted" /\ Churning(r.ht) /\ size(r.ht) = size(t) + 1
         /\ Keys(r.ht) = Keys(t) \cup {k}
<1>. DEFINE q   == resize_delta(t, 1)
            p   == find_position(t, k)
            obj == [key |-> k, val |-> DefaultVal]
<1>1. Sound(t) /\ Tuned(t) /\ k \in Key /\ Allowed(t, k) /\ size(t) \in Nat
  BY ChurnAllows, ChurningCounts DEF Churning
<1>2. /\ q.res # "length_error" /\ q.ht.num_buckets < 4 * (Window + 8)
      /\ SameFactors(q.ht, t)
  BY ChurnGrows
<1>3. Sound(q.ht) /\ size(q.ht) = size(t)
  BY <1>1, ResizeDeltaGrows
<1>4. Inserted(r, t, obj)
  BY <1>1, FindOrInsertInserts
<1>5. Sound(r.ht) /\ SameReserved(r.ht, t)
  BY <1>1, FindOrInsertSound
<1>6. Tuned(r.ht)
  BY <1>1, FindOrInsertIsTuned
<1>7. r.ht = t \/ Fits(r, t)
  BY <1>1, FindOrInsertFits
<1>8. r = IF search_fails(p) THEN Outcome(t, "table_full")
          ELSE IF p.first # ILLEGAL_BUCKET THEN Outcome(t, "present")
          ELSE IF q.res = "length_error" THEN q
          ELSE IF q.res = "resized" THEN insert_noresize(q.ht, obj)
          ELSE insert_at(q.ht, obj, p.second)
  BY DEF find_or_insert
<1>9. obj.key = k
  OBVIOUS
<1>. HIDE DEF q, obj
<1>10. ~search_fails(p) /\ p.first = ILLEGAL_BUCKET
  <2>1. ~search_fails(p)
    BY <1>8 DEF Outcome
  <2>2. p.first # ILLEGAL_BUCKET => k \in Keys(t)
    BY <1>1, FindPosition DEF Allowed, Keys
  <2>. QED
    BY <2>1, <2>2
<1>. HIDE DEF p
<1>11. r = insert_noresize(q.ht, obj) \/ r = insert_at(q.ht, obj, p.second)
  BY <1>2, <1>8, <1>10
<1>12. Placed(r, q.ht)
  BY <1>3, <1>11, InsertNoresizePlaces, InsertAtPlaces
<1>13. r.res # "length_error"
  <2>1. ~(size(q.ht) >= MaxSize)
    BY <1>1, <1>3, ChurnAssumption, KeysAssumption
  <2>2. \A pos : insert_at(q.ht, obj, pos).res = "inserted"
    BY <2>1 DEF insert_at, Outcome
  <2>3. insert_noresize(q.ht, obj).res # "length_error"
    BY <2>2 DEF insert_noresize, Outcome
  <2>. QED
    BY <1>11, <2>2, <2>3
<1>14. r.res = "inserted" /\ Objects(r.ht) = Objects(t) \cup {obj}
  BY <1>4, <1>9, <1>13 DEF Inserted
<1>15. size(r.ht) = size(t) + 1
  BY <1>3, <1>12, <1>14 DEF Placed
<1>16. r.ht.num_elements <= r.ht.settings.enlarge_threshold
  BY <1>1, <1>7, <1>13, <1>15 DEF Fits
<1>17. /\ r.ht.num_buckets < 4 * (Window + 8)
       /\ r.ht.settings.shrink_factor = t.settings.shrink_factor
       /\ r.ht.settings.enlarge_factor = t.settings.enlarge_factor
  BY <1>2, <1>12 DEF Placed, SameShape, SameFactors
<1>18. Churning(r.ht)
  BY <1>5, <1>6, <1>16, <1>17 DEF Churning, SameReserved
<1>19. Keys(r.ht) = Keys(t) \cup {k}
  BY <1>9, <1>14, KeysOfObjects
<1>. QED
  BY <1>14, <1>15, <1>18, <1>19

\* An assignment through a reference changes no more than the value.
LEMMA ChurnAssigns ==
  ASSUME NEW t, Churning(t), NEW pos, NEW v \in Val
  PROVE  LET u == [t EXCEPT !.table[pos].val = v]
         IN  Churning(u) /\ size(u) = size(t) /\ Keys(u) = Keys(t)
<1>. DEFINE u == [t EXCEPT !.table[pos].val = v]
<1>1. /\ Sound(t) /\ Tuned(t) /\ t.settings.use_empty
      /\ t \in TableOf(t.num_buckets) /\ t.table \in [Buckets(t) -> Slot]
      /\ DOMAIN t = TableFields /\ DOMAIN t.settings = SettingsFields
  BY Fields DEF Churning, Sound, Populated, Tuned, Tunable, FactorsOK
<1>2. Sound(u) /\ LiveBuckets(u) = LiveBuckets(t)
  BY <1>1, ValueSound
<1>3. /\ u.settings = t.settings /\ u.num_buckets = t.num_buckets
      /\ u.num_elements = t.num_elements /\ u.num_deleted = t.num_deleted
      /\ u.emptykey = t.emptykey /\ u.delkey = t.delkey
      /\ DOMAIN u = TableFields /\ DOMAIN u.settings = SettingsFields
      /\ u.table = [t.table EXCEPT ![pos].val = v]
  BY <1>1 DEF TableFields
<1>. HIDE DEF u
<1>4. Tuned(u)
  BY <1>1, <1>3, StaysTuned
<1>5. size(u) = size(t)
  BY <1>3 DEF size
<1>6. \A i \in Buckets(t) : u.table[i].key = t.table[i].key
  BY <1>1, <1>3 DEF Slot
<1>7. Keys(u) = Keys(t)
  <2>1. LiveBuckets(t) \subseteq Buckets(t)
    BY DEF LiveBuckets
  <2>. QED
    BY <1>2, <1>6, <2>1 DEF Keys
<1>8. Churning(u)
  BY <1>2, <1>3, <1>4 DEF Churning
<1>. QED
  BY <1>5, <1>7, <1>8 DEF u

\* erase of a key that is there takes it away, if its search ends.
LEMMA ChurnErases ==
  ASSUME NEW t, Churning(t), NEW k \in Keys(t), k \in 0 .. Count - 1,
         NEW r, r = erase(t, k), r.res # "table_full"
  PROVE  /\ Churning(r.ht) /\ size(r.ht) = size(t) - 1
         /\ Keys(r.ht) = Keys(t) \ {k}
<1>. DEFINE p == find_position(t, k)
            u == erase_at(t, p.first)
<1>1. /\ Sound(t) /\ Tuned(t) /\ k \in Key /\ t.settings.use_empty /\ t.settings.use_deleted
      /\ t.num_elements \in Nat /\ t.num_deleted \in Nat
      /\ t \in TableOf(t.num_buckets) /\ t.settings \in Settings
  BY ChurnAllows, ChurningCounts, Fields DEF Churning, Sound
<1>2. size(t) # 0
  BY <1>1, EmptyContents
<1>3. r = IF search_fails(p) THEN Outcome(t, "table_full")
          ELSE IF p.first = ILLEGAL_BUCKET THEN Outcome(t, "absent")
          ELSE Outcome(u, "erased")
  BY <1>2 DEF erase
<1>4. /\ p.first # ILLEGAL_BUCKET => p.first \in LiveBuckets(t) /\ t.table[p.first].key = k
      /\ p.first = ILLEGAL_BUCKET /\ p.second # ILLEGAL_BUCKET => Free(t, k, p.second)
  BY <1>1, FindPosition
<1>. HIDE DEF p
<1>5. p.first # ILLEGAL_BUCKET /\ r.ht = u
  <2>1. ~search_fails(p)
    BY <1>3 DEF Outcome
  <2>2. ~Free(t, k, p.second)
    BY DEF Free, Keys
  <2>. QED
    BY <1>3, <1>4, <2>1, <2>2 DEF search_fails, Outcome
<1>6. /\ p.first \in LiveBuckets(t) /\ t.table[p.first].key = k
      /\ p.first \in Buckets(t) /\ ~test_deleted(t, p.first)
  BY <1>4, <1>5 DEF LiveBuckets
<1>7. /\ Sound(u) /\ LiveBuckets(u) = LiveBuckets(t) \ {p.first}
      /\ \A i \in LiveBuckets(t) \ {p.first} : u.table[i] = t.table[i]
  BY <1>1, <1>6, EraseAtErases
<1>8. Tuned(u)
  BY <1>1, EraseIsTuned
<1>9. /\ u.num_deleted = t.num_deleted + 1 /\ u.num_elements = t.num_elements
      /\ u.num_buckets = t.num_buckets
      /\ u.emptykey = t.emptykey /\ u.delkey = t.delkey
      /\ u.settings.use_empty = t.settings.use_empty
      /\ u.settings.use_deleted = t.settings.use_deleted
      /\ u.settings.shrink_factor = t.settings.shrink_factor
      /\ u.settings.enlarge_factor = t.settings.enlarge_factor
      /\ u.settings.enlarge_threshold = t.settings.enlarge_threshold
  BY <1>1, <1>6 DEF erase_at, TableOf, Settings
<1>. HIDE DEF u
<1>10. Churning(u)
  BY <1>7, <1>8, <1>9 DEF Churning
<1>11. size(u) = size(t) - 1
  BY <1>1, <1>9 DEF size
<1>12. Keys(u) = Keys(t) \ {k}
  <2>1. \A i, j \in LiveBuckets(t) : t.table[i].key = t.table[j].key => i = j
    BY <1>1 DEF Sound, Populated, NoneTwice
  <2>. QED
    BY <1>6, <1>7, <2>1 DEF Keys
<1>. QED
  BY <1>5, <1>10, <1>11, <1>12

-----------------------------------------------------------------------------
(* The client.                                                             *)

\* The table the client starts with: no objects, no shrinking.
LEMMA ChurnBegins == 
  LET t == change_resizing_parameters(
             set_deleted_key(set_empty_key(new_table(0), EmptyKey), DeletedKey),
             0, HT_OCCUPANCY_PCT)
  IN  Churning(t) /\ size(t) = 0 /\ Keys(t) = {}
<1>. DEFINE a == new_table(0)
            b == set_empty_key(a, EmptyKey)
            c == set_deleted_key(b, DeletedKey)
            t == change_resizing_parameters(c, 0, HT_OCCUPANCY_PCT)
<1>1. EmptyKey \in Key /\ DeletedKey \in Key /\ DeletedKey # EmptyKey /\ Window \in Nat \ {0}
  BY ChurnAssumption DEF EmptyKey, DeletedKey
<1>2. Sound(a) /\ Tuned(a)
  BY RoomUnderFactors, NewTableSound, NewTableIsTuned
<1>3. /\ a.num_buckets = HT_DEFAULT_STARTING_BUCKETS /\ a.num_elements = 0
      /\ a.num_deleted = 0 /\ ~a.settings.use_empty /\ ~a.settings.use_deleted
  BY DEF new_table, new_settings, reset_thresholds
<1>4. DOMAIN a = TableFields /\ DOMAIN a.settings = SettingsFields
  BY <1>2 DEF Tuned, Tunable, FactorsOK
<1>. HIDE DEF a
<1>5. Sound(b) /\ Tuned(b)
  BY <1>1, <1>2, <1>3, SetEmptyKeySound, SetEmptyKeyIsTuned
<1>6. /\ b.num_buckets = HT_DEFAULT_STARTING_BUCKETS /\ b.num_elements = 0
      /\ b.num_deleted = 0 /\ b.settings.use_empty /\ b.emptykey = EmptyKey
      /\ DOMAIN b = TableFields /\ DOMAIN b.settings = SettingsFields
  BY <1>3, <1>4 DEF set_empty_key, TableFields, SettingsFields
<1>. HIDE DEF b
<1>7. size(b) = 0 /\ Keys(b) = {}
  BY <1>5, <1>6, EmptyContents DEF size
<1>8. squash_deleted(b) = b
  BY <1>6 DEF squash_deleted
<1>9. c = [b EXCEPT !.settings.use_deleted = TRUE, !.delkey = DeletedKey]
  BY <1>8 DEF set_deleted_key
<1>10. /\ c.settings.use_deleted = TRUE /\ c.delkey = DeletedKey
       /\ c.settings.use_empty = b.settings.use_empty
       /\ c.settings.enlarge_factor = b.settings.enlarge_factor
       /\ c.table = b.table /\ c.num_buckets = b.num_buckets /\ c.emptykey = b.emptykey
       /\ c.num_elements = b.num_elements /\ c.num_deleted = b.num_deleted
       /\ DOMAIN c = TableFields /\ DOMAIN c.settings = SettingsFields
  BY <1>6, <1>9 DEF TableFields, SettingsFields
<1>. HIDE DEF c
<1>11. IsTable(c)
  <2>1. b \in TableOf(b.num_buckets) /\ b.num_buckets \in BucketCounts /\ b.settings \in Settings
    BY <1>5, Fields DEF Sound
  <2>2. [b.settings EXCEPT !.use_deleted = TRUE] \in Settings
    BY <2>1 DEF Settings
  <2>3. c \in TableOf(b.num_buckets)
    BY <1>1, <1>9, <2>1, <2>2 DEF TableOf
  <2>. QED
    BY <2>1, <2>3 DEF IsTable
<1>12. Tuned(c)
  BY <1>5, DeletedKeyIsTuned DEF c
<1>13. Sound(c)
  BY <1>1, <1>5, <1>6, <1>7, <1>8, <1>10, <1>11, DeletedKeySound
<1>14. 0 \in Percent /\ HT_OCCUPANCY_PCT \in Percent
  BY DEF Percent, HT_OCCUPANCY_PCT
<1>15. Sound(t) /\ Tuned(t)
  BY <1>12, <1>13, <1>14, RoomUnderFactors, ParametersSound, ParametersAreTuned
<1>16. /\ t.num_buckets = c.num_buckets /\ t.num_elements = c.num_elements
       /\ t.num_deleted = c.num_deleted /\ t.emptykey = c.emptykey /\ t.delkey = c.delkey
       /\ t.settings.use_empty = c.settings.use_empty
       /\ t.settings.use_deleted = c.settings.use_deleted
       /\ t.settings.shrink_factor = 0 /\ t.settings.enlarge_factor = HT_OCCUPANCY_PCT
  <2>1. ~(2 * 0 > HT_OCCUPANCY_PCT)
    BY DEF HT_OCCUPANCY_PCT
  <2>2. set_resizing_parameters(c.settings, 0, HT_OCCUPANCY_PCT) =
          [c.settings EXCEPT !.shrink_factor = 0, !.enlarge_factor = HT_OCCUPANCY_PCT]
    BY <2>1 DEF set_resizing_parameters
  <2>3. t = [c EXCEPT !.settings = reset_thresholds(
                        [c.settings EXCEPT !.shrink_factor = 0,
                                           !.enlarge_factor = HT_OCCUPANCY_PCT],
                        c.num_buckets)]
    BY <1>10, <2>2 DEF change_resizing_parameters, TableFields
  <2>. QED
    BY <1>10, <2>3 DEF reset_thresholds, TableFields, SettingsFields
<1>. HIDE DEF t
<1>17. t.num_elements <= t.settings.enlarge_threshold
  <2>1. t.num_elements = 0 /\ t.settings.enlarge_threshold \in Nat
    BY <1>6, <1>10, <1>15, <1>16, Fields DEF Sound, Settings
  <2>. QED
    BY <2>1
<1>18. t.num_buckets < 4 * (Window + 8)
  BY <1>1, <1>6, <1>10, <1>16, ChurnAssumption, StartingSizes, BucketCountIsPower
<1>19. Churning(t)
  BY <1>6, <1>10, <1>15, <1>16, <1>17, <1>18 DEF Churning
<1>20. size(t) = 0
  BY <1>6, <1>10, <1>16 DEF size
<1>21. Keys(t) = {}
  BY <1>15, <1>20, EmptyContents
<1>. QED
  BY <1>19, <1>20, <1>21 DEF a, b, c, t

\* The keys of a window of n from key o on.
WindowOf(o, n) == {(o + i) % Count : i \in 0 .. n - 1}

\* A window takes in the next key, which is not in it unless it has them all.
LEMMA WindowGrows ==
  ASSUME NEW o \in 0 .. Count - 1, NEW n \in Nat, n < Count
  PROVE  /\ (o + n) % Count \in 0 .. Count - 1
         /\ (o + n) % Count \notin WindowOf(o, n)
         /\ WindowOf(o, n + 1) = WindowOf(o, n) \cup {(o + n) % Count}
<1>1. Count \in Nat \ {0} /\ o \in Nat
  BY ChurnAssumption
<1>2. (o + n) % Count \in 0 .. Count - 1
  BY <1>1
<1>3. ASSUME NEW i \in 0 .. n - 1, (o + i) % Count = (o + n) % Count PROVE FALSE
  <2>1. o + i \in Nat /\ o + n \in Nat /\ o + i <= o + n
    BY <1>1
  <2>2. PICK q \in Nat : (o + n) - (o + i) = Count * q
    BY <1>1, <1>3, <2>1, SameRemainder
  <2>3. n - i = Count * q /\ n - i > 0 /\ n - i < Count
    BY <1>1, <2>2
  <2>4. q = 0 \/ Count * q >= Count
    BY <1>1
  <2>. QED
    BY <1>1, <2>3, <2>4
<1>4. (n + 1) - 1 = n /\ 0 .. n = (0 .. n - 1) \cup {n}
  OBVIOUS
<1>5. WindowOf(o, n + 1) = {(o + i) % Count : i \in 0 .. n}
  BY <1>4 DEF WindowOf
<1>. QED
  BY <1>2, <1>3, <1>4, <1>5 DEF WindowOf

\* And gives up its first key.
LEMMA WindowMoves ==
  ASSUME NEW o \in 0 .. Count - 1, NEW n \in Nat, 0 < n, n <= Count
  PROVE  /\ o \in WindowOf(o, n)
         /\ (o + 1) % Count \in 0 .. Count - 1
         /\ WindowOf((o + 1) % Count, n - 1) = WindowOf(o, n) \ {o}
<1>. DEFINE p == (o + 1) % Count
<1>1. Count \in Nat \ {0} /\ o \in Nat /\ p \in 0 .. Count - 1 /\ o % Count = o
  BY ChurnAssumption
<1>2. \A i \in Nat : (p + i) % Count = (o + (i + 1)) % Count
  <2>1. CASE o + 1 < Count
    <3>1. p = o + 1
      BY <1>1, <2>1
    <3>. QED
      BY <1>1, <3>1
  <2>2. CASE ~(o + 1 < Count)
    <3>1. o + 1 = Count * 1 /\ p = 0
      BY <1>1, <2>2
    <3>2. \A i \in Nat : (Count * 1 + i) % Count = i % Count
      BY <1>1, MultipleAdded
    <3>3. \A i \in Nat : o + (i + 1) = Count * 1 + i /\ 0 + i = i
      BY <1>1, <3>1
    <3>. QED
      BY <3>1, <3>2, <3>3
  <2>. QED
    BY <2>1, <2>2
<1>3. ASSUME NEW i \in 1 .. n - 1, (o + i) % Count = o PROVE FALSE
  <2>1. o + i \in Nat /\ o <= o + i /\ (o + i) % Count = o % Count
    BY <1>1, <1>3
  <2>2. PICK q \in Nat : (o + i) - o = Count * q
    BY <1>1, <2>1, SameRemainder
  <2>3. i = Count * q /\ i > 0 /\ i < Count
    BY <1>1, <2>2
  <2>4. q = 0 \/ Count * q >= Count
    BY <1>1
  <2>. QED
    BY <1>1, <2>3, <2>4
<1>. HIDE DEF p
<1>4. (o + 0) % Count = o /\ 0 \in 0 .. n - 1
  BY <1>1
<1>5. WindowOf(p, n - 1) = {(o + i) % Count : i \in 1 .. n - 1}
  <2>1. ASSUME NEW i \in 0 .. n - 1 - 1
        PROVE  i + 1 \in 1 .. n - 1 /\ (p + i) % Count = (o + (i + 1)) % Count
    BY <1>2
  <2>2. ASSUME NEW j \in 1 .. n - 1
        PROVE  j - 1 \in 0 .. n - 1 - 1 /\ (p + (j - 1)) % Count = (o + j) % Count
    <3>1. j - 1 \in Nat /\ (j - 1) + 1 = j
      OBVIOUS
    <3>. QED
      BY <1>2, <3>1
  <2>3. \A x : x \in WindowOf(p, n - 1) <=> x \in {(o + i) % Count : i \in 1 .. n - 1}
    BY <2>1, <2>2 DEF WindowOf
  <2>. QED
    BY <2>3
<1>6. 0 .. n - 1 = {0} \cup (1 .. n - 1)
  OBVIOUS
<1>7. WindowOf(o, n) = {o} \cup {(o + i) % Count : i \in 1 .. n - 1}
  BY <1>4, <1>6 DEF WindowOf
<1>8. o \notin {(o + i) % Count : i \in 1 .. n - 1}
  BY <1>3
<1>. QED
  BY <1>1, <1>5, <1>7, <1>8 DEF p

\* The inductive invariant of the churn.
ChurnInv ==
  /\ DOMAIN ht = Obj /\ Churning(ht[Churned])
  /\ oldest \in 0 .. Count - 1 /\ live \in 0 .. Window
  /\ size(ht[Churned]) = live
  /\ Keys(ht[Churned]) = WindowOf(oldest, live)

\* It holds at first.
LEMMA ChurnInitInv == ChurnInit => ChurnInv
<1>. DEFINE t == change_resizing_parameters(
                   set_deleted_key(set_empty_key(new_table(0), EmptyKey), DeletedKey),
                   0, HT_OCCUPANCY_PCT)
<1>1. Churning(t) /\ size(t) = 0 /\ Keys(t) = {}
  BY ChurnBegins
<1>. HIDE DEF t
<1>. SUFFICES ASSUME ChurnInit PROVE ChurnInv
  OBVIOUS
<1>2. ht = [o \in Obj |-> t] /\ oldest = 0 /\ live = 0
  BY DEF ChurnInit, t
<1>3. ht[Churned] = t /\ DOMAIN ht = Obj
  BY <1>2, ChurnAssumption
<1>4. 0 \in 0 .. Count - 1 /\ 0 \in 0 .. Window /\ WindowOf(0, 0) = {}
  BY ChurnAssumption DEF WindowOf
<1>. QED
  BY <1>1, <1>2, <1>3, <1>4 DEF ChurnInv

\* An insertion keeps it.
LEMMA PushKeeps ==
  ASSUME ChurnInv, Push
  PROVE  ChurnInv'
<1>. DEFINE t == ht[Churned]
            k == (oldest + live) % Count
            r == find_or_insert(t, k)
            pos == CHOOSE i \in LiveBuckets(r.ht) : r.ht.table[i].key = k
            w == IF r.res \in {"inserted", "present"} THEN AssignThrough(r, k, DefaultVal)
                                                      ELSE r
<1>1. /\ Churning(t) /\ DOMAIN ht = Obj /\ oldest \in 0 .. Count - 1 /\ live \in 0 .. Window
      /\ size(t) = live /\ Keys(t) = WindowOf(oldest, live)
  BY DEF ChurnInv
<1>2. live < Window /\ live' = live + 1 /\ oldest' = oldest
  BY DEF Push
<1>3. live \in Nat /\ live < Count /\ live + 1 \in 0 .. Window
  BY <1>1, <1>2, ChurnAssumption
<1>4. /\ k \in 0 .. Count - 1 /\ k \notin Keys(t)
      /\ WindowOf(oldest, live + 1) = Keys(t) \cup {k}
  BY <1>1, <1>3, WindowGrows
<1>5. Answer(Churned, <<"subscript", Churned, k>>, w)
  BY DEF Push, Subscript
<1>. HIDE DEF k
<1>6. w.res # "table_full" /\ ht' = [ht EXCEPT ![Churned] = w.ht]
  BY <1>5 DEF Answer
<1>7. r.res # "table_full"
  BY <1>6
<1>8. /\ r.res = "inserted" /\ Churning(r.ht) /\ size(r.ht) = size(t) + 1
      /\ Keys(r.ht) = Keys(t) \cup {k}
  <2>1. size(t) < Window
    BY <1>1, <1>2
  <2>. HIDE DEF t, r, w, pos
  <2>. QED
    BY <1>1, <1>4, <1>7, <2>1, ChurnInserts DEF r
<1>. HIDE DEF r
<1>9. w.ht = [r.ht EXCEPT !.table[pos].val = DefaultVal]
  BY <1>8 DEF AssignThrough
<1>. HIDE DEF w, pos
<1>10. Churning(w.ht) /\ size(w.ht) = live + 1 /\ Keys(w.ht) = Keys(t) \cup {k}
  <2>. DEFINE x == r.ht
              u == [x EXCEPT !.table[pos].val = DefaultVal]
  <2>1. Churning(x) /\ size(x) = live + 1 /\ Keys(x) = Keys(t) \cup {k} /\ w.ht = u
    BY <1>1, <1>8, <1>9
  <2>. HIDE DEF t, x
  <2>2. Churning(u) /\ size(u) = size(x) /\ Keys(u) = Keys(x)
    BY <2>1, ChurnAssigns, KeysAssumption
  <2>. HIDE DEF u
  <2>. QED
    BY <2>1, <2>2
<1>11. DOMAIN ht' = Obj /\ ht'[Churned] = w.ht
  BY <1>1, <1>6, ChurnAssumption
<1>12. /\ DOMAIN ht' = Obj /\ Churning(ht'[Churned])
       /\ oldest' \in 0 .. Count - 1 /\ live' \in 0 .. Window
       /\ size(ht'[Churned]) = live'
       /\ Keys(ht'[Churned]) = WindowOf(oldest', live')
  BY <1>1, <1>2, <1>3, <1>4, <1>10, <1>11
<1>. QED
  BY <1>12 DEF ChurnInv

\* So does a deletion.
LEMMA PopKeeps ==
  ASSUME ChurnInv, Pop
  PROVE  ChurnInv'
<1>. DEFINE t == ht[Churned]
            r == erase(t, oldest)
<1>1. /\ Churning(t) /\ DOMAIN ht = Obj /\ oldest \in 0 .. Count - 1 /\ live \in 0 .. Window
      /\ size(t) = live /\ Keys(t) = WindowOf(oldest, live)
  BY DEF ChurnInv
<1>2. live > 0 /\ live' = live - 1 /\ oldest' = (oldest + 1) % Count
  BY DEF Pop
<1>3. live \in Nat /\ live <= Count /\ live - 1 \in 0 .. Window
  BY <1>1, <1>2, ChurnAssumption
<1>4. /\ oldest \in Keys(t) /\ oldest' \in 0 .. Count - 1
      /\ WindowOf(oldest', live') = Keys(t) \ {oldest}
  BY <1>1, <1>2, <1>3, WindowMoves
<1>5. r.res # "table_full" /\ ht' = [ht EXCEPT ![Churned] = r.ht]
  BY DEF Pop, Erase, Answer
<1>6. Churning(r.ht) /\ size(r.ht) = size(t) - 1 /\ Keys(r.ht) = Keys(t) \ {oldest}
  <2>. HIDE DEF t, r
  <2>. QED
    BY <1>1, <1>4, <1>5, ChurnErases DEF r
<1>. HIDE DEF r
<1>7. DOMAIN ht' = Obj /\ ht'[Churned] = r.ht
  BY <1>1, <1>5, ChurnAssumption
<1>8. /\ DOMAIN ht' = Obj /\ Churning(ht'[Churned])
      /\ oldest' \in 0 .. Count - 1 /\ live' \in 0 .. Window
      /\ size(ht'[Churned]) = live'
      /\ Keys(ht'[Churned]) = WindowOf(oldest', live')
  BY <1>1, <1>2, <1>3, <1>4, <1>6, <1>7
<1>. QED
  BY <1>8 DEF ChurnInv

\* It is inductive.
LEMMA ChurnInvHolds == ChurnSpec => []ChurnInv
<1>1. ChurnInv /\ [ChurnNext]_churn => ChurnInv'
  <2>. SUFFICES ASSUME ChurnInv, [ChurnNext]_churn PROVE ChurnInv'
    OBVIOUS
  <2>1. CASE Push
    BY <2>1, PushKeeps
  <2>2. CASE Pop
    BY <2>2, PopKeeps
  <2>3. CASE UNCHANGED churn
    BY <2>3 DEF ChurnInv, churn, vars
  <2>. QED
    BY <2>1, <2>2, <2>3 DEF ChurnNext
<1>. QED
  BY <1>1, ChurnInitInv, PTL DEF ChurnSpec

\* Whatever the window, the keys, the hash function and the sizes: objects that
\* come and go for ever never make the table double "the bucket count to
\* infinity" (densehashtable.h 602), though nothing ever shrinks it.
THEOREM CapacityStaysBounded == ChurnSpec => []CapacityBounded
<1>1. ChurnInv => CapacityBounded
  BY DEF ChurnInv, Churning, CapacityBounded
<1>. QED
  BY <1>1, ChurnInvHolds, PTL

\* And at each moment the map has the objects of the window and no others: no
\* insertion throws, and none writes to a bucket found before the table moved.
THEOREM WindowStaysThere == ChurnSpec => []WindowIsThere
<1>1. ChurnInv => WindowIsThere
  BY DEF ChurnInv, WindowIsThere, WindowOf
<1>. QED
  BY <1>1, ChurnInvHolds, PTL

=============================================================================
