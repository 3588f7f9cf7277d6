------------------------------ MODULE PortRanges ------------------------------
(***************************************************************************)
(* The two pure algorithms on port ranges that a sharded scan depends on:  *)
(* tasker cuts a port list into shards (scans/sharding.py), scanledger     *)
(* normalises the ranges a report says it covered (ips/schemas.py).  A     *)
(* range is <<first, last>>; "80" is <<80, 80>>.                           *)
(***************************************************************************)
EXTENDS Integers, Sequences, SequencesExt

-----------------------------------------------------------------------------
(* merge_port_ranges: put the lower bound first, refuse ports that do not  *)
(* exist, sort by lower bound, fuse what overlaps or touches.              *)

Ordered(r) == IF r[2] < r[1] THEN <<r[2], r[1]>> ELSE r

(* Slip: the bounds are checked as they are written.                       *)
InBounds_AsWritten(r) == 0 <= r[1] /\ r[2] <= 65535

InBounds(r) == 0 <= Ordered(r)[1] /\ Ordered(r)[2] <= 65535

Touches(last, r) == r[1] <= last[2] + 1

(* Slip: a range inside the previous one shortens it.                      *)
FuseInto_Last(merged, r) ==
  LET last == merged[Len(merged)]
  IN  IF merged # <<>> /\ Touches(last, r)
      THEN [merged EXCEPT ![Len(merged)] = <<last[1], r[2]>>]
      ELSE Append(merged, r)

FuseInto(merged, r) ==
  LET last == merged[Len(merged)]
  IN  IF merged # <<>> /\ Touches(last, r)
      THEN [merged EXCEPT ![Len(merged)] =
              <<last[1], IF r[2] > last[2] THEN r[2] ELSE last[2]>>]
      ELSE Append(merged, r)

LexLess(r, s) == r[1] < s[1] \/ (r[1] = s[1] /\ r[2] < s[2])

Greatest(pairs) == CHOOSE r \in pairs : \A s \in pairs \ {r} : LexLess(s, r)

Fuse(pairs) ==
  MapThenFoldSet(LAMBDA r, merged : FuseInto(merged, r), <<>>, LAMBDA r : r, Greatest, pairs)

(* The result is a set of at most one list: none if the call raises.       *)
MergePortRanges(pairs) ==
  IF \A r \in pairs : InBounds(r) THEN {Fuse({Ordered(r) : r \in pairs})} ELSE {}

(* The merged ranges, as a set.                                            *)
MergedRanges(pairs) == UNION {ToSet(merged) : merged \in MergePortRanges(pairs)}

-----------------------------------------------------------------------------
(* shard_ports.  The accumulator is the finished shards, the current one   *)
(* and how many ports it holds.                                            *)

CountPorts(r) == r[2] - r[1] + 1

Total(list) == FoldLeft(LAMBDA n, r : n + CountPorts(r), 0, list)

Put(st, r) == [st EXCEPT !.current = Append(@, r), !.count = @ + CountPorts(r)]

Close(st) == [st EXCEPT !.shards = Append(@, st.current), !.current = <<>>, !.count = 0]

(* Slip: the next piece starts on the last port of this one.               *)
TakePiece_Overlap(st, target) ==
  LET left == CountPorts(st.rest)
      take == IF left < target - st.count THEN left ELSE target - st.count
      last == st.rest[1] + take - 1
      put  == [Put(st, <<st.rest[1], last>>) EXCEPT
                 !.rest = <<IF take = left THEN last + 1 ELSE last, @[2]>>]
  IN  IF put.count >= target /\ left > take THEN Close(put) ELSE put

(* One turn of the inner loop: fill up the current shard from the range    *)
(* being split, and close it if the range goes on.                         *)
TakePiece(st, target) ==
  LET left == CountPorts(st.rest)
      take == IF left < target - st.count THEN left ELSE target - st.count
      last == st.rest[1] + take - 1
      put  == [Put(st, <<st.rest[1], last>>) EXCEPT !.rest = <<last + 1, @[2]>>]
  IN  IF put.count >= target /\ left > take THEN Close(put) ELSE put

Split(st, r, target) ==
  FoldLeft(LAMBDA s, i : IF CountPorts(s.rest) > 0 THEN TakePiece(s, target) ELSE s,
           [st EXCEPT !.rest = r],
           [i \in 1..CountPorts(r) |-> i])

AddSpec(st, r, target) ==
  LET next == IF CountPorts(r) <= target - st.count THEN Put(st, r)
                                                    ELSE Split(st, r, target)
  IN  IF next.count >= target THEN Close(next) ELSE next

Target(list, n) == (Total(list) + n - 1) \div n

ShardPorts(list, n) ==
  IF n <= 1 THEN <<list>>
  ELSE LET start == [shards |-> <<>>, current |-> <<>>, count |-> 0, rest |-> <<1, 0>>]
           end   == FoldLeft(LAMBDA st, r : AddSpec(st, r, Target(list, n)), start, list)
       IN  IF end.current # <<>> THEN Append(end.shards, end.current) ELSE end.shards

-----------------------------------------------------------------------------
(* What a list of ranges stands for, as a set and in its order.            *)
Covered(list) == UNION {list[i][1]..list[i][2] : i \in DOMAIN list}
Flat(list) == FlattenSeq([i \in DOMAIN list |-> [j \in 1..CountPorts(list[i]) |-> list[i][1] + j - 1]])
=============================================================================
