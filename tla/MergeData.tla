----------------------------- MODULE MergeData -----------------------------
(***************************************************************************)
(* The values the merging middleware of proxy/merging.go works on: backend *)
(* responses, the default response combiner (combineData) and the          *)
(* incremental accumulator both mergers feed.                              *)
(*                                                                         *)
(* The payload of a response is abstracted to the provenance of its keys:  *)
(* data[k] is the backend whose value is stored under k, or Absent.        *)
(***************************************************************************)
EXTENDS Naturals, Sequences

CONSTANTS
    Key,         \* top-level keys of the merged JSON objects
    Source,      \* the backends, as the origin of a value
    Absent,      \* "the map has no such key"
    NoResponse   \* a nil *Response

ASSUME AbsentAssumption == Absent \notin Source

EmptyMap == [k \in Key |-> Absent]

\* type Response: the Data map may be nil, and a nil map has no keys.
Response ==
    {r \in [isComplete : BOOLEAN, hasData : BOOLEAN, data : [Key -> Source \cup {Absent}]] :
        r.hasData \/ r.data = EmptyMap}

ASSUME NoResponseAssumption == NoResponse \notin Response

\* A bug to guard against: the earlier part wins over the later one.
OverlayKeepsFirst(base, part) == [k \in Key |-> IF base[k] # Absent THEN base[k] ELSE part[k]]

\* A bug to guard against: the later part is dropped.
OverlayDrops(base, part) == [k \in Key |-> base[k]]

\* for k, v := range part.Data { retResponse.Data[k] = v }
Overlay(base, part) == [k \in Key |-> IF part[k] = Absent THEN base[k] ELSE part[k]]

\* A bug to guard against: the last part alone decides whether it is complete.
CombineDataLastFlag(a, b) ==
    [isComplete |-> b.isComplete,
     hasData    |-> TRUE,
     data       |-> IF a.hasData /\ b.hasData THEN Overlay(a.data, b.data)
                    ELSE IF a.hasData THEN a.data ELSE b.data]

\* combineData(2, {a, b}): a part without Data makes the combination
\* incomplete, and the combination always has a Data map.
CombineData(a, b) ==
    [isComplete |-> a.hasData /\ b.hasData /\ a.isComplete /\ b.isComplete,
     hasData    |-> TRUE,
     data       |-> IF a.hasData /\ b.hasData THEN Overlay(a.data, b.data)
                    ELSE IF a.hasData THEN a.data ELSE b.data]

-----------------------------------------------------------------------------
(* incrementalMergeAccumulator: pending int, data *Response, errs []error  *)

NewAccumulator(total) == [pending |-> total, data |-> NoResponse, errs |-> << >>]

MarkIncomplete(res) == IF res = NoResponse THEN res ELSE [res EXCEPT !.isComplete = FALSE]

\* A bug to guard against: an error leaves the pending answers untouched.
AccMergeErrIgnored(acc, err) == [acc EXCEPT !.pending = @ - 1]

\* Merge(nil, err)
AccMergeErr(acc, err) ==
    [pending |-> acc.pending - 1,
     data    |-> MarkIncomplete(acc.data),
     errs    |-> Append(acc.errs, err)]

\* Merge(res, nil) for a response that is not nil: the callers turn a nil
\* response into errNullResult before it gets here.
AccMergeRes(acc, res) ==
    [acc EXCEPT !.pending = @ - 1,
                !.data    = IF acc.data = NoResponse THEN res ELSE CombineData(acc.data, res)]

\* Result(): errs is the mergeError, the empty list standing for a nil error.
AccResult(acc) ==
    [data |-> IF acc.pending > 0 \/ acc.errs # << >> THEN MarkIncomplete(acc.data) ELSE acc.data,
     errs |-> acc.errs]

=============================================================================
