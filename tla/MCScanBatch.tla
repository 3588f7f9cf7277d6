---------------------------- MODULE MCScanBatch ----------------------------
(* Small instances of ScanBatch for TLC.                                   *)
EXTENDS ScanBatch

CONSTANTS a, b, h

tcp(n) == <<n, "tcp">>
Open(service) == [state |-> "open", service |-> service]

(* One port in each half of the request's two ranges is open.              *)
MCSpecs == <<<<1, 2>>, <<5, 6>>>>
MCTruth == [ip \in Targets |-> tcp(2) :> Open("nginx") @@ tcp(5) :> Open("")]
MCNames == [ip \in Targets |-> {h}]

Known(ports) == [known |-> TRUE, meta |-> "", hostnames |-> {}, ports |-> ports]

(* Ports known that are still open, closed since, or not covered by the    *)
(* request.  In Mixed another address is not known at all.                 *)
Outdated == Known(tcp(1) :> Open("") @@ tcp(2) :> Open("apache")
                    @@ tcp(6) :> Open("") @@ tcp(9) :> Open(""))

OutdatedStored == {[ip \in Targets |-> Outdated]}
MixedStored == {[ip \in Targets |-> IF ip = a THEN Unknown ELSE Outdated]}

Once        == [scan |-> 1, upload |-> 1]
RetryUpload == [scan |-> 1, upload |-> 2]
=============================================================================
