---------------------------- MODULE MCController ----------------------------
(* Instances of Controller for TLC *)
EXTENDS Controller

(* The name of a slice that exists in every cluster *)
OneSlice == {"e1"}

(* A slice with an endpoint, for the first Service or without a label *)
Slice(service) == [service |-> service, ports |-> {8080},
                   endpoints |-> {[pod |-> "p", ready |-> TRUE]}]
OneValue == {Slice("s1")}
EitherLabel == {Slice("s1"), Slice(Absent)}

(* XdsServices with the strategy local-first *)
LocalFirstSettings == {[EnableRemoteEndpoints |-> TRUE, PrioritizeLocalEndpoints |-> TRUE]}

=============================================================================
