-------------------------- MODULE MCShadowRequest --------------------------
(* Endpoints of one to three backends with every way to write "shadow", of *)
(* which two are shadows at most, and of every kind of merge and calls.    *)
EXTENDS ShadowRequest
Backend(x) == [extra |-> x, given |-> FALSE, shadowTimeout |-> 0]
BackendWith(x, t) == [extra |-> x, given |-> TRUE, shadowTimeout |-> t]
Kinds == {Backend("true"), BackendWith("true", 3), BackendWith("true", -1), BackendWith("false", 3),
          Backend("none"), Backend("notBool")}
Shadows == {k \in Kinds : IsShadow(k)}
Lists == {<<a>> : a \in Kinds} \cup {<<a, b>> : a, b \in Kinds}
           \cup {<<a, Backend("none"), b>> : a, b \in Shadows}
\* 85 percent of two are one, as are 75.
MCEndpoints == [timeout : {2}, concurrent : BOOLEAN, sequential : BOOLEAN, backends : Lists]
=============================================================================
