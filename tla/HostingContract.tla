---------------------------- MODULE HostingContract ----------------------------
(***************************************************************************)
(* What the file service promises: a file whose payment is processed can   *)
(* be downloaded for the whole hosting period, counted from then.  Only    *)
(* the clock ends that, or a request for this very file that the web       *)
(* client would not send: such a file is disturbed from then on, and no    *)
(* other is.  There is no upload, storage, table or sweep here: see        *)
(* KeepsHosting in Download.                                               *)
(***************************************************************************)
EXTENDS Integers, GoMaps

CONSTANTS FileIDs, HostDuration

VARIABLES
  now,
  hosted,      \* the files that can be downloaded, and until when
  disturbed    \* the files of which nothing is promised any more

hostingVars == <<now, hosted, disturbed>>

Init ==
  /\ now = 0
  /\ hosted = EmptyMap
  /\ disturbed = {}

Host(f) ==
  /\ f \notin disturbed
  /\ hosted' = MapPut(hosted, f, now + HostDuration)
  /\ UNCHANGED <<now, disturbed>>

Disturb(f) ==
  /\ f \notin disturbed
  /\ disturbed' = disturbed \cup {f}
  /\ hosted' = MapDelete(hosted, f)
  /\ UNCHANGED now

TimePasses ==
  /\ now' = now + 1
  /\ hosted' = [f \in {f \in DOMAIN hosted : now' <= hosted[f]} |-> hosted[f]]
  /\ UNCHANGED disturbed

Next == TimePasses \/ \E f \in FileIDs : Host(f) \/ Disturb(f)

=============================================================================
