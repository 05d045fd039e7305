----------------------------- MODULE MCSandbox -----------------------------
(***************************************************************************)
(* Two system directories, one of which a host may lack; the policy of     *)
(* default_limits, the empty one, and one that drops both identities.  A   *)
(* program makes calls of both tables, refused and allowed, and x32 calls. *)
(***************************************************************************)
EXTENDS Sandbox

CONSTANTS usr, lib64
MCSysDirs == <<usr, lib64>>
MCHosts == {{usr}, {usr, lib64}}
MCPolicies == {[limits |-> {"nproc", "fsize", "cpu"}, ids |-> {}],
               [limits |-> {}, ids |-> {}],
               [limits |-> {"nproc", "cpu"}, ids |-> {"gid", "uid"}],
               [limits |-> {}, ids |-> {"uid"}]}
MCCalls == Source(X86_64) \cup Passing(X86_64) \cup {0, 102, 359}
               \cup {X32Bit + nr : nr \in {41, 299}}
=============================================================================
