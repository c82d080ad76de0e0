---------------------------- MODULE MCPermission ----------------------------
(* Instances of PermissionManager for TLC: two sessions that share bash    *)
(* (put to a person by default) and one tool the tables do not name.       *)
EXTENDS PermissionManager

MCPolicy  == [bash |-> "ask", task_get |-> "absent"]
MCDefault == MCPolicy
MCTools   == DOMAIN MCPolicy

Call(s, t, hits) == [session |-> s, tool |-> t, hits |-> hits]

(* Each tier of check_and_wait decides one of them.                        *)
MCRequests == {Call("s1", "bash", {}),
               Call("s2", "bash", {}),
               Call("s2", "bash", {"outside_cwd", "allow_pattern"}),
               Call("s1", "bash", {"deny_pattern", "allow_pattern"}),
               Call("s1", "bash", {"allow_pattern"}),
               Call("s1", "task_get", {})}

(* For the runs on liveness: a plain and a forced request.                 *)
MCFewRequests == {Call("s1", "bash", {}), Call("s2", "bash", {"outside_cwd"})}
=============================================================================
