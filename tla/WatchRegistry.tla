---------------------------- MODULE WatchRegistry ----------------------------
(***************************************************************************)
(* What ssu_monitor promises its user, with no files and no processes: a   *)
(* set of watches, one per daemon, such that no two watched directories    *)
(* are the same or contained in one another (the test at                   *)
(* ssu_monitor.c:115-130, which is a test on path names as strings).       *)
(***************************************************************************)
CONSTANTS Paths,       \* absolute path names of directories
          Pids,        \* process ids a daemon can get
          CharPrefix   \* <<p, q>> such that the name p is a prefix of the name q

VARIABLE watched       \* the watches in force: records [dir, pid]

Watch == [dir: Paths, pid: Pids]

(* The two branches of the scan in except_add: either name is a prefix of  *)
(* the other.                                                              *)
Clash(p, q) == <<p, q>> \in CharPrefix \/ <<q, p>> \in CharPrefix

Init == watched = {}

Start(d, p) == /\ \A w \in watched: w.pid # p /\ ~Clash(d, w.dir)
               /\ watched' = watched \cup {[dir |-> d, pid |-> p]}

Stop(p) == /\ \E w \in watched: w.pid = p
           /\ watched' = {w \in watched: w.pid # p}

Next == \E p \in Pids: Stop(p) \/ \E d \in Paths: Start(d, p)

Spec == Init /\ [][Next]_watched
=============================================================================
