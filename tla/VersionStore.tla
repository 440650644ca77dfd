---------------------------- MODULE VersionStore ----------------------------
(***************************************************************************)
(* What ssu_backup promises its users: a store of versions of their files. *)
(* A version that is there is whole: it is what its file was when its      *)
(* saving began.  It never changes; it is replaced only by a saving of its *)
(* file that was named within the second the version is named for, though  *)
(* it may begin later, and goes only when somebody removes it.  A client   *)
(* may leave at any moment, which costs at most the version it has named.  *)
(***************************************************************************)
EXTENDS Integers, Functions

CONSTANTS Clients,    \* those who save and remove versions
          Paths,      \* where files may be
          Empty       \* the content that a version which is not there has, too

VARIABLES
  files,     \* the users' files: a function from paths to contents
  versions,  \* the versions: a function from records [path, at] to contents
  session,   \* per client: Away, Idle or the version it has named or is saving
  now        \* the time, in seconds

vars == <<files, versions, session, now>>

Away == [doing |-> "nothing"]
Idle == [doing |-> "waiting"]
Beginning(v) == [doing |-> "beginning", version |-> v]
Saving(v, c) == [doing |-> "saving", version |-> v, content |-> c]
IsBeginning(c) == session[c].doing = "beginning"
IsSaving(c)  == session[c].doing = "saving"

But(v) == Restrict(versions, DOMAIN versions \ {v})

Init == /\ versions = [v \in {} |-> Empty]    \* whatever the files are
        /\ session = [c \in Clients |-> Away]
        /\ now = 1

(* Whatever becomes of the files: versions stay as they are. *)
Edit == UNCHANGED <<versions, session, now>>

Tick == now' = now + 1 /\ UNCHANGED <<files, versions, session>>

Come(c) == /\ session[c] = Away
           /\ session' = [session EXCEPT ![c] = Idle]
           /\ UNCHANGED <<files, versions, now>>

Name(c, p) ==
  /\ session[c] = Idle
  /\ session' = [session EXCEPT ![c] = Beginning([path |-> p, at |-> now])]
  /\ UNCHANGED <<files, versions, now>>

Begin(c) ==
  /\ IsBeginning(c)
  /\ LET v == session[c].version IN
       /\ v.path \in DOMAIN files
       /\ session' = [session EXCEPT ![c] = Saving(v, files[v.path])]
       /\ versions' = But(v)
  /\ UNCHANGED <<files, now>>

Save(c) ==
  /\ IsSaving(c)
  /\ LET v == session[c].version
         new == session[c].content
     IN versions' = IF new = Empty THEN versions
                    ELSE [w \in DOMAIN versions \cup {v} |-> IF w = v THEN new ELSE versions[w]]
  /\ session' = [session EXCEPT ![c] = Idle]
  /\ UNCHANGED <<files, now>>

(* Whoever is just saving that version saves nothing. *)
Remove(c, v) ==
  /\ session[c] = Idle
  /\ versions' = But(v)
  /\ session' = [d \in Clients |-> IF IsSaving(d) /\ session[d].version = v THEN Idle ELSE session[d]]
  /\ UNCHANGED <<files, now>>

Go(c) ==
  /\ session[c] # Away
  /\ session' = [session EXCEPT ![c] = Away]
  /\ \/ UNCHANGED versions
     \/ IsBeginning(c) /\ versions' = But(session[c].version)
  /\ UNCHANGED <<files, now>>

Next == \/ Edit \/ Tick
        \/ \E c \in Clients:
             \/ Come(c) \/ Begin(c) \/ Save(c) \/ Go(c)
             \/ \E p \in Paths: Name(c, p)
             \/ \E v \in DOMAIN versions \cup {session[d].version: d \in {e \in Clients: IsSaving(e)}}:
                  Remove(c, v)

Spec == Init /\ [][Next]_vars
=============================================================================
