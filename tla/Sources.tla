------------------------------ MODULE Sources ------------------------------
(***************************************************************************)
(* Source folders of projects and conversations (webui_server.py,          *)
(* workspace/service.py).  Each owner has them in two places: the entry of *)
(* the owner in its index (what the page shows) and sources.json of the    *)
(* workspace service (what is searched and read).  The service takes no    *)
(* lock.  The handlers of projects hold _PROJECTS_LOCK throughout, but for *)
(* the deletion of a project; those of conversations hold                  *)
(* _CONVERSATIONS_LOCK only while they change the index, so each such      *)
(* section is one step here.  The search indexes, which a search makes     *)
(* anew, are left out; so is the endpoint of the legacy workspace, which   *)
(* the page does not use: Migrated projects have been through it.          *)
(***************************************************************************)
EXTENDS FiniteSets, Naturals

CONSTANTS Projects, Chats, Folders, NoEntry, NoJob,
          Migrated,         \* projects that had a legacy workspace once
          MaxSources,       \* MAX_SOURCES
          MaxAsks           \* bound: requests in all

VARIABLES
    index,      \* index[o]: the folders the index lists for o, or NoEntry
    kept,       \* kept[o]: the folders in sources.json of o
    jobs,       \* the requests in flight
    holder,     \* the request inside _PROJECTS_LOCK, or NoJob
    asked,      \* history: how many requests there were
    wanted,     \* history: what the answered requests for o come to
    raced       \* history: owners whose requests overlapped, as to each other
                \* (a conversation) or a deletion (a project), or died

sourceVars == <<index, kept, jobs, holder, asked, wanted, raced>>

Owners == Projects \cup Chats

\* A request in flight.
JobSet ==
    [kind : {"attach", "detach", "delete"}, owner : Owners, folder : Folders \cup {NoEntry},
     step : {"sent", "entered", "loaded", "checked", "done", "read", "unlisted"},
     seen : SUBSET Folders, idx : [Projects -> (SUBSET Folders) \cup {NoEntry}] \cup {NoEntry}]

\* No entry is not an empty one, nor a reading of the index; no job is no request.
ASSUME SourcesAssumption ==
    /\ Projects \cap Chats = {} /\ Migrated \subseteq Projects
    /\ \A S \in SUBSET Folders : S # NoEntry
    /\ \A idx \in [Projects -> (SUBSET Folders) \cup {NoEntry}] : idx # NoEntry
    /\ \A j \in JobSet : j # NoJob

\* seen is what the request read: of sources.json, of the index of projects.
Job(kind, o, f) == [kind |-> kind, owner |-> o, folder |-> f, step |-> "sent",
                    seen |-> {}, idx |-> NoEntry]

SourcesInit ==
    /\ index = [o \in Owners |-> IF o \in Migrated THEN {} ELSE NoEntry]
    /\ kept = [o \in Owners |-> {}]
    /\ jobs = {} /\ holder = NoJob
    /\ asked = 0 /\ wanted = index /\ raced = {}

Indexed(o) == index[o] # NoEntry

\* An identifier is new, or nothing is left of its owner.
Unknown(o) ==
    ~Indexed(o) /\ wanted[o] = NoEntry /\ kept[o] = {} /\ \A j \in jobs : j.owner # o

With(o, f) == [index EXCEPT ![o] = @ \cup {f}]
Without(o, f) == [index EXCEPT ![o] = @ \ {f}]

\* The job is replaced by what it has become, and so is the holder of the lock.
Becomes(j, k) ==
    /\ jobs' = (jobs \ {j}) \cup {k}
    /\ holder' = IF holder = j THEN k ELSE holder

Ends(j) ==
    /\ jobs' = jobs \ {j}
    /\ holder' = IF holder = j THEN NoJob ELSE holder

\* Jobs that may disturb one another.
Overlapping(k) ==
    {j \in jobs :
        \/ j.owner = k.owner /\ k.owner \in Chats
        \/ {j.owner, k.owner} \subseteq Projects /\ "delete" \in {j.kind, k.kind}}

AskFor(kind, o, f) ==
    LET k == Job(kind, o, f) IN
    /\ k \notin jobs /\ jobs' = jobs \cup {k}
    /\ asked < MaxAsks /\ asked' = asked + 1
    /\ raced' = IF Overlapping(k) = {} THEN raced
                ELSE raced \cup {o} \cup {j.owner : j \in Overlapping(k)}
    /\ UNCHANGED <<index, kept, holder, wanted>>

-----------------------------------------------------------------------------
(* workspace/service.py, the same for projects and conversations *)

\* attach: a folder that is there already is refused.
LoadToAttach(j) ==
    /\ j.kind = "attach" /\ j.step = "entered"
    /\ IF j.folder \in kept[j.owner]
        THEN Ends(j)
        ELSE Becomes(j, [j EXCEPT !.step = "loaded", !.seen = kept[j.owner]])
    /\ UNCHANGED <<index, kept, asked, wanted, raced>>

\* The limit is checked on a second reading; too large a folder is refused.
CheckLimit(j) ==
    /\ j.kind = "attach" /\ j.step = "loaded"
    /\ \/ Cardinality(kept[j.owner]) < MaxSources /\ Becomes(j, [j EXCEPT !.step = "checked"])
       \/ Ends(j)
    /\ UNCHANGED <<index, kept, asked, wanted, raced>>

\* The list of the first reading is written back, with the folder.
Keep(j) ==
    /\ j.kind = "attach" /\ j.step = "checked"
    /\ kept' = [kept EXCEPT ![j.owner] = j.seen \cup {j.folder}]
    /\ Becomes(j, [j EXCEPT !.step = "done", !.seen = {}])
    /\ UNCHANGED <<index, asked, wanted, raced>>

LoadToDetach(j) ==
    /\ j.kind = "detach" /\ j.step = "entered"
    /\ Becomes(j, [j EXCEPT !.step = "loaded", !.seen = kept[j.owner]])
    /\ UNCHANGED <<index, kept, asked, wanted, raced>>

Forget(j) ==
    /\ j.kind = "detach" /\ j.step = "loaded"
    /\ kept' = [kept EXCEPT ![j.owner] = j.seen \ {j.folder}]
    /\ IF j.owner \in Chats
        THEN Ends(j) /\ wanted' = [wanted EXCEPT ![j.owner] = IF @ = NoEntry THEN @ ELSE @ \ {j.folder}]
        ELSE Becomes(j, [j EXCEPT !.step = "done", !.seen = {}]) /\ UNCHANGED wanted
    /\ UNCHANGED <<index, asked, raced>>

\* remove_project and remove_conversation
ForgetAll(j) ==
    /\ j.kind = "delete" /\ j.step = "unlisted"
    /\ kept' = [kept EXCEPT ![j.owner] = {}]
    /\ wanted' = [wanted EXCEPT ![j.owner] = NoEntry]
    /\ Ends(j) /\ UNCHANGED <<index, asked, raced>>

-----------------------------------------------------------------------------
(* Conversations *)

\* A new conversation inherits the folders of its project; those that cannot be
\* attached are listed all the same.
CreateChat(c) ==
    /\ Unknown(c)
    /\ \E S \in {{}} \cup {index[p] : p \in {q \in Projects : Indexed(q)}} : \E T \in SUBSET S :
        /\ index' = [index EXCEPT ![c] = S] /\ kept' = [kept EXCEPT ![c] = T]
        /\ wanted' = [wanted EXCEPT ![c] = S]
        /\ raced' = IF T = S THEN raced ELSE raced \cup {c}
    /\ UNCHANGED <<jobs, holder, asked>>

ChatAttach(j) ==
    /\ j.kind = "attach" /\ j.owner \in Chats /\ j.step = "sent"
    /\ IF Indexed(j.owner) THEN Becomes(j, [j EXCEPT !.step = "entered"]) ELSE Ends(j)
    /\ UNCHANGED <<index, kept, asked, wanted, raced>>

ChatAttached(j) ==
    /\ j.kind = "attach" /\ j.owner \in Chats /\ j.step = "done" /\ Ends(j)
    /\ index' = IF Indexed(j.owner) THEN With(j.owner, j.folder) ELSE index
    /\ wanted' = [wanted EXCEPT ![j.owner] = IF @ = NoEntry THEN @ ELSE @ \cup {j.folder}]
    /\ UNCHANGED <<kept, asked, raced>>

\* The index first, the service afterwards.
ChatDetach(j) ==
    /\ j.kind = "detach" /\ j.owner \in Chats /\ j.step = "sent"
    /\ IF Indexed(j.owner)
        THEN index' = Without(j.owner, j.folder) /\ Becomes(j, [j EXCEPT !.step = "entered"])
        ELSE Ends(j) /\ UNCHANGED index
    /\ UNCHANGED <<kept, asked, wanted, raced>>

ChatDelete(j) ==
    /\ j.kind = "delete" /\ j.owner \in Chats /\ j.step = "sent"
    /\ index' = [index EXCEPT ![j.owner] = NoEntry]
    /\ Becomes(j, [j EXCEPT !.step = "unlisted"])
    /\ UNCHANGED <<kept, asked, wanted, raced>>

-----------------------------------------------------------------------------
(* Projects: their part of index is one file *)

ProjectIndex == [p \in Projects |-> index[p]]

\* What a handler read of that file is written back with its change.
WriteIndex(projects) == index' = [o \in Owners |-> IF o \in Projects THEN projects[o] ELSE index[o]]

CreateProject(p) ==
    /\ holder = NoJob /\ p \notin Migrated /\ Unknown(p)
    /\ index' = [index EXCEPT ![p] = {}] /\ wanted' = [wanted EXCEPT ![p] = {}]
    /\ raced' = IF \E j \in jobs : j.kind = "delete" /\ j.owner \in Projects
                THEN raced \cup {p} ELSE raced
    /\ UNCHANGED <<kept, jobs, holder, asked>>

\* remove_project_source fails on the null that create_project has left for the
\* legacy workspace, before it has changed anything.
Fails(j) == ~Indexed(j.owner) \/ (j.kind = "detach" /\ j.owner \notin Migrated)

\* MUTANT of ProjectEnter: the lock is not taken.
ProjectEnterUnlocked(j) ==
    /\ j.kind \in {"attach", "detach"} /\ j.owner \in Projects /\ j.step = "sent"
    /\ IF Fails(j)
        THEN jobs' = jobs \ {j}
        ELSE jobs' = (jobs \ {j}) \cup {[j EXCEPT !.step = "entered", !.idx = ProjectIndex]}
    /\ UNCHANGED <<index, kept, holder, asked, wanted, raced>>

\* add_project_source and remove_project_source take the lock to their end.
ProjectEnter(j) ==
    /\ j.kind \in {"attach", "detach"} /\ j.owner \in Projects /\ j.step = "sent"
    /\ holder = NoJob
    /\ IF Fails(j)
        THEN Ends(j)
        ELSE LET k == [j EXCEPT !.step = "entered", !.idx = ProjectIndex]
             IN jobs' = (jobs \ {j}) \cup {k} /\ holder' = k
    /\ UNCHANGED <<index, kept, asked, wanted, raced>>

ProjectLeave(j) ==
    /\ j.kind \in {"attach", "detach"} /\ j.owner \in Projects /\ j.step = "done" /\ Ends(j)
    /\ LET Change(S) == IF j.kind = "attach" THEN S \cup {j.folder} ELSE S \ {j.folder} IN
        /\ WriteIndex([j.idx EXCEPT ![j.owner] = Change(@)])
        /\ wanted' = [wanted EXCEPT ![j.owner] = IF @ = NoEntry THEN @ ELSE Change(@)]
    /\ UNCHANGED <<kept, asked, raced>>

\* delete_project reads and writes the index without the lock.
ProjectDelete(j) ==
    /\ j.kind = "delete" /\ j.owner \in Projects
    /\ \/ /\ j.step = "sent" /\ UNCHANGED index
          /\ Becomes(j, [j EXCEPT !.step = "read", !.idx = ProjectIndex])
       \/ /\ j.step = "read" /\ WriteIndex([j.idx EXCEPT ![j.owner] = NoEntry])
          /\ Becomes(j, [j EXCEPT !.step = "unlisted", !.idx = NoEntry])
    /\ UNCHANGED <<kept, asked, wanted, raced>>

-----------------------------------------------------------------------------
\* The server dies: its requests are gone, and so are the locks.
SourcesRestart ==
    /\ jobs' = {} /\ holder' = NoJob
    /\ raced' = raced \cup {j.owner : j \in jobs}
    /\ UNCHANGED <<index, kept, asked, wanted>>

SourcesNext ==
    \/ \E c \in Chats : CreateChat(c)
    \/ \E p \in Projects : CreateProject(p)
    \/ \E o \in {p \in Owners : Indexed(p)} :
        \/ \E f \in Folders : AskFor("attach", o, f) \/ AskFor("detach", o, f)
        \/ AskFor("delete", o, NoEntry)
    \/ \E j \in jobs :
        \/ LoadToAttach(j) \/ CheckLimit(j) \/ Keep(j)
        \/ LoadToDetach(j) \/ Forget(j) \/ ForgetAll(j)
        \/ ChatAttach(j) \/ ChatAttached(j) \/ ChatDetach(j) \/ ChatDelete(j)
        \/ ProjectEnter(j) \/ ProjectLeave(j) \/ ProjectDelete(j)

SourcesSpec == SourcesInit /\ [][SourcesNext]_sourceVars

-----------------------------------------------------------------------------
\* When nothing is under way for an owner, the index shows and the service
\* serves what the answered requests come to: no folder is lost, none that was
\* taken away is still read, no project is forgotten or comes back.  Requests
\* for one project may overlap; only overlapping requests for one conversation,
\* an overlapping deletion of a project, or a death of the server break it.
SourcesAsAsked ==
    \A o \in Owners \ raced : (\A j \in jobs : j.owner # o) =>
        /\ index[o] = wanted[o]
        /\ kept[o] = IF wanted[o] = NoEntry THEN {} ELSE wanted[o]
=============================================================================
