--------------------------- MODULE WebServerProofs ---------------------------
(***************************************************************************)
(* The parts of the web server, for any number of schedules, tasks and     *)
(* conversations and any number of deaths of the process.  A step of the   *)
(* server is a step or a restart of one part, so each part has an          *)
(* invariant of its own:                                                   *)
(*                                                                         *)
(*   - a one-shot that may still be triggered has not used up what its     *)
(*     creation, its re-enablings and the crashes allow (SchedInv);        *)
(*   - a task that does not look running has no more threads than          *)
(*     cancellations (QueueInv);                                           *)
(*   - a conversation that is being deleted and is listed all the same was *)
(*     saved in the middle of its deletion (FilesInv);                     *)
(*   - what a conversation shows is on the disk, on its way there or       *)
(*     marked, and an attachment that no message shows has a sweep to come *)
(*     or stays in the file of a conversation that is gone (DiskInv);      *)
(*   - the index and the service have the folders that an owner's answered *)
(*     requests come to, but for what the one job that is midway has done  *)
(*     (SourcesInv);                                                       *)
(*   - an operation of the brain is about a row that is there, and what it *)
(*     writes on a note is what the note says (VaultInv);                  *)
(*   - rows and chunks are those of what the manifest acknowledges, but    *)
(*     for the note an operation is at and what is marked (MindInv).       *)
(***************************************************************************)
EXTENDS WebServer, TLAPS, WellFoundedInduction

(***************************************************************************)
(* The scheduler                                                           *)
(***************************************************************************)

\* The polling thread may still trigger s in the arming it is in.
Armed(s) == s \in due \/ (stored[s] = "on" /\ firing # s)

SchedTypeOK ==
    /\ stored \in [Schedules -> {"new", "on", "off", "removed"}]
    /\ due \in SUBSET Schedules /\ firing \in Schedules \cup {NoSchedule}
    /\ rearmed \in [Schedules -> Nat] /\ fires \in [Schedules -> Nat] /\ crashes \in Nat

\* What was triggered and what may be triggered next stays within the allowance.
FireOK(s) ==
    /\ fires[s] <= 1 + rearmed[s] + crashes
    /\ Armed(s) => fires[s] <= rearmed[s] + crashes
    /\ stored[s] = "new" => fires[s] = 0 /\ s \notin due /\ firing # s

SchedInv ==
    /\ SchedTypeOK
    /\ firing # NoSchedule => loop = "working" /\ firing \notin due
    /\ due # {} => loop = "working"
    /\ \A s \in OneShots : FireOK(s)
    /\ \A s \in Schedules : stored[s] = "new" => s \notin due /\ firing # s

\* A step of the scheduler keeps its invariant.
LEMMA SchedStep == SchedInv /\ SchedNext /\ crashes' = crashes => SchedInv'
<1> SUFFICES ASSUME SchedInv, SchedNext, crashes' = crashes PROVE SchedInv'
  OBVIOUS
<1> USE SchedulerAssumption DEF SchedInv, SchedTypeOK, FireOK, Armed
<1>1. ASSUME NEW s \in Schedules, Add(s) PROVE SchedInv'
  BY <1>1 DEF Add
<1>2. ASSUME NEW s \in Schedules, Remove(s) PROVE SchedInv'
  BY <1>2 DEF Remove
<1>3. ASSUME NEW s \in Schedules, Toggle(s) PROVE SchedInv'
  BY <1>3 DEF Toggle
<1>4. ASSUME NEW s \in Schedules, TimePasses(s) PROVE SchedInv'
  BY <1>4 DEF TimePasses
<1>5. CASE Poll
  BY <1>5 DEF Poll
<1>6. ASSUME NEW s \in Schedules, Trigger(s) PROVE SchedInv'
  BY <1>6 DEF Trigger
<1>7. CASE Mark
  BY <1>7 DEF Mark
<1>8. CASE Wait
  BY <1>8 DEF Wait
<1> QED
  BY <1>1, <1>2, <1>3, <1>4, <1>5, <1>6, <1>7, <1>8 DEF SchedNext, LoopStep

\* So does a restart: the crash pays for the trigger whose mark it lost.
LEMMA SchedAfterRestart == SchedInv /\ SchedRestart /\ crashes' = crashes + 1 => SchedInv'
  BY SchedulerAssumption DEF SchedInv, SchedTypeOK, FireOK, Armed, SchedRestart

(***************************************************************************)
(* The task queue                                                          *)
(***************************************************************************)

QueueInv ==
    /\ threads \in [Tasks -> Nat] /\ cancels \in [Tasks -> Nat]
    /\ status = [t \in Tasks |-> status[t]]
    /\ \A t \in Tasks : /\ threads[t] <= 1 + cancels[t]
                        /\ status[t] # "running" => threads[t] <= cancels[t]

\* A step of the queue keeps its invariant.
LEMMA QueueStep == QueueInv /\ QueueNext => QueueInv'
<1> SUFFICES ASSUME QueueInv, NEW t \in Tasks,
                    \/ AddTask(t) \/ RunTask(t) \/ FinishTask(t) \/ CancelTask(t)
                    \/ DeleteMark(t) \/ DeleteRead(t) \/ DeleteWrite(t)
             PROVE  QueueInv'
  BY DEF QueueNext
<1> USE DEF QueueInv
<1>1. CASE AddTask(t)
  BY <1>1 DEF AddTask, Put
<1>2. CASE RunTask(t)
  BY <1>2 DEF RunTask, Put
<1>3. CASE FinishTask(t)
  BY <1>3 DEF FinishTask, Put
<1>4. CASE CancelTask(t)
  BY <1>4 DEF CancelTask, Put
<1>5. CASE DeleteMark(t)
  BY <1>5 DEF DeleteMark
<1>6. CASE DeleteRead(t) \/ DeleteWrite(t)
  BY <1>6 DEF DeleteRead, DeleteWrite
<1> QED
  BY <1>1, <1>2, <1>3, <1>4, <1>5, <1>6

\* A restart has no threads at all.
LEMMA QueueAfterRestart == QueueInv /\ QueueRestart => QueueInv'
  BY DEF QueueInv, QueueRestart

(***************************************************************************)
(* The conversation files                                                  *)
(***************************************************************************)

FilesTypeOK ==
    /\ listed \subseteq Convs
    /\ md \in [Convs -> (SUBSET Items) \cup {NoFile}] /\ page \in [Convs -> (SUBSET Items) \cup {NoFile}]
    /\ composer \subseteq Attachments /\ dirty \in Convs \cup {NoConv}
    /\ requests \subseteq RequestSet /\ locked \in RequestSet \cup {NoRequest}

WellAddressed(r) ==
    /\ r.kind \in {"first", "save", "title", "delete"} => r.conv \in Convs
    /\ r.kind \in {"upload", "discard"} => r.item \in Attachments

\* d is a deletion that has left the index and not yet taken the file.
Departing(d) == d.kind = "delete" /\ d.step = "unlisted"

\* The save inside the lock has written a file; if a deletion is about to take
\* that file, or has taken it, the save fell into the middle of the deletion.
LockedOK ==
    locked # NoRequest =>
        /\ locked.kind \in {"first", "save"} /\ locked.step = "written"
        /\ md[locked.conv] = NoFile => locked.conv \in revived
        /\ \A d \in requests : Departing(d) /\ d.conv = locked.conv => d.conv \in revived

FilesInv ==
    /\ FilesTypeOK
    /\ \A r \in requests : WellAddressed(r)
    /\ locked # NoRequest => locked \in requests
    /\ LockedOK
    /\ \A d \in requests : Departing(d) /\ d.conv \in listed => d.conv \in revived
    /\ ListedHasFile

\* A request keeps what it is about from step to step.
LEMMA StepKeeps ==
    ASSUME NEW r \in RequestSet, NEW s \in {"sent", "written", "read", "titled", "unlisted", "unlinked", "scanned"}
    PROVE  /\ [r EXCEPT !.step = s] \in RequestSet
           /\ [r EXCEPT !.step = s].kind = r.kind /\ [r EXCEPT !.step = s].conv = r.conv
           /\ [r EXCEPT !.step = s].step = s /\ [r EXCEPT !.step = s].item = r.item
  BY DEF RequestSet

\* A new request is one, and nothing a deletion or a save has done yet.
LEMMA AskedIsNew ==
    ASSUME FilesInv, NEW k \in {"first", "save", "title", "delete"}, NEW c \in Convs,
           NEW S \in SUBSET Items, Ask(Request(k, c, NoItem, S, "sent"))
    PROVE  /\ requests' \subseteq RequestSet
           /\ \A r \in requests' : WellAddressed(r)
           /\ \A d \in requests' : Departing(d) => d \in requests
           /\ requests \subseteq requests'
<1> DEFINE q == Request(k, c, NoItem, S, "sent")
<1>1. q \in RequestSet /\ WellAddressed(q) /\ ~ Departing(q)
  BY DEF RequestSet, Request, WellAddressed, Departing
<1>2. requests' = requests \cup {q}
  BY DEF Ask
<1> QED
  BY <1>1, <1>2 DEF FilesInv, FilesTypeOK

\* The same of a request about one attachment.
LEMMA AskedForItem ==
    ASSUME FilesInv, NEW k \in {"upload", "discard"}, NEW a \in Attachments,
           Ask(Request(k, NoConv, a, {}, "sent"))
    PROVE  /\ requests' \subseteq RequestSet
           /\ \A r \in requests' : WellAddressed(r)
           /\ \A d \in requests' : Departing(d) => d \in requests
           /\ requests \subseteq requests'
<1> DEFINE q == Request(k, NoConv, a, {}, "sent")
<1>1. q \in RequestSet /\ WellAddressed(q) /\ ~ Departing(q)
  BY DEF RequestSet, Request, WellAddressed, Departing
<1>2. requests' = requests \cup {q}
  BY DEF Ask
<1> QED
  BY <1>1, <1>2 DEF FilesInv, FilesTypeOK

\* Whoever asks, and leaves the disk and the lock alone, keeps the invariant.
LEMMA OnlyAsking ==
    ASSUME FilesInv, UNCHANGED <<listed, md, locked, revived>>,
           page' \in [Convs -> (SUBSET Items) \cup {NoFile}],
           composer' \subseteq Attachments, dirty' \in Convs \cup {NoConv},
           requests' \subseteq RequestSet, \A r \in requests' : WellAddressed(r),
           \A d \in requests' : Departing(d) => d \in requests,
           locked # NoRequest => locked \in requests'
    PROVE  FilesInv'
  BY DEF FilesInv, FilesTypeOK, LockedOK, ListedHasFile

\* The page keeps the invariant.
LEMMA PageStep ==
    ASSUME FilesInv,
           \/ \E c \in Convs : Start(c) \/ Send(c) \/ Reply(c) \/ End(c) \/ Delete(c)
           \/ Persist
           \/ \E a \in Attachments : Upload(a) \/ Discard(a)
    PROVE  FilesInv'
<1> USE DEF FilesInv, FilesTypeOK
<1>m. \A m \in Messages : m \in SUBSET Items
  BY DEF Messages, Items, Fresh
<1>1. ASSUME NEW c \in Convs, Start(c) PROVE FilesInv'
  <2>1. PICK m \in Messages : /\ page' = [page EXCEPT ![c] = m]
                              /\ Ask(Request("first", c, NoItem, m, "sent"))
    BY <1>1 DEF Start
  <2>2. UNCHANGED <<listed, md, locked, revived, dirty>> /\ composer' = {}
    BY <1>1 DEF Start, diskVars
  <2> QED
    BY <1>m, <2>1, <2>2, AskedIsNew, OnlyAsking
<1>2. ASSUME NEW c \in Convs, Send(c) PROVE FilesInv'
  <2>1. PICK m \in Messages : page' = [page EXCEPT ![c] = @ \cup m]
    BY <1>2 DEF Send
  <2>2. page[c] \in SUBSET Items
    BY <1>2 DEF Send, Open
  <2>3. UNCHANGED <<listed, md, locked, revived, requests>> /\ composer' = {} /\ dirty' = c
    BY <1>2 DEF Send, diskVars, MarkDirty
  <2> QED
    BY <1>m, <2>1, <2>2, <2>3, OnlyAsking
<1>3. ASSUME NEW c \in Convs, Reply(c) PROVE FilesInv'
  <2>1. PICK t \in Fresh(Texts) : page' = [page EXCEPT ![c] = @ \cup {t}]
    BY <1>3 DEF Reply
  <2>2. page[c] \in SUBSET Items /\ t \in Items
    BY <1>3, <2>1 DEF Reply, Open, Fresh, Items
  <2>3. UNCHANGED <<listed, md, locked, revived, requests, composer>> /\ dirty' = c
    BY <1>3 DEF Reply, diskVars, MarkDirty
  <2> QED
    BY <2>1, <2>2, <2>3, OnlyAsking
<1>4. ASSUME NEW c \in Convs, End(c) PROVE FilesInv'
  <2>1. UNCHANGED <<listed, md, locked, revived, composer, page>> /\ dirty' = c
    BY <1>4 DEF End, diskVars, MarkDirty
  <2>2. CASE UNCHANGED requests
    BY <2>1, <2>2, OnlyAsking
  <2>3. CASE Ask(Request("title", c, NoItem, {}, "sent"))
    BY <2>1, <2>3, AskedIsNew, OnlyAsking
  <2> QED
    BY <1>4, <2>2, <2>3 DEF End
<1>5. ASSUME NEW c \in Convs, Delete(c) PROVE FilesInv'
  <2>1. /\ UNCHANGED <<listed, md, locked, revived, composer, dirty>>
        /\ page' = [page EXCEPT ![c] = NoFile] /\ Ask(Request("delete", c, NoItem, {}, "sent"))
    BY <1>5 DEF Delete, diskVars
  <2> QED
    BY <2>1, AskedIsNew, OnlyAsking
<1>6. CASE Persist
  <2>1. UNCHANGED <<listed, md, locked, revived, composer, page>> /\ dirty' = NoConv
    BY <1>6 DEF Persist, diskVars
  <2>2. CASE Open(dirty)
    <3>1. dirty \in Convs /\ page[dirty] \in SUBSET Items
      BY <1>6, <2>2 DEF Persist, Open
    <3>2. Ask(Request("save", dirty, NoItem, page[dirty], "sent"))
      BY <1>6, <2>2 DEF Persist
    <3> QED
      BY <2>1, <3>1, <3>2, AskedIsNew, OnlyAsking
  <2>3. CASE ~ Open(dirty)
    <3>1. UNCHANGED requests
      BY <1>6, <2>3 DEF Persist
    <3> QED
      BY <2>1, <3>1, OnlyAsking
  <2> QED
    BY <2>2, <2>3
<1>7. ASSUME NEW a \in Attachments, Upload(a) PROVE FilesInv'
  <2>1. /\ UNCHANGED <<listed, md, locked, revived, composer, page, dirty>>
        /\ Ask(Request("upload", NoConv, a, {}, "sent"))
    BY <1>7 DEF Upload, pageVars
  <2> QED
    BY <2>1, AskedForItem, OnlyAsking
<1>8. ASSUME NEW a \in Attachments, Discard(a) PROVE FilesInv'
  <2>1. /\ UNCHANGED <<listed, md, locked, revived, page, dirty>> /\ composer' = composer \ {a}
        /\ Ask(Request("discard", NoConv, a, {}, "sent"))
    BY <1>8 DEF Discard, diskVars
  <2> QED
    BY <2>1, AskedForItem, OnlyAsking
<1> QED
  BY <1>1, <1>2, <1>3, <1>4, <1>5, <1>6, <1>7, <1>8

\* The server keeps the invariant: what it does to one request r.
LEMMA ServerStep ==
    ASSUME FilesInv, NEW r \in requests,
           \/ Uploaded(r) \/ SaveFile(r) \/ SaveIndex(r)
           \/ TitleRead(r) \/ TitleWrite(r) \/ TitleFailed(r) \/ TitleAnswer(r)
           \/ DeleteIndex(r) \/ DeleteFile(r) \/ DiscardFile(r) \/ Scan(r) \/ Sweep(r)
    PROVE  FilesInv'
<1> USE DEF FilesInv, FilesTypeOK
<1>r. /\ r \in RequestSet /\ r.content \in SUBSET Items
      /\ r.kind \in {"first", "save", "title", "delete"} => r.conv \in Convs
      /\ r.kind \in {"upload", "discard"} => r.item \in Attachments
  BY DEF WellAddressed, RequestSet
<1>s. ASSUME NEW s \in {"sent", "written", "read", "titled", "unlisted", "unlinked", "scanned"},
             Step(r, s)
      PROVE  /\ requests' \subseteq RequestSet /\ \A q \in requests' : WellAddressed(q)
             /\ \A d \in requests' : Departing(d) =>
                    d \in requests \/ (s = "unlisted" /\ d.conv = r.conv)
             /\ \A q \in requests : q # r => q \in requests'
             /\ [r EXCEPT !.step = s] \in requests'
  <2> DEFINE q == [r EXCEPT !.step = s]
  <2>1. q \in RequestSet /\ q.kind = r.kind /\ q.conv = r.conv /\ q.step = s /\ q.item = r.item
    BY ONLY <1>r, <1>s, StepKeeps, Zenon
  <2>2. requests' = (requests \ {r}) \cup {q}
    BY <1>s DEF Step
  <2>3. WellAddressed(q) /\ (Departing(q) => s = "unlisted" /\ q.conv = r.conv)
    BY <2>1, <1>r DEF WellAddressed, Departing
  <2> QED
    BY <2>1, <2>2, <2>3
<1>d. ASSUME Drop(r)
      PROVE  requests' \subseteq requests /\ \A q \in requests : q # r => q \in requests'
  BY <1>d DEF Drop
<1>l. locked = r => r.kind \in {"first", "save"} /\ r.step = "written"
  BY <1>r, ConvAssumption DEF LockedOK
<1>1. CASE Uploaded(r)
  <2>1. /\ UNCHANGED <<listed, md, locked, revived, page, dirty>>
        /\ composer' = composer \cup {r.item} /\ Drop(r) /\ r.kind = "upload"
    BY <1>1 DEF Uploaded, diskVars
  <2> QED
    BY <2>1, <1>d, <1>r, <1>l, OnlyAsking
<1>2. CASE SaveFile(r)
  <2>1. /\ UNCHANGED <<listed, page, composer, dirty>> /\ locked = NoRequest
        /\ md' = [md EXCEPT ![r.conv] = r.content] /\ Step(r, "written") /\ r.conv \in Convs
        /\ locked' = [r EXCEPT !.step = "written"] /\ r.kind \in {"first", "save"}
    BY <1>2, <1>r DEF SaveFile, pageVars, WriteFile
  <2>2. /\ revived \subseteq revived'
        /\ \A d \in requests : Departing(d) /\ d.conv = r.conv => d.conv \in revived'
    BY <1>2 DEF SaveFile, Departing
  <2>3. locked' \in RequestSet /\ locked'.kind = r.kind /\ locked'.conv = r.conv /\ locked'.step = "written"
    BY <2>1, <1>r, StepKeeps
  <2>4. /\ \A c \in Convs : md'[c] = IF c = r.conv THEN r.content ELSE md[c]
        /\ md' \in [Convs -> (SUBSET Items) \cup {NoFile}] /\ r.content # NoFile
    BY <2>1, <1>r, ConvAssumption
  <2>5. ListedHasFile' /\ LockedOK'
    BY <2>1, <2>2, <2>3, <2>4, <1>s DEF ListedHasFile, LockedOK
  <2> QED
    BY <2>1, <2>2, <2>3, <2>4, <2>5, <1>s
<1>3. CASE SaveIndex(r)
  <2>1. /\ UNCHANGED <<md, page, composer, revived>> /\ locked = r /\ locked' = NoRequest
        /\ listed' = listed \cup {r.conv} /\ Drop(r) /\ r.conv \in Convs
        /\ dirty' \in Convs \cup {NoConv}
    BY <1>3, <1>r, <1>l DEF SaveIndex, MarkDirty
  <2>2. locked # NoRequest
    BY <2>1, <1>r, ConvAssumption
  <2> QED
    BY <2>1, <2>2, <1>d DEF ListedHasFile, LockedOK
<1>4. CASE TitleRead(r)
  <2>1. UNCHANGED <<listed, md, locked, revived, page, composer, dirty>> /\ r.kind = "title"
    BY <1>4 DEF TitleRead, diskVars, pageVars
  <2>2. CASE md[r.conv] = NoFile
    <3>1. Drop(r)
      BY <1>4, <2>2 DEF TitleRead
    <3> QED
      BY <2>1, <3>1, <1>d, <1>l, OnlyAsking
  <2>3. CASE md[r.conv] # NoFile
    <3> DEFINE q == [r EXCEPT !.step = "read", !.content = md[r.conv]]
    <3>1. requests' = (requests \ {r}) \cup {q}
      BY <1>4, <2>3 DEF TitleRead
    <3>2. q \in RequestSet /\ WellAddressed(q) /\ ~ Departing(q)
      BY <2>1, <2>3, <1>r DEF RequestSet, WellAddressed, Departing
    <3> QED
      BY <2>1, <3>1, <3>2, <1>l, OnlyAsking
  <2> QED
    BY <2>2, <2>3
<1>5. CASE TitleWrite(r)
  <2>1. /\ UNCHANGED <<listed, locked, revived, page, composer, dirty>> /\ r.kind = "title"
        /\ locked = NoRequest
    BY <1>5 DEF TitleWrite, pageVars
  <2>2. CASE r.conv \in listed
    <3>1. md' = [md EXCEPT ![r.conv] = r.content] /\ Step(r, "titled")
      BY <1>5, <2>2 DEF TitleWrite, WriteFile
    <3>2. /\ \A c \in Convs : md'[c] = NoFile => md[c] = NoFile
          /\ md' \in [Convs -> (SUBSET Items) \cup {NoFile}]
      BY <3>1, <1>r, ConvAssumption
    <3> QED
      BY <2>1, <3>1, <3>2, <1>s DEF ListedHasFile, LockedOK
  <2>3. CASE r.conv \notin listed
    <3>1. Drop(r) /\ UNCHANGED md
      BY <1>5, <2>3 DEF TitleWrite
    <3> QED
      BY <2>1, <3>1, <1>d, <1>l, OnlyAsking
  <2> QED
    BY <2>2, <2>3
<1>6. CASE TitleFailed(r)
  <2>1. UNCHANGED <<listed, md, locked, revived, page, composer, dirty>> /\ r.kind = "title" /\ Drop(r)
    BY <1>6 DEF TitleFailed, diskVars, pageVars
  <2> QED
    BY <2>1, <1>d, <1>l, OnlyAsking
<1>7. CASE TitleAnswer(r)
  <2>1. /\ UNCHANGED <<listed, md, locked, revived, page, composer>> /\ r.kind = "title" /\ Drop(r)
        /\ dirty' = r.conv
    BY <1>7 DEF TitleAnswer, diskVars, MarkDirty
  <2> QED
    BY <2>1, <1>d, <1>l, <1>r, OnlyAsking
<1>8. CASE DeleteIndex(r)
  <2>1. /\ UNCHANGED <<md, locked, revived, page, composer, dirty>> /\ locked = NoRequest
        /\ listed' = listed \ {r.conv} /\ Step(r, "unlisted")
    BY <1>8 DEF DeleteIndex, pageVars
  <2> QED
    BY <2>1, <1>s DEF ListedHasFile, LockedOK
<1>9. CASE DeleteFile(r)
  <2>1. /\ UNCHANGED <<listed, locked, revived, page, composer, dirty>> /\ Departing(r)
        /\ md' = [md EXCEPT ![r.conv] = NoFile] /\ Step(r, "unlinked")
    BY <1>9 DEF DeleteFile, pageVars, Departing
  <2>2. /\ \A c \in Convs : md'[c] = IF c = r.conv THEN NoFile ELSE md[c]
        /\ md' \in [Convs -> (SUBSET Items) \cup {NoFile}]
    BY <2>1
  <2>3. locked # NoRequest => locked \in requests' /\ locked.conv \in Convs
    BY <2>1, <1>l, <1>s DEF Departing, LockedOK, WellAddressed
  <2>4. ListedHasFile' /\ LockedOK'
    BY <2>1, <2>2, <2>3, <1>s DEF ListedHasFile, LockedOK
  <2> QED
    BY <2>1, <2>2, <2>3, <2>4, <1>s
<1>10. CASE DiscardFile(r)
  <2>1. /\ UNCHANGED <<listed, md, locked, revived, page, composer, dirty>> /\ r.kind = "discard"
        /\ Step(r, "unlinked")
    BY <1>10 DEF DiscardFile, pageVars
  <2> QED
    BY <2>1, <1>s, <1>l, OnlyAsking
<1>11. CASE Scan(r)
  <2> DEFINE q == [r EXCEPT !.step = "scanned", !.content = Referenced]
  <2>1. /\ UNCHANGED <<listed, md, locked, revived, page, composer, dirty>> /\ r.step = "unlinked"
        /\ requests' = (requests \ {r}) \cup {q}
    BY <1>11 DEF Scan, diskVars, pageVars
  <2>2. q \in RequestSet /\ q.kind = r.kind /\ q.conv = r.conv /\ q.item = r.item /\ q.step = "scanned"
    BY <1>r DEF RequestSet, Referenced, Items
  <2>3. WellAddressed(q) /\ ~ Departing(q)
    BY <2>2 DEF WellAddressed, Departing
  <2> QED
    BY <2>1, <2>2, <2>3, <1>l, OnlyAsking
<1>12. CASE Sweep(r)
  <2>1. UNCHANGED <<listed, md, locked, revived, page, composer, dirty>> /\ r.step = "scanned" /\ Drop(r)
    BY <1>12 DEF Sweep, pageVars
  <2> QED
    BY <2>1, <1>d, <1>l, OnlyAsking
<1> QED
  BY <1>1, <1>2, <1>3, <1>4, <1>5, <1>6, <1>7, <1>8, <1>9, <1>10, <1>11, <1>12

\* A restart forgets the requests and the lock.
LEMMA FilesAfterRestart == FilesInv /\ ConvRestart => FilesInv'
  BY DEF ConvRestart, FilesInv, FilesTypeOK, LockedOK, ListedHasFile

(***************************************************************************)
(* What is shown, and what the disk keeps of it                            *)
(***************************************************************************)

\* What a request of each kind is at.
StepsOK ==
    \A r \in requests :
        /\ r.kind \in {"first", "save"} => /\ r.step \in {"sent", "written"}
                                           /\ r.step = "written" => locked = r
        /\ r.kind = "title" => r.step \in {"sent", "read", "titled"}
        /\ r.kind = "upload" => r.step = "sent"
        /\ r.kind = "delete" => r.step \in {"sent", "unlisted", "unlinked", "scanned"}
        /\ r.kind = "discard" => r.step \in {"sent", "unlinked", "scanned"}

\* A conversation was started before anything is known of it, and so was what it
\* holds.
UsedOK ==
    /\ \A c \in Convs : /\ md[c] # NoFile => c \in used /\ md[c] \subseteq used
                        /\ Open(c) => c \in used /\ page[c] \subseteq used
    /\ \A r \in requests : /\ r.conv \in Convs => r.conv \in used
                           /\ r.content \subseteq used
                           /\ r.kind = "upload" => r.item \in used
    /\ composer \subseteq used /\ owner \in (Convs \cap used) \cup {NoConv}
    /\ dirty \in Convs => dirty \in used

\* The page shows all that was ever saved of a conversation that is open, and a
\* conversation that is being deleted is not.
Shown(r) ==
    /\ r.kind \in {"first", "save", "title"} /\ Open(r.conv) => r.content \subseteq page[r.conv]
    /\ r.kind = "delete" => ~ Open(r.conv)
ShownOK ==
    /\ \A c \in Convs : Open(c) /\ md[c] # NoFile => md[c] \subseteq page[c]
    /\ \A r \in requests : Shown(r)

\* What is shown of c is on the disk, or on its way there, or will be: marked, or
\* about to be marked by the answer to a title.
Retitled(c) == \E r \in requests : r.kind = "title" /\ r.conv = c /\ r.step = "titled"
SavedOK ==
    \A c \in Convs \ excused : Open(c) =>
        /\ \A r, q \in Saves(c) : r = q
        /\ \A r \in Saves(c) : /\ dirty = c \/ r.content = page[c]
                               /\ r.step = "written" => md[c] = r.content
        /\ dirty = c \/ Saves(c) # {} \/ Retitled(c) \/ (c \in listed /\ md[c] = page[c])

\* A sweep under way that will take a, or the upload of a.
Promise(r, a) ==
    \/ r.kind \in {"delete", "discard"} /\ (r.step = "scanned" => a \notin r.content)
    \/ r.kind = "upload" /\ r.item = a

\* Nothing under way will take a out of the file of c.
LeavesIn(r, c, a) == r.conv = c => r.kind = "title" /\ (r.step = "read" => a \in r.content)
Safe(c, a) == \A r \in requests : LeavesIn(r, c, a)
Pending(c) == \E d \in requests : d.kind = "delete" /\ d.conv = c /\ d.step \in {"sent", "unlisted"}

\* An attachment in a file that the page has let go of goes with the file, or stays
\* in it; one that no message shows is going to be swept, or is in such a file.
HeldOK ==
    \A c \in Convs : ~ Open(c) /\ md[c] # NoFile =>
        Pending(c) \/ \A a \in (md[c] \cap files) \ leaked : Safe(c, a)
LeftOK ==
    /\ files \subseteq Attachments
    /\ \A a \in files \ (leaked \cup OnPage) :
           \/ \E r \in requests : Promise(r, a)
           \/ \E c \in Convs : md[c] # NoFile /\ a \in md[c] /\ Safe(c, a)

DiskInv == StepsOK /\ UsedOK /\ ShownOK /\ SavedOK /\ HeldOK /\ LeftOK

\* Request r becomes q.
Turns(r, q) ==
    /\ q \in RequestSet /\ q.kind = r.kind /\ q.conv = r.conv /\ q.item = r.item
    /\ requests' = (requests \ {r}) \cup {q}

\* A step of a request is the request with the other step.
LEMMA StepTurns ==
    ASSUME NEW r \in RequestSet, NEW s \in {"sent", "written", "read", "titled", "unlisted", "unlinked", "scanned"},
           Step(r, s)
    PROVE  LET q == [r EXCEPT !.step = s] IN Turns(r, q) /\ q.step = s /\ q.content = r.content
  BY DEF RequestSet, Step, Turns

\* What the server does keeps requests at their steps, and shows what it writes.
LEMMA ServerBasics ==
    ASSUME FilesInv, StepsOK, UsedOK, ShownOK, NEW r \in requests,
           \/ Uploaded(r) \/ SaveFile(r) \/ SaveIndex(r)
           \/ TitleRead(r) \/ TitleWrite(r) \/ TitleFailed(r) \/ TitleAnswer(r)
           \/ DeleteIndex(r) \/ DeleteFile(r) \/ DiscardFile(r) \/ Scan(r) \/ Sweep(r)
    PROVE  StepsOK' /\ UsedOK' /\ ShownOK'
<1>r. /\ r \in RequestSet /\ r.content \in SUBSET Items
      /\ r.kind \in {"first", "save", "title", "delete"} => r.conv \in Convs
      /\ r.kind \in {"upload", "discard"} => r.item \in Attachments
  BY DEF FilesInv, FilesTypeOK, WellAddressed, RequestSet
<1>t. page' = page /\ used' = used
  BY DEF Uploaded, SaveFile, SaveIndex, TitleRead, TitleWrite, TitleFailed, TitleAnswer, DeleteIndex,
         DeleteFile, DiscardFile, Scan, Sweep, pageVars, diskVars
<1>d. ASSUME Drop(r), locked' = locked \/ locked = r
      PROVE  StepsOK' /\ (UNCHANGED <<md, composer, owner, dirty>> => UsedOK' /\ ShownOK')
  <2>1. requests' \subseteq requests /\ r \notin requests'
    BY <1>d DEF Drop
  <2>2. StepsOK'
    BY <1>d, <2>1 DEF StepsOK
  <2>3. ASSUME UNCHANGED <<md, composer, owner, dirty>> PROVE UsedOK' /\ ShownOK'
    BY <2>1, <2>3, <1>t DEF UsedOK, ShownOK, Shown, Open
  <2> QED
    BY <2>2, <2>3
<1>q. ASSUME NEW q, Turns(r, q), UNCHANGED <<md, composer, owner, dirty>>,
             q.content \subseteq used, Shown(q)
      PROVE  UsedOK' /\ ShownOK'
  <2>1. \A p \in requests' : p = q \/ p \in requests
    BY <1>q DEF Turns
  <2>2. UsedOK'
    BY <2>1, <1>t, <1>q DEF UsedOK, Open, Turns
  <2>3. ShownOK'
    BY <2>1, <1>t, <1>q DEF ShownOK, Shown, Open
  <2> QED
    BY <2>2, <2>3
<1>1. CASE Uploaded(r)
  <2>1. /\ Drop(r) /\ composer' = composer \cup {r.item} /\ UNCHANGED <<md, owner, dirty, locked>>
        /\ r.kind = "upload"
    BY <1>1 DEF Uploaded, diskVars
  <2>2. UsedOK' /\ ShownOK'
    BY <2>1, <1>t DEF Drop, UsedOK, ShownOK, Shown, Open
  <2> QED
    BY <2>1, <2>2, <1>d
<1>2. CASE SaveFile(r)
  <2>1. PICK q : Turns(r, q) /\ q.step = "written" /\ q.content = r.content /\ locked' = q
    BY <1>2, <1>r, StepTurns DEF SaveFile
  <2>2. /\ UNCHANGED <<composer, owner, dirty>> /\ md' = [md EXCEPT ![r.conv] = r.content]
        /\ r.kind \in {"first", "save"} /\ locked = NoRequest
    BY <1>2 DEF SaveFile, pageVars, WriteFile
  <2>3. \A c \in Convs : md'[c] = IF c = r.conv THEN r.content ELSE md[c]
    BY <2>2, <1>r DEF FilesInv, FilesTypeOK
  <2>4. StepsOK'
    BY <2>1, <2>2, <1>r, ConvAssumption DEF StepsOK, Turns, FilesInv, FilesTypeOK
  <2>5. UsedOK'
    BY <2>1, <2>2, <2>3, <1>t, <1>r DEF UsedOK, Open, Turns
  <2>6. ShownOK'
    BY <2>1, <2>2, <2>3, <1>t, <1>r DEF ShownOK, Shown, Open, Turns
  <2> QED
    BY <2>4, <2>5, <2>6
<1>3. CASE SaveIndex(r)
  <2>1. /\ Drop(r) /\ UNCHANGED <<md, composer>> /\ locked = r
        /\ owner' \in {owner, NoConv} /\ dirty' \in {dirty, r.conv}
    BY <1>3 DEF SaveIndex, MarkDirty
  <2>2. r.kind \in {"first", "save"}
    BY <1>3, <1>r, ConvAssumption DEF SaveIndex, FilesInv, LockedOK
  <2>3. StepsOK'
    BY <2>1, <1>d
  <2>4. UsedOK' /\ ShownOK'
    BY <2>1, <2>2, <1>t, <1>r DEF Drop, UsedOK, ShownOK, Shown, Open
  <2> QED
    BY <2>3, <2>4
<1>4. CASE TitleRead(r)
  <2>1. UNCHANGED <<md, composer, owner, dirty, locked>> /\ r.kind = "title"
    BY <1>4 DEF TitleRead, diskVars, pageVars
  <2>2. CASE md[r.conv] = NoFile
    BY <1>4, <2>1, <2>2, <1>d DEF TitleRead
  <2>3. CASE md[r.conv] # NoFile
    <3> DEFINE q == [r EXCEPT !.step = "read", !.content = md[r.conv]]
    <3>1. md[r.conv] \in SUBSET Items /\ r.conv \in Convs
      BY <2>1, <2>3, <1>r DEF FilesInv, FilesTypeOK
    <3>2. Turns(r, q) /\ q.step = "read" /\ q.content = md[r.conv]
      BY <1>4, <2>3, <3>1, <1>r DEF TitleRead, Turns, RequestSet
    <3>3. q.content \subseteq used /\ Shown(q)
      BY <2>1, <2>3, <3>1, <3>2 DEF UsedOK, ShownOK, Shown, Turns
    <3>4. StepsOK'
      BY <2>1, <3>2 DEF StepsOK, Turns
    <3> QED
      BY <2>1, <3>2, <3>3, <3>4, <1>q
  <2> QED
    BY <2>2, <2>3
<1>5. CASE TitleWrite(r)
  <2>1. UNCHANGED <<composer, owner, dirty, locked>> /\ r.kind = "title" /\ r.conv \in Convs
    BY <1>5, <1>r DEF TitleWrite, pageVars
  <2>2. CASE r.conv \in listed
    <3>1. PICK q : Turns(r, q) /\ q.step = "titled" /\ q.content = r.content
      BY <1>5, <2>2, <1>r, StepTurns DEF TitleWrite
    <3>2. \A c \in Convs : md'[c] = IF c = r.conv THEN r.content ELSE md[c]
      BY <1>5, <2>1, <2>2 DEF TitleWrite, WriteFile, FilesInv, FilesTypeOK
    <3>3. StepsOK'
      BY <2>1, <3>1 DEF StepsOK, Turns
    <3>4. UsedOK'
      BY <2>1, <3>1, <3>2, <1>t, <1>r DEF UsedOK, Open, Turns
    <3>5. ShownOK'
      BY <2>1, <3>1, <3>2, <1>t, <1>r DEF ShownOK, Shown, Open, Turns
    <3> QED
      BY <3>3, <3>4, <3>5
  <2>3. CASE r.conv \notin listed
    BY <1>5, <2>1, <2>3, <1>d DEF TitleWrite
  <2> QED
    BY <2>2, <2>3
<1>6. CASE TitleFailed(r)
  BY <1>6, <1>d DEF TitleFailed, diskVars, pageVars
<1>7. CASE TitleAnswer(r)
  <2>1. /\ Drop(r) /\ UNCHANGED <<md, composer, owner, locked>> /\ dirty' = r.conv /\ r.kind = "title"
    BY <1>7 DEF TitleAnswer, MarkDirty, diskVars
  <2>2. UsedOK' /\ ShownOK'
    BY <2>1, <1>t, <1>r DEF Drop, UsedOK, ShownOK, Shown, Open
  <2> QED
    BY <2>1, <2>2, <1>d
<1>8. CASE DeleteIndex(r)
  <2>1. PICK q : Turns(r, q) /\ q.step = "unlisted" /\ q.content = r.content
    BY <1>8, <1>r, StepTurns DEF DeleteIndex
  <2>2. UNCHANGED <<md, composer, owner, dirty, locked>> /\ r.kind = "delete"
    BY <1>8 DEF DeleteIndex, pageVars
  <2>3. StepsOK'
    BY <2>1, <2>2 DEF StepsOK, Turns
  <2>4. q.content \subseteq used /\ Shown(q)
    BY <2>1, <2>2 DEF UsedOK, ShownOK, Shown, Turns
  <2> QED
    BY <2>1, <2>2, <2>3, <2>4, <1>q
<1>9. CASE DeleteFile(r)
  <2>1. PICK q : Turns(r, q) /\ q.step = "unlinked" /\ q.content = r.content
    BY <1>9, <1>r, StepTurns DEF DeleteFile
  <2>2. /\ UNCHANGED <<composer, owner, dirty, locked>> /\ r.kind = "delete"
        /\ md' = [md EXCEPT ![r.conv] = NoFile]
    BY <1>9 DEF DeleteFile, pageVars
  <2>3. \A c \in Convs : md'[c] = IF c = r.conv THEN NoFile ELSE md[c]
    BY <2>2, <1>r DEF FilesInv, FilesTypeOK
  <2>4. StepsOK'
    BY <2>1, <2>2 DEF StepsOK, Turns
  <2>5. UsedOK'
    BY <2>1, <2>2, <2>3, <1>t DEF UsedOK, Open, Turns
  <2>6. ShownOK'
    BY <2>1, <2>2, <2>3, <1>t DEF ShownOK, Shown, Open, Turns
  <2> QED
    BY <2>4, <2>5, <2>6
<1>10. CASE DiscardFile(r)
  <2>1. PICK q : Turns(r, q) /\ q.step = "unlinked" /\ q.content = r.content
    BY <1>10, <1>r, StepTurns DEF DiscardFile
  <2>2. UNCHANGED <<md, composer, owner, dirty, locked>> /\ r.kind = "discard"
    BY <1>10 DEF DiscardFile, pageVars
  <2>3. StepsOK'
    BY <2>1, <2>2 DEF StepsOK, Turns
  <2>4. q.content \subseteq used /\ Shown(q)
    BY <2>1, <2>2 DEF UsedOK, Shown, Turns
  <2> QED
    BY <2>1, <2>2, <2>3, <2>4, <1>q
<1>11. CASE Scan(r)
  <2> DEFINE q == [r EXCEPT !.step = "scanned", !.content = Referenced]
  <2>1. UNCHANGED <<md, composer, owner, dirty, locked>> /\ r.step = "unlinked"
    BY <1>11 DEF Scan, diskVars, pageVars
  <2>2. Turns(r, q) /\ q.step = "scanned" /\ q.content = Referenced
    BY <1>11, <1>r DEF Scan, Turns, RequestSet, Referenced, Items
  <2>3. r.kind \in {"delete", "discard"}
    BY <2>1, <1>r DEF StepsOK, RequestSet
  <2>4. StepsOK'
    BY <2>1, <2>2, <2>3 DEF StepsOK, Turns
  <2>5. Referenced \subseteq used
    BY DEF Referenced, InFiles, UsedOK
  <2>6. Shown(q)
    BY <2>2, <2>3 DEF ShownOK, Shown, Turns
  <2> QED
    BY <2>1, <2>2, <2>4, <2>5, <2>6, <1>q
<1>12. CASE Sweep(r)
  BY <1>12, <1>d DEF Sweep, pageVars
<1> QED
  BY <1>1, <1>2, <1>3, <1>4, <1>5, <1>6, <1>7, <1>8, <1>9, <1>10, <1>11, <1>12

\* What the page asks for is added to its requests.
Asks(q, k, c) ==
    /\ requests' = requests \cup {q}
    /\ q.kind = k /\ q.conv = c /\ q.step = "sent"

\* An asking of the page is of one request.
LEMMA AskedFor ==
    ASSUME NEW k, NEW c, NEW a, NEW S, Ask(Request(k, c, a, S, "sent"))
    PROVE  \E q : Asks(q, k, c) /\ q.item = a /\ q.content = S
<1> DEFINE q == Request(k, c, a, S, "sent")
<1>1. q.kind = k /\ q.conv = c /\ q.item = a /\ q.content = S /\ q.step = "sent"
  BY DEF Request
<1>2. requests' = requests \cup {q}
  BY DEF Ask
<1> QED
  BY <1>1, <1>2 DEF Asks

\* What the page does keeps requests at their steps, and only adds to what it shows.
LEMMA PageBasics ==
    ASSUME FilesInv, StepsOK, UsedOK, ShownOK,
           \/ \E c \in Convs : Start(c) \/ Send(c) \/ Reply(c) \/ End(c) \/ Delete(c)
           \/ Persist
           \/ \E a \in Attachments : Upload(a) \/ Discard(a)
    PROVE  StepsOK' /\ UsedOK' /\ ShownOK'
<1>t. page \in [Convs -> (SUBSET Items) \cup {NoFile}] /\ composer \subseteq Attachments
  BY DEF FilesInv, FilesTypeOK
<1>l. locked' = locked /\ md' = md
  BY DEF Start, Send, Reply, End, Delete, Persist, Upload, Discard, diskVars
<1>m. \A m \in Messages : m \in SUBSET Items
  BY <1>t DEF Messages, Items, Fresh
<1>q. ASSUME NEW q, NEW k, NEW c, Asks(q, k, c) PROVE StepsOK'
  BY <1>q, <1>l DEF StepsOK, Asks
<1>n. ASSUME UNCHANGED requests PROVE StepsOK'
  BY <1>n, <1>l DEF StepsOK
<1>1. ASSUME NEW c \in Convs, Start(c) PROVE StepsOK' /\ UsedOK' /\ ShownOK'
  <2>m. PICK m \in Messages :
            /\ page' = [page EXCEPT ![c] = m] /\ used' = used \cup m \cup {c}
            /\ Ask(Request("first", c, NoItem, m, "sent"))
    BY <1>1 DEF Start
  <2>1. PICK q : Asks(q, "first", c) /\ q.content = m
    BY <2>m, AskedFor
  <2>2. c \notin used /\ owner' = c /\ composer' = {} /\ dirty' = dirty
    BY <1>1 DEF Start, Fresh
  <2>3. \A d \in Convs : page'[d] = IF d = c THEN m ELSE page[d]
    BY <2>m, <1>t
  <2>4. m # NoFile /\ md[c] = NoFile
    BY <2>2, <1>m, ConvAssumption DEF UsedOK
  <2>5. UsedOK'
    BY <2>m, <2>1, <2>2, <2>3, <1>l DEF UsedOK, Open, Asks
  <2>6. ShownOK'
    BY <2>m, <2>1, <2>2, <2>3, <2>4, <1>l DEF ShownOK, Shown, Open, Asks, UsedOK, FilesInv, WellAddressed
  <2> QED
    BY <2>1, <2>5, <2>6, <1>q
<1>2. ASSUME NEW c \in Convs, Send(c) PROVE StepsOK' /\ UsedOK' /\ ShownOK'
  <2>1. PICK m \in Messages : page' = [page EXCEPT ![c] = @ \cup m] /\ used' = used \cup m
    BY <1>2 DEF Send
  <2>2. UNCHANGED requests /\ owner' = c /\ composer' = {} /\ dirty' = c /\ Open(c)
    BY <1>2 DEF Send, MarkDirty
  <2>3. \A d \in Convs : page'[d] = IF d = c THEN page[d] \cup m ELSE page[d]
    BY <2>1, <1>t
  <2>4. UsedOK'
    BY <2>1, <2>2, <2>3, <1>l DEF UsedOK, Open
  <2>5. ShownOK'
    BY <2>1, <2>2, <2>3, <1>l DEF ShownOK, Shown, Open, FilesInv, WellAddressed
  <2> QED
    BY <2>2, <2>4, <2>5, <1>n
<1>3. ASSUME NEW c \in Convs, Reply(c) PROVE StepsOK' /\ UsedOK' /\ ShownOK'
  <2>1. PICK t : page' = [page EXCEPT ![c] = @ \cup {t}] /\ used' = used \cup {t}
    BY <1>3 DEF Reply
  <2>2. UNCHANGED <<requests, owner, composer>> /\ dirty' = c /\ Open(c)
    BY <1>3 DEF Reply, MarkDirty
  <2>3. \A d \in Convs : page'[d] = IF d = c THEN page[d] \cup {t} ELSE page[d]
    BY <2>1, <1>t
  <2>4. UsedOK'
    BY <2>1, <2>2, <2>3, <1>l DEF UsedOK, Open
  <2>5. ShownOK'
    BY <2>1, <2>2, <2>3, <1>l DEF ShownOK, Shown, Open, FilesInv, WellAddressed
  <2> QED
    BY <2>2, <2>4, <2>5, <1>n
<1>4. ASSUME NEW c \in Convs, End(c) PROVE StepsOK' /\ UsedOK' /\ ShownOK'
  <2>1. UNCHANGED <<composer, page, used>> /\ dirty' = c /\ owner' = NoConv /\ c \in used
    BY <1>4, ConvAssumption DEF End, MarkDirty, Running, UsedOK
  <2>2. CASE UNCHANGED requests
    BY <2>1, <2>2, <1>l, <1>n DEF UsedOK, ShownOK, Shown, Open
  <2>3. CASE Ask(Request("title", c, NoItem, {}, "sent"))
    <3>1. PICK q : Asks(q, "title", c) /\ q.content = {}
      BY <2>3, AskedFor
    <3>2. UsedOK' /\ ShownOK'
      BY <2>1, <3>1, <1>l DEF UsedOK, ShownOK, Shown, Open, Asks
    <3> QED
      BY <3>1, <3>2, <1>q
  <2> QED
    BY <1>4, <2>2, <2>3 DEF End
<1>5. ASSUME NEW c \in Convs, Delete(c) PROVE StepsOK' /\ UsedOK' /\ ShownOK'
  <2>1. PICK q : Asks(q, "delete", c) /\ q.content = {}
    BY <1>5, AskedFor DEF Delete
  <2>2. UNCHANGED <<composer, dirty, owner, used>> /\ page' = [page EXCEPT ![c] = NoFile] /\ Open(c)
    BY <1>5 DEF Delete
  <2>3. \A d \in Convs : page'[d] = IF d = c THEN NoFile ELSE page[d]
    BY <2>2, <1>t
  <2>4. UsedOK'
    BY <2>1, <2>2, <2>3, <1>l DEF UsedOK, Open, Asks
  <2>5. ShownOK'
    BY <2>1, <2>2, <2>3, <1>l DEF ShownOK, Shown, Open, Asks, FilesInv, WellAddressed
  <2> QED
    BY <2>1, <2>4, <2>5, <1>q
<1>6. CASE Persist
  <2>1. UNCHANGED <<composer, page, owner, used>> /\ dirty' = NoConv /\ dirty \in Convs
    BY <1>6 DEF Persist, FilesInv, FilesTypeOK
  <2>2. CASE Open(dirty)
    <3>1. PICK q : Asks(q, "save", dirty) /\ q.content = page[dirty]
      BY <1>6, <2>2, AskedFor DEF Persist
    <3>2. UsedOK' /\ ShownOK'
      BY <2>1, <2>2, <3>1, <1>l, ConvAssumption DEF UsedOK, ShownOK, Shown, Open, Asks
    <3> QED
      BY <3>1, <3>2, <1>q
  <2>3. CASE ~ Open(dirty)
    <3>1. UNCHANGED requests
      BY <1>6, <2>3 DEF Persist
    <3> QED
      BY <2>1, <3>1, <1>l, <1>n, ConvAssumption DEF UsedOK, ShownOK, Shown, Open
  <2> QED
    BY <2>2, <2>3
<1>7. ASSUME NEW a \in Attachments, Upload(a) PROVE StepsOK' /\ UsedOK' /\ ShownOK'
  <2>1. PICK q : Asks(q, "upload", NoConv) /\ q.content = {} /\ q.item = a
    BY <1>7, AskedFor DEF Upload
  <2>2. UNCHANGED <<composer, page, dirty, owner>> /\ used' = used \cup {a}
    BY <1>7 DEF Upload, pageVars
  <2>3. UsedOK' /\ ShownOK'
    BY <2>1, <2>2, <1>l, ConvAssumption DEF UsedOK, ShownOK, Shown, Open, Asks
  <2> QED
    BY <2>1, <2>3, <1>q
<1>8. ASSUME NEW a \in Attachments, Discard(a) PROVE StepsOK' /\ UsedOK' /\ ShownOK'
  <2>1. PICK q : Asks(q, "discard", NoConv) /\ q.content = {}
    BY <1>8, AskedFor DEF Discard
  <2>2. UNCHANGED <<page, dirty, owner, used>> /\ composer' = composer \ {a}
    BY <1>8 DEF Discard
  <2>3. UsedOK' /\ ShownOK'
    BY <2>1, <2>2, <1>l, ConvAssumption DEF UsedOK, ShownOK, Shown, Open, Asks
  <2> QED
    BY <2>1, <2>3, <1>q
<1> QED
  BY <1>1, <1>2, <1>3, <1>4, <1>5, <1>6, <1>7, <1>8

\* Who leaves saves, marks, pages and the files of open conversations alone.
LEMMA SavedAside ==
    ASSUME SavedOK, UNCHANGED <<page, dirty, excused>>,
           \A c \in Convs : Saves(c)' = Saves(c) /\ (Retitled(c) => Retitled(c)'),
           \A c \in Convs : Open(c) => md'[c] = md[c] /\ (c \in listed => c \in listed')
    PROVE  SavedOK'
  BY DEF SavedOK, Open

\* A request that is no save leaves the saves alone; a title that is not written
\* has not changed the file.
LEMMA SavesStay ==
    ASSUME FilesInv, NEW r \in requests, r.kind \notin {"first", "save"},
           r.kind = "title" => r.step # "titled",
           Drop(r) \/ \E q : Turns(r, q)
    PROVE  \A c \in Convs : Saves(c)' = Saves(c) /\ (Retitled(c) => Retitled(c)')
<1>1. CASE Drop(r)
  BY <1>1 DEF Drop, Saves, Retitled
<1>2. ASSUME NEW q, Turns(r, q) PROVE \A c \in Convs : Saves(c)' = Saves(c) /\ (Retitled(c) => Retitled(c)')
  BY <1>2 DEF Turns, Saves, Retitled
<1> QED
  BY <1>1, <1>2

\* What the server writes is what is shown, or a mark is under way.
LEMMA ServerSaves ==
    ASSUME FilesInv, StepsOK, UsedOK, ShownOK, SavedOK, NEW r \in requests,
           \/ Uploaded(r) \/ SaveFile(r) \/ SaveIndex(r)
           \/ TitleRead(r) \/ TitleWrite(r) \/ TitleFailed(r) \/ TitleAnswer(r)
           \/ DeleteIndex(r) \/ DeleteFile(r) \/ DiscardFile(r) \/ Scan(r) \/ Sweep(r)
    PROVE  SavedOK'
<1>r. /\ r \in RequestSet
      /\ r.kind \in {"first", "save", "title", "delete"} => r.conv \in Convs
      /\ md \in [Convs -> (SUBSET Items) \cup {NoFile}]
  BY DEF FilesInv, FilesTypeOK, WellAddressed, RequestSet
<1>t. page' = page
  BY DEF Uploaded, SaveFile, SaveIndex, TitleRead, TitleWrite, TitleFailed, TitleAnswer, DeleteIndex,
         DeleteFile, DiscardFile, Scan, Sweep, pageVars, diskVars
<1>1. CASE Uploaded(r)
  BY <1>1, <1>t, SavesStay, SavedAside DEF Uploaded, diskVars
<1>2. CASE SaveFile(r)
  <2>1. PICK q : Turns(r, q) /\ q.step = "written" /\ q.content = r.content
    <3>1. Step(r, "written")
      BY <1>2 DEF SaveFile
    <3> DEFINE w == [r EXCEPT !.step = "written"]
    <3>2. Turns(r, w) /\ w.step = "written" /\ w.content = r.content
      BY ONLY <1>r, <3>1, StepTurns, Zenon
    <3> QED
      BY ONLY <3>2
  <2>2. /\ UNCHANGED <<dirty, excused, listed>> /\ r.kind \in {"first", "save"}
    BY <1>2 DEF SaveFile, pageVars
  <2>3. \A c \in Convs : md'[c] = IF c = r.conv THEN r.content ELSE md[c]
    BY <1>2, <1>r DEF SaveFile, WriteFile
  <2>4. \A c \in Convs : /\ Saves(c)' = IF c = r.conv THEN (Saves(c) \ {r}) \cup {q} ELSE Saves(c)
                         /\ Retitled(c) => Retitled(c)'
    BY <2>1, <2>2 DEF Turns, Saves, Retitled
  <2>5. r \in Saves(r.conv)
    BY <2>2 DEF Saves
  <2> QED
    BY <2>1, <2>2, <2>3, <2>4, <2>5, <1>t DEF SavedOK, Open
<1>3. CASE SaveIndex(r)
  <2>1. Drop(r) /\ md' = md /\ listed' = listed \cup {r.conv} /\ locked = r
    BY <1>3 DEF SaveIndex
  <2>2. r.kind \in {"first", "save"} /\ r.step = "written"
    BY <1>3, <1>r, ConvAssumption DEF SaveIndex, FilesInv, LockedOK
  <2>3. \A c \in Convs : /\ Saves(c)' = Saves(c) \ {r}
                         /\ Retitled(c) => Retitled(c)'
    BY <2>1, <2>2 DEF Drop, Saves, Retitled
  <2>4. \/ dirty' = dirty /\ excused' = excused
        \/ dirty' = r.conv /\ excused' = IF dirty \in Convs \ {r.conv} THEN excused \cup {dirty} ELSE excused
    BY <1>3 DEF SaveIndex, MarkDirty
  <2>5. r \in Saves(r.conv)
    BY <2>2 DEF Saves
  <2>6. \A c \in Convs : c # r.conv => r \notin Saves(c)
    BY DEF Saves
  <2> QED
    BY <2>1, <2>2, <2>3, <2>4, <2>5, <2>6, <1>t, <1>r DEF SavedOK, Open
<1>4. CASE TitleRead(r)
  <2>1. UNCHANGED <<dirty, excused, md, listed>> /\ r.kind = "title" /\ r.step = "sent" /\ r.conv \in Convs
    BY <1>4, <1>r DEF TitleRead, diskVars, pageVars
  <2>2. Drop(r) \/ \E q : Turns(r, q)
    <3>1. CASE md[r.conv] = NoFile
      BY <1>4, <3>1 DEF TitleRead
    <3>2. CASE md[r.conv] # NoFile
      BY <1>4, <3>2, <1>r, <2>1 DEF TitleRead, Turns, RequestSet
    <3> QED
      BY <3>1, <3>2
  <2> QED
    BY <2>1, <2>2, <1>t, SavesStay, SavedAside
<1>5. CASE TitleWrite(r)
  <2>1. UNCHANGED <<dirty, excused, listed>> /\ r.kind = "title" /\ r.step = "read" /\ locked = NoRequest
    BY <1>5 DEF TitleWrite, pageVars
  <2>2. CASE r.conv \in listed
    <3>1. PICK q : Turns(r, q) /\ q.step = "titled"
      BY <1>5, <2>2, <1>r, StepTurns DEF TitleWrite
    <3>2. \A c \in Convs : c # r.conv => md'[c] = md[c]
      BY <1>5, <2>2, <1>r DEF TitleWrite, WriteFile
    <3>3. \A c \in Convs : Saves(c)' = Saves(c) /\ (Retitled(c) \/ c = r.conv => Retitled(c)')
      BY <2>1, <3>1 DEF Turns, Saves, Retitled
    <3>4. \A c \in Convs : \A s \in Saves(c) : s.step # "written"
      BY <2>1, ConvAssumption DEF Saves, StepsOK, FilesInv, FilesTypeOK
    <3> QED
      BY <2>1, <3>2, <3>3, <3>4, <1>t DEF SavedOK, Open
  <2>3. CASE r.conv \notin listed
    BY <1>5, <2>1, <2>3, <1>t, SavesStay, SavedAside DEF TitleWrite
  <2> QED
    BY <2>2, <2>3
<1>6. CASE TitleFailed(r)
  BY <1>6, <1>t, SavesStay, SavedAside DEF TitleFailed, diskVars, pageVars
<1>7. CASE TitleAnswer(r)
  <2>1. /\ Drop(r) /\ UNCHANGED <<md, listed>> /\ r.kind = "title" /\ r.conv \in Convs
        /\ dirty' = r.conv /\ excused' = IF dirty \in Convs \ {r.conv} THEN excused \cup {dirty} ELSE excused
    BY <1>7, <1>r DEF TitleAnswer, MarkDirty, diskVars
  <2>2. \A c \in Convs : Saves(c)' = Saves(c) /\ (Retitled(c) /\ c # r.conv => Retitled(c)')
    BY <2>1 DEF Drop, Saves, Retitled
  <2> QED
    BY <2>1, <2>2, <1>t DEF SavedOK, Open
<1>8. CASE DeleteIndex(r)
  <2>1. /\ UNCHANGED <<md, dirty, excused>> /\ r.kind = "delete" /\ listed' = listed \ {r.conv}
    BY <1>8 DEF DeleteIndex, pageVars
  <2>2. \E q : Turns(r, q)
    BY <1>8, <1>r, StepTurns DEF DeleteIndex
  <2>3. ~ Open(r.conv)
    BY <2>1 DEF ShownOK, Shown
  <2> QED
    BY <2>1, <2>2, <2>3, <1>t, SavesStay, SavedAside
<1>9. CASE DeleteFile(r)
  <2>1. /\ UNCHANGED <<listed, dirty, excused>> /\ r.kind = "delete" /\ md' = [md EXCEPT ![r.conv] = NoFile]
    BY <1>9 DEF DeleteFile, pageVars
  <2>2. \E q : Turns(r, q)
    BY <1>9, <1>r, StepTurns DEF DeleteFile
  <2>3. ~ Open(r.conv)
    BY <2>1 DEF ShownOK, Shown
  <2> QED
    BY <2>1, <2>2, <2>3, <1>t, <1>r, SavesStay, SavedAside
<1>10. CASE DiscardFile(r)
  <2>1. UNCHANGED <<listed, md, dirty, excused>> /\ r.kind = "discard"
    BY <1>10 DEF DiscardFile, pageVars
  <2>2. \E q : Turns(r, q)
    BY <1>10, <1>r, StepTurns DEF DiscardFile
  <2> QED
    BY <2>1, <2>2, <1>t, SavesStay, SavedAside
<1>11. CASE Scan(r)
  <2>1. UNCHANGED <<listed, md, dirty, excused>> /\ r.kind \in {"delete", "discard"}
    BY <1>11, <1>r DEF Scan, diskVars, pageVars, StepsOK, RequestSet
  <2>2. \E q : Turns(r, q)
    BY <1>11, <1>r DEF Scan, Turns, RequestSet, Referenced, Items
  <2> QED
    BY <2>1, <2>2, <1>t, SavesStay, SavedAside
<1>12. CASE Sweep(r)
  <2>1. UNCHANGED <<listed, md, dirty, excused>> /\ r.kind \in {"delete", "discard"} /\ Drop(r)
    BY <1>12, <1>r DEF Sweep, pageVars, StepsOK, RequestSet
  <2> QED
    BY <2>1, <1>t, SavesStay, SavedAside
<1> QED
  BY <1>1, <1>2, <1>3, <1>4, <1>5, <1>6, <1>7, <1>8, <1>9, <1>10, <1>11, <1>12

\* What the page changes it marks or saves.
LEMMA PageSaves ==
    ASSUME FilesInv, StepsOK, UsedOK, ShownOK, SavedOK,
           \/ \E c \in Convs : Start(c) \/ Send(c) \/ Reply(c) \/ End(c) \/ Delete(c)
           \/ Persist
           \/ \E a \in Attachments : Upload(a) \/ Discard(a)
    PROVE  SavedOK'
<1>t. page \in [Convs -> (SUBSET Items) \cup {NoFile}] /\ dirty \in Convs \cup {NoConv}
  BY DEF FilesInv, FilesTypeOK
<1>l. listed' = listed /\ md' = md
  BY DEF Start, Send, Reply, End, Delete, Persist, Upload, Discard, diskVars
<1>q. ASSUME NEW q, NEW k, NEW d, Asks(q, k, d)
      PROVE  \A c \in Convs : /\ Saves(c)' = IF k \in {"first", "save"} /\ c = d THEN Saves(c) \cup {q} ELSE Saves(c)
                              /\ Retitled(c) => Retitled(c)'
  BY <1>q DEF Asks, Saves, Retitled
<1>n. ASSUME UNCHANGED requests PROVE \A c \in Convs : Saves(c)' = Saves(c) /\ Retitled(c)' = Retitled(c)
  BY <1>n DEF Saves, Retitled
<1>1. ASSUME NEW c \in Convs, Start(c) PROVE SavedOK'
  <2>m. PICK m \in Messages :
            page' = [page EXCEPT ![c] = m] /\ Ask(Request("first", c, NoItem, m, "sent"))
    BY <1>1 DEF Start
  <2>1. PICK q : Asks(q, "first", c) /\ q.content = m
    BY <2>m, AskedFor
  <2>2. c \notin used /\ dirty' = dirty /\ excused' = excused
    BY <1>1 DEF Start, Fresh
  <2>3. \A d \in Convs : page'[d] = IF d = c THEN m ELSE page[d]
    BY <2>m, <1>t
  <2>4. Saves(c) = {}
    BY <2>2 DEF Saves, UsedOK
  <2> QED
    BY <2>1, <2>2, <2>3, <2>4, <1>l, <1>q DEF SavedOK, Open, Asks
<1>2. ASSUME NEW c \in Convs, Send(c) \/ Reply(c) PROVE SavedOK'
  <2>1. \A d \in Convs : d # c => page'[d] = page[d]
    BY <1>2, <1>t DEF Send, Reply
  <2>2. UNCHANGED requests /\ MarkDirty(c) /\ Open(c)
    BY <1>2 DEF Send, Reply
  <2> QED
    BY <2>1, <2>2, <1>l, <1>n, <1>t DEF SavedOK, Open, MarkDirty
<1>4. ASSUME NEW c \in Convs, End(c) PROVE SavedOK'
  <2>1. page' = page /\ MarkDirty(c)
    BY <1>4 DEF End
  <2>2. \A d \in Convs : Saves(d)' = Saves(d) /\ (Retitled(d) => Retitled(d)')
    <3>1. CASE UNCHANGED requests
      BY <3>1, <1>n
    <3>2. CASE Ask(Request("title", c, NoItem, {}, "sent"))
      BY <3>2, AskedFor, <1>q
    <3> QED
      BY <1>4, <3>1, <3>2 DEF End
  <2> QED
    BY <2>1, <2>2, <1>l, <1>t DEF SavedOK, Open, MarkDirty
<1>5. ASSUME NEW c \in Convs, Delete(c) PROVE SavedOK'
  <2>1. \A d \in Convs : Saves(d)' = Saves(d) /\ (Retitled(d) => Retitled(d)')
    BY <1>5, AskedFor, <1>q DEF Delete
  <2>2. UNCHANGED <<dirty, excused>> /\ \A d \in Convs : page'[d] = IF d = c THEN NoFile ELSE page[d]
    BY <1>5, <1>t DEF Delete
  <2> QED
    BY <2>1, <2>2, <1>l DEF SavedOK, Open
<1>6. CASE Persist
  <2>1. page' = page /\ dirty' = NoConv /\ dirty \in Convs
    BY <1>6, <1>t DEF Persist
  <2>2. CASE Open(dirty)
    <3>1. PICK q : Asks(q, "save", dirty) /\ q.content = page[dirty]
      BY <1>6, <2>2, AskedFor DEF Persist
    <3>2. excused' = IF Saves(dirty) = {} THEN excused \ {dirty} ELSE excused \cup {dirty}
      BY <1>6, <2>2 DEF Persist
    <3> QED
      BY <2>1, <3>1, <3>2, <1>l, <1>q, ConvAssumption DEF SavedOK, Open, Asks
  <2>3. CASE ~ Open(dirty)
    <3>1. UNCHANGED <<requests, excused>>
      BY <1>6, <2>3 DEF Persist
    <3> QED
      BY <2>1, <2>3, <3>1, <1>l, <1>n DEF SavedOK, Open
  <2> QED
    BY <2>2, <2>3
<1>7. ASSUME NEW a \in Attachments, Upload(a) \/ Discard(a) PROVE SavedOK'
  <2>1. UNCHANGED <<page, dirty, excused>>
    BY <1>7 DEF Upload, Discard, pageVars
  <2>2. \A c \in Convs : Saves(c)' = Saves(c) /\ (Retitled(c) => Retitled(c)')
    BY <1>7, AskedFor, <1>q DEF Upload, Discard
  <2> QED
    BY <2>1, <2>2, <1>l, SavedAside
<1> QED
  BY <1>1, <1>2, <1>4, <1>5, <1>6, <1>7

\* A deletion that waits for its turn stays there unless it is the one that goes on.
LEMMA PendingStays ==
    ASSUME NEW r \in requests, NEW c, Pending(c), Drop(r) \/ \E q : Turns(r, q),
           r.kind # "delete" \/ r.step \notin {"sent", "unlisted"} \/ r.conv # c
    PROVE  Pending(c)'
  BY DEF Pending, Drop, Turns

\* What settles an attachment stays so, if the requests for its conversation do.
LEMMA SafeStays ==
    ASSUME NEW r \in requests, NEW c, NEW a, Safe(c, a),
           Drop(r) \/ \E q : Turns(r, q) /\ LeavesIn(q, c, a)
    PROVE  Safe(c, a)'
  BY DEF Safe, LeavesIn, Drop, Turns

\* A request of another kind promises nothing.
LEMMA PromiseStays ==
    ASSUME NEW r \in requests, NEW a, \E p \in requests : Promise(p, a),
           \/ (Drop(r) \/ \E q : Turns(r, q)) /\ r.kind \in {"first", "save", "title"}
           \/ \E q : Turns(r, q) /\ Promise(q, a)
    PROVE  \E p \in requests' : Promise(p, a)'
  BY DEF Promise, Drop, Turns

\* What is held and what is left over, after a step that writes no file, adds none
\* and takes none off the page.
LEMMA HeldAside ==
    ASSUME HeldOK, LeftOK, UNCHANGED <<md, page>>, files' \subseteq files, leaked \subseteq leaked',
           OnPage \subseteq OnPage',
           \A c \in Convs : ~ Open(c) /\ md[c] # NoFile => (Pending(c) => Pending(c)'),
           \A c \in Convs : \A a \in files' : md[c] # NoFile /\ a \in md[c] /\ Safe(c, a) => Safe(c, a)',
           \A a \in files' \ (leaked \cup OnPage') :
               (\E p \in requests : Promise(p, a)) =>
                   \/ \E p \in requests' : Promise(p, a)'
                   \/ \E c \in Convs : md[c] # NoFile /\ a \in md[c] /\ Safe(c, a)'
    PROVE  HeldOK' /\ LeftOK'
<1>1. HeldOK'
  BY DEF HeldOK, Open
<1>2. LeftOK'
  BY DEF LeftOK
<1> QED
  BY <1>1, <1>2

\* What the server takes off the disk is what nobody has any use for.
LEMMA ServerKeeps ==
    ASSUME FilesInv, StepsOK, UsedOK, ShownOK, HeldOK, LeftOK, NEW r \in requests,
           \/ Uploaded(r) \/ SaveFile(r) \/ SaveIndex(r)
           \/ TitleRead(r) \/ TitleWrite(r) \/ TitleFailed(r) \/ TitleAnswer(r)
           \/ DeleteIndex(r) \/ DeleteFile(r) \/ DiscardFile(r) \/ Scan(r) \/ Sweep(r)
    PROVE  HeldOK' /\ LeftOK'
<1>r. /\ r \in RequestSet
      /\ r.kind \in {"first", "save", "title", "delete"} => r.conv \in Convs
      /\ md \in [Convs -> (SUBSET Items) \cup {NoFile}]
  BY DEF FilesInv, FilesTypeOK, WellAddressed, RequestSet
<1>t. page' = page
  BY DEF Uploaded, SaveFile, SaveIndex, TitleRead, TitleWrite, TitleFailed, TitleAnswer, DeleteIndex,
         DeleteFile, DiscardFile, Scan, Sweep, pageVars, diskVars
<1>o. composer' = composer => OnPage' = OnPage
  BY <1>t DEF OnPage, Open
<1>d. ASSUME Drop(r), UNCHANGED <<md, files, leaked, composer>>, r.kind \notin {"delete", "discard", "upload"}
      PROVE  HeldOK' /\ LeftOK'
  <2>1. \A c \in Convs : Pending(c) => Pending(c)'
    BY <1>d, PendingStays
  <2>2. \A c \in Convs : \A a \in files' : Safe(c, a) => Safe(c, a)'
    BY <1>d, SafeStays
  <2>3. r.kind \in {"first", "save", "title"}
    BY <1>d, <1>r DEF RequestSet
  <2>4. \A a \in files' : (\E p \in requests : Promise(p, a)) => \E p \in requests' : Promise(p, a)'
    BY <1>d, <2>3, PromiseStays
  <2> QED
    BY <1>d, <1>t, <1>o, <2>1, <2>2, <2>4, HeldAside
<1>p. /\ \A x : x \in OnPage <=> (x \in composer \/ \E d \in Convs : page[d] # NoFile /\ x \in page[d])
      /\ \A x : x \in OnPage' <=> (x \in composer' \/ \E d \in Convs : page'[d] # NoFile /\ x \in page'[d])
  BY DEF OnPage, Open
<1>1. CASE Uploaded(r)
  <2>1. /\ Drop(r) /\ composer' = composer \cup {r.item} /\ UNCHANGED <<md, files, leaked>> /\ r.kind = "upload"
    BY <1>1 DEF Uploaded, diskVars
  <2>2. OnPage \subseteq OnPage' /\ r.item \in OnPage'
    BY <2>1, <1>t, <1>p
  <2>3. \A c \in Convs : Pending(c) => Pending(c)'
    BY <2>1, PendingStays
  <2>4. \A c \in Convs : \A a \in files' : Safe(c, a) => Safe(c, a)'
    BY <2>1, SafeStays
  <2>5. \A a \in files' : a # r.item /\ (\E p \in requests : Promise(p, a)) => \E p \in requests' : Promise(p, a)'
    BY <2>1 DEF Drop, Promise
  <2> QED
    BY <2>1, <1>t, <2>2, <2>3, <2>4, <2>5, HeldAside
\* The file of r.conv is written: what a message of the page shows stays on the
\* page, and what a conversation that is let go of holds is leaked.
<1>w. ASSUME NEW q, Turns(r, q), r.kind \in {"first", "save", "title"}, q.step # "read",
             q.content = r.content, r.step \in {"sent", "read"},
             r.step = "sent" => r.kind # "title",
             UNCHANGED <<files, composer>>, WriteFile(r.conv, r.content)
      PROVE  HeldOK' /\ LeftOK'
  <2>1. /\ \A c \in Convs : md'[c] = IF c = r.conv THEN r.content ELSE md[c]
        /\ leaked \subseteq leaked'
        /\ Abandoned(r.conv) => r.content \cap Attachments \subseteq leaked'
    BY <1>w, <1>r DEF WriteFile
  <2>2. \A c \in Convs : Pending(c) => Pending(c)'
    BY <1>w, PendingStays
  <2>3. \A c \in Convs : \A a : Safe(c, a) => Safe(c, a)'
    BY <1>w DEF Safe, LeavesIn, Turns
  <2>4. HeldOK'
    BY <1>w, <1>r, <1>t, <2>1, <2>2, <2>3 DEF HeldOK, Open, LeftOK, Abandoned, Pending
  <2>5. \A a : (\E p \in requests : Promise(p, a)) => \E p \in requests' : Promise(p, a)'
    BY <1>w, PromiseStays
  <2>6. \A a : Safe(r.conv, a) => r.kind = "title" /\ a \in r.content
    BY <1>w DEF Safe, LeavesIn
  <2>7. r.content # NoFile
    BY <1>r, ConvAssumption DEF RequestSet
  <2>8. LeftOK'
    BY <1>w, <1>r, <1>o, <2>1, <2>3, <2>5, <2>6, <2>7 DEF LeftOK
  <2> QED
    BY <2>4, <2>8
<1>2. CASE SaveFile(r)
  BY <1>2, <1>r, <1>w, StepTurns DEF SaveFile, pageVars
<1>3. CASE SaveIndex(r)
  <2>1. r.kind \in {"first", "save"}
    BY <1>3, <1>r, ConvAssumption DEF SaveIndex, FilesInv, LockedOK
  <2> QED
    BY <1>3, <1>d, <2>1 DEF SaveIndex
<1>4. CASE TitleRead(r)
  <2>1. UNCHANGED <<md, files, leaked, composer>> /\ r.kind = "title" /\ r.conv \in Convs
    BY <1>4, <1>r DEF TitleRead, diskVars, pageVars
  <2>2. CASE md[r.conv] = NoFile
    BY <1>4, <1>d, <2>1, <2>2 DEF TitleRead
  <2>3. CASE md[r.conv] # NoFile
    <3> DEFINE q == [r EXCEPT !.step = "read", !.content = md[r.conv]]
    <3>1. Turns(r, q) /\ q.step = "read" /\ q.content = md[r.conv]
      BY <1>4, <2>1, <2>3, <1>r DEF TitleRead, Turns, RequestSet
    <3>2. \A c \in Convs : Pending(c) => Pending(c)'
      BY <2>1, <3>1, PendingStays
    <3>3. \A c \in Convs : \A a \in files' : md[c] # NoFile /\ a \in md[c] /\ Safe(c, a) => Safe(c, a)'
      <4> SUFFICES ASSUME NEW c \in Convs, NEW a, md[c] # NoFile, a \in md[c], Safe(c, a), NEW p \in requests'
                   PROVE  LeavesIn(p, c, a)
        BY DEF Safe, LeavesIn
      <4>1. CASE p \in requests
        BY <4>1 DEF Safe
      <4>2. CASE p = q
        BY <2>1, <3>1, <4>2 DEF LeavesIn
      <4> QED
        BY <3>1, <4>1, <4>2 DEF Turns
    <3>4. \A a \in files' : (\E p \in requests : Promise(p, a)) => \E p \in requests' : Promise(p, a)'
      BY <2>1, <3>1, PromiseStays
    <3> QED
      BY <2>1, <1>t, <1>o, <3>2, <3>3, <3>4, HeldAside
  <2> QED
    BY <2>2, <2>3
<1>5. CASE TitleWrite(r)
  <2>1. CASE r.conv \in listed
    BY <1>5, <1>r, <1>w, <2>1, StepTurns DEF TitleWrite, pageVars
  <2>2. CASE r.conv \notin listed
    BY <1>5, <1>d, <2>2 DEF TitleWrite, pageVars
  <2> QED
    BY <2>1, <2>2
<1>6. CASE TitleFailed(r)
  BY <1>6, <1>d DEF TitleFailed, diskVars, pageVars
<1>7. CASE TitleAnswer(r)
  BY <1>7, <1>d DEF TitleAnswer, diskVars
<1>8. CASE DeleteIndex(r)
  <2>1. UNCHANGED <<md, files, leaked, composer>> /\ r.kind = "delete" /\ r.step = "sent"
    BY <1>8 DEF DeleteIndex, pageVars
  <2>2. PICK q : Turns(r, q) /\ q.step = "unlisted"
    BY <1>8, <1>r, StepTurns DEF DeleteIndex
  <2>3. \A c \in Convs : Pending(c) => Pending(c)'
    BY <2>1, <2>2 DEF Pending, Turns
  <2>4. \A c \in Convs : \A a \in files' : Safe(c, a) => Safe(c, a)'
    BY <2>1, <2>2 DEF Safe, LeavesIn, Turns
  <2>5. \A a \in files' : (\E p \in requests : Promise(p, a)) => \E p \in requests' : Promise(p, a)'
    BY <2>1, <2>2, PromiseStays DEF Promise, Turns
  <2> QED
    BY <2>1, <1>t, <1>o, <2>3, <2>4, <2>5, HeldAside
<1>9. CASE DeleteFile(r)
  <2>1. /\ UNCHANGED <<files, leaked, composer>> /\ r.kind = "delete" /\ r.step = "unlisted" /\ r.conv \in Convs
        /\ \A c \in Convs : md'[c] = IF c = r.conv THEN NoFile ELSE md[c]
    BY <1>9, <1>r DEF DeleteFile, pageVars
  <2>2. PICK q : Turns(r, q) /\ q.step = "unlinked"
    BY <1>9, <1>r, StepTurns DEF DeleteFile
  <2>3. \A c \in Convs : c # r.conv /\ Pending(c) => Pending(c)'
    BY <2>1, <2>2, PendingStays
  <2>4. \A c \in Convs : \A a : Safe(c, a) => c # r.conv /\ Safe(c, a)'
    BY <2>1, <2>2 DEF Safe, LeavesIn, Turns
  <2>5. \A a : (\E p \in requests : Promise(p, a)) => \E p \in requests' : Promise(p, a)'
    BY <2>1, <2>2, PromiseStays DEF Promise, Turns
  <2>6. HeldOK'
    BY <2>1, <2>3, <2>4, <1>t DEF HeldOK, Open
  <2>7. LeftOK'
    BY <2>1, <2>4, <2>5, <1>o DEF LeftOK
  <2> QED
    BY <2>6, <2>7
<1>10. CASE DiscardFile(r)
  <2>1. UNCHANGED <<md, leaked, composer>> /\ r.kind = "discard" /\ files' \subseteq files
    BY <1>10 DEF DiscardFile, pageVars
  <2>2. PICK q : Turns(r, q) /\ q.step = "unlinked"
    BY <1>10, <1>r, StepTurns DEF DiscardFile
  <2>3. \A c \in Convs : Pending(c) => Pending(c)'
    BY <2>1, <2>2, PendingStays
  <2>4. \A c \in Convs : \A a \in files' : Safe(c, a) => Safe(c, a)'
    BY <2>1, <2>2 DEF Safe, LeavesIn, Turns
  <2>5. \A a \in files' : (\E p \in requests : Promise(p, a)) => \E p \in requests' : Promise(p, a)'
    BY <2>1, <2>2, PromiseStays DEF Promise, Turns
  <2> QED
    BY <2>1, <1>t, <1>o, <2>3, <2>4, <2>5, HeldAside
<1>11. CASE Scan(r)
  <2> DEFINE q == [r EXCEPT !.step = "scanned", !.content = Referenced]
  <2>1. UNCHANGED <<md, files, leaked, composer>> /\ r.step = "unlinked" /\ r.kind \in {"delete", "discard"}
    BY <1>11, <1>r DEF Scan, diskVars, pageVars, StepsOK, RequestSet
  <2>2. Turns(r, q) /\ q.step = "scanned" /\ q.content = Referenced
    BY <1>11, <1>r DEF Scan, Turns, RequestSet, Referenced, Items
  <2>3. \A c \in Convs : Pending(c) => Pending(c)'
    BY <2>1, <2>2, PendingStays
  <2>4. \A c \in Convs : \A a \in files' : Safe(c, a) => Safe(c, a)'
    BY <2>1, <2>2 DEF Safe, LeavesIn, Turns
  <2>5. ASSUME NEW a \in files' \ (leaked \cup OnPage')
        PROVE  \/ \E p \in requests' : Promise(p, a)'
               \/ \E c \in Convs : md[c] # NoFile /\ a \in md[c] /\ Safe(c, a)'
    <3>1. a \in files /\ a \in Attachments /\ a \notin OnPage /\ a \notin leaked
      BY <2>1, <2>5, <1>o DEF LeftOK
    <3>2. CASE a \notin Referenced
      BY <2>1, <2>2, <3>2 DEF Promise, Turns
    <3>3. CASE a \in Referenced
      <4>1. PICK c \in Convs : md[c] # NoFile /\ a \in md[c]
        BY <3>3 DEF Referenced, InFiles
      <4>2. ~ Open(c)
        BY <3>1, <4>1 DEF ShownOK, OnPage
      <4>3. CASE Pending(c)
        <5>1. PICK p \in requests' : p.kind = "delete" /\ p.step \in {"sent", "unlisted"}
          BY <4>3, <2>3 DEF Pending
        <5> QED
          BY <5>1 DEF Promise
      <4>4. CASE Safe(c, a)
        BY <4>1, <4>4, <2>4, <2>5
      <4> QED
        BY <3>1, <4>1, <4>2, <4>3, <4>4 DEF HeldOK
    <3> QED
      BY <3>2, <3>3
  <2> QED
    BY <2>1, <1>t, <1>o, <2>3, <2>4, <2>5, HeldAside
<1>12. CASE Sweep(r)
  <2>1. /\ UNCHANGED <<md, leaked, composer>> /\ files' = files \cap r.content /\ Drop(r)
        /\ r.step = "scanned" /\ r.kind \in {"delete", "discard"}
    BY <1>12, <1>r DEF Sweep, pageVars, StepsOK, RequestSet
  <2>2. \A c \in Convs : Pending(c) => Pending(c)'
    BY <2>1, PendingStays
  <2>3. \A c \in Convs : \A a \in files' : Safe(c, a) => Safe(c, a)'
    BY <2>1, SafeStays
  <2>4. \A a \in files' : (\E p \in requests : Promise(p, a)) => \E p \in requests' : Promise(p, a)'
    BY <2>1 DEF Promise, Drop
  <2> QED
    BY <2>1, <1>t, <1>o, <2>2, <2>3, <2>4, HeldAside
<1> QED
  BY <1>1, <1>2, <1>3, <1>4, <1>5, <1>6, <1>7, <1>8, <1>9, <1>10, <1>11, <1>12

\* What the page lets go of is taken by a request it sends.
LEMMA PageKeeps ==
    ASSUME FilesInv, StepsOK, UsedOK, ShownOK, HeldOK, LeftOK,
           \/ \E c \in Convs : Start(c) \/ Send(c) \/ Reply(c) \/ End(c) \/ Delete(c)
           \/ Persist
           \/ \E a \in Attachments : Upload(a) \/ Discard(a)
    PROVE  HeldOK' /\ LeftOK'
<1>t. /\ page \in [Convs -> (SUBSET Items) \cup {NoFile}] /\ composer \subseteq Attachments
      /\ dirty \in Convs \cup {NoConv}
  BY DEF FilesInv, FilesTypeOK
<1>l. leaked' = leaked /\ md' = md
  BY DEF Start, Send, Reply, End, Delete, Persist, Upload, Discard, diskVars
\* More requests are no harm to what is under way.
<1>q. ASSUME NEW q, NEW k, NEW d, Asks(q, k, d)
      PROVE  /\ \A c : Pending(c) => Pending(c)'
             /\ \A c, a : Safe(c, a) /\ (k = "title" \/ c # d) => Safe(c, a)'
             /\ \A a : (\E p \in requests : Promise(p, a)) => \E p \in requests' : Promise(p, a)'
             /\ k \in {"delete", "discard"} => \A a : \E p \in requests' : Promise(p, a)'
             /\ k = "upload" => \E p \in requests' : Promise(p, q.item)'
             /\ k = "delete" => Pending(d)'
  BY <1>q DEF Asks, Pending, Safe, LeavesIn, Promise
<1>n. ASSUME UNCHANGED requests
      PROVE  /\ \A c : Pending(c)' = Pending(c)
             /\ \A c, a : Safe(c, a)' = Safe(c, a)
             /\ \A a : (\E p \in requests : Promise(p, a)) = \E p \in requests' : Promise(p, a)'
  BY <1>n DEF Pending, Safe, LeavesIn, Promise
<1>p. /\ \A x : x \in OnPage <=> (x \in composer \/ \E d \in Convs : page[d] # NoFile /\ x \in page[d])
      /\ \A x : x \in OnPage' <=> (x \in composer' \/ \E d \in Convs : page'[d] # NoFile /\ x \in page'[d])
  BY DEF OnPage, Open
<1>1. ASSUME NEW c \in Convs, Start(c) PROVE HeldOK' /\ LeftOK'
  <2>m. PICK m \in Messages :
            page' = [page EXCEPT ![c] = m] /\ Ask(Request("first", c, NoItem, m, "sent"))
    BY <1>1 DEF Start
  <2>1. PICK q : Asks(q, "first", c)
    BY <2>m, AskedFor
  <2>2. c \notin used /\ files' = files /\ composer' = {}
    BY <1>1 DEF Start, Fresh, diskVars
  <2>3. \A d \in Convs : page'[d] = IF d = c THEN m ELSE page[d]
    BY <2>m, <1>t
  <2>4. page[c] = NoFile /\ md[c] = NoFile
    BY <2>2 DEF UsedOK, Open
  <2>5. m # NoFile /\ composer \subseteq m
    BY <1>t, ConvAssumption DEF Messages, Items, Fresh
  <2>6. OnPage \subseteq OnPage'
    BY <2>2, <2>3, <2>4, <2>5, <1>p
  <2>7. HeldOK'
    BY <2>1, <2>2, <2>3, <2>4, <1>l, <1>q DEF HeldOK, Open
  <2>8. LeftOK'
    BY <2>1, <2>2, <2>4, <2>6, <1>l, <1>q DEF LeftOK
  <2> QED
    BY <2>7, <2>8
<1>2. ASSUME NEW c \in Convs, Send(c) PROVE HeldOK' /\ LeftOK'
  <2>1. PICK m \in Messages : page' = [page EXCEPT ![c] = @ \cup m]
    BY <1>2 DEF Send
  <2>2. UNCHANGED <<requests, files>> /\ composer' = {} /\ Open(c)
    BY <1>2 DEF Send, diskVars
  <2>3. \A d \in Convs : page'[d] = IF d = c THEN page[d] \cup m ELSE page[d]
    BY <2>1, <1>t
  <2>4. composer \subseteq m /\ page[c] \cup m # NoFile
    BY <1>t, <2>2, ConvAssumption DEF Messages, Items, Fresh, Open
  <2>5. \A d \in Convs : Open(d)' = Open(d)
    BY <2>2, <2>3, <2>4 DEF Open
  <2>6. OnPage \subseteq OnPage'
    BY <2>2, <2>3, <2>4, <1>p DEF Open
  <2> QED
    BY <2>2, <2>5, <2>6, <1>l, <1>n DEF HeldOK, LeftOK
<1>3. ASSUME NEW c \in Convs, Reply(c) PROVE HeldOK' /\ LeftOK'
  <2>1. PICK t \in Fresh(Texts) : page' = [page EXCEPT ![c] = @ \cup {t}]
    BY <1>3 DEF Reply
  <2>2. UNCHANGED <<requests, files, composer>> /\ Open(c)
    BY <1>3 DEF Reply, diskVars
  <2>3. \A d \in Convs : page'[d] = IF d = c THEN page[d] \cup {t} ELSE page[d]
    BY <2>1, <1>t
  <2>4. page[c] \cup {t} # NoFile
    BY <1>t, <2>1, <2>2, ConvAssumption DEF Items, Fresh, Open
  <2>5. \A d \in Convs : Open(d)' = Open(d)
    BY <2>2, <2>3, <2>4 DEF Open
  <2>6. OnPage \subseteq OnPage'
    BY <2>2, <2>3, <2>4, <1>p DEF Open
  <2> QED
    BY <2>2, <2>5, <2>6, <1>l, <1>n DEF HeldOK, LeftOK
<1>4. ASSUME NEW c \in Convs, End(c) PROVE HeldOK' /\ LeftOK'
  <2>1. UNCHANGED <<page, composer, files>>
    BY <1>4 DEF End, diskVars
  <2>2. OnPage' = OnPage
    BY <2>1 DEF OnPage, Open
  <2>3. CASE UNCHANGED requests
    BY <2>1, <2>2, <2>3, <1>l, <1>n DEF HeldOK, LeftOK, Open
  <2>4. CASE Ask(Request("title", c, NoItem, {}, "sent"))
    <3>1. PICK q : Asks(q, "title", c)
      BY <2>4, AskedFor
    <3> QED
      BY <2>1, <2>2, <3>1, <1>l, <1>q DEF HeldOK, LeftOK, Open
  <2> QED
    BY <1>4, <2>3, <2>4 DEF End
<1>5. ASSUME NEW c \in Convs, Delete(c) PROVE HeldOK' /\ LeftOK'
  <2>1. PICK q : Asks(q, "delete", c)
    BY <1>5, AskedFor DEF Delete
  <2>2. UNCHANGED <<files, composer>> /\ Open(c) /\ \A d \in Convs : page'[d] = IF d = c THEN NoFile ELSE page[d]
    BY <1>5, <1>t DEF Delete, diskVars
  <2>3. HeldOK'
    BY <2>1, <2>2, <1>l, <1>q DEF HeldOK, Open
  <2>4. LeftOK'
    BY <2>1, <2>2, <1>l, <1>q DEF LeftOK
  <2> QED
    BY <2>3, <2>4
<1>6. CASE Persist
  <2>1. UNCHANGED <<page, composer, files>> /\ dirty \in Convs
    BY <1>6, <1>t DEF Persist, diskVars
  <2>2. OnPage' = OnPage
    BY <2>1 DEF OnPage, Open
  <2>3. CASE ~ Open(dirty)
    BY <1>6, <2>1, <2>2, <2>3, <1>l, <1>n DEF Persist, HeldOK, LeftOK, Open
  <2>4. CASE Open(dirty)
    <3>1. PICK q : Asks(q, "save", dirty)
      BY <1>6, <2>4, AskedFor DEF Persist
    <3>2. HeldOK'
      BY <2>1, <2>4, <3>1, <1>l, <1>q DEF HeldOK, Open
    <3>3. \A c \in Convs : \A a : a \notin OnPage /\ md[c] # NoFile /\ a \in md[c] => c # dirty
      BY <2>1, <2>4 DEF ShownOK, OnPage
    <3>4. LeftOK'
      BY <2>1, <2>2, <3>1, <3>3, <1>l, <1>q DEF LeftOK
    <3> QED
      BY <3>2, <3>4
  <2> QED
    BY <2>3, <2>4
<1>7. ASSUME NEW a \in Attachments, Upload(a) PROVE HeldOK' /\ LeftOK'
  <2>1. PICK q : Asks(q, "upload", NoConv) /\ q.item = a
    BY <1>7, AskedFor DEF Upload
  <2>2. UNCHANGED <<page, composer>> /\ files' = files \cup {a} /\ a \notin used
    BY <1>7 DEF Upload, pageVars, Fresh
  <2>3. OnPage' = OnPage
    BY <2>2 DEF OnPage, Open
  <2>4. HeldOK'
    BY <2>1, <2>2, <1>l, <1>q, ConvAssumption DEF HeldOK, Open, UsedOK
  <2>5. LeftOK'
    BY <2>1, <2>2, <2>3, <1>l, <1>q, ConvAssumption DEF LeftOK
  <2> QED
    BY <2>4, <2>5
<1>8. ASSUME NEW a \in Attachments, Discard(a) PROVE HeldOK' /\ LeftOK'
  <2>1. PICK q : Asks(q, "discard", NoConv)
    BY <1>8, AskedFor DEF Discard
  <2>2. UNCHANGED <<page, files>>
    BY <1>8 DEF Discard, diskVars
  <2>3. HeldOK'
    BY <2>1, <2>2, <1>l, <1>q, ConvAssumption DEF HeldOK, Open
  <2>4. LeftOK'
    BY <2>1, <2>2, <1>l, <1>q DEF LeftOK
  <2> QED
    BY <2>3, <2>4
<1> QED
  BY <1>1, <1>2, <1>3, <1>4, <1>5, <1>6, <1>7, <1>8

\* A restart takes every request with it, and what it leaves of the attachments is
\* in a file, on the page or leaked.
LEMMA DiskAfterRestart ==
    ASSUME FilesInv, DiskInv, ConvRestart
    PROVE  DiskInv'
<1> USE DEF DiskInv
<1>1. /\ requests' = {} /\ UNCHANGED <<listed, md, page, composer, dirty, used>>
      /\ owner' \in {owner, NoConv} /\ files' \subseteq files
      /\ files' \ (Referenced \cup OnPage) \subseteq leaked'
  BY DEF ConvRestart
<1>2. StepsOK' /\ UsedOK' /\ ShownOK'
  BY <1>1 DEF StepsOK, UsedOK, ShownOK, Open
<1>3. SavedOK'
  <2>1. \A c \in Convs \ excused' : c \notin excused /\ Saves(c) = {} /\ ~ Retitled(c)
    BY DEF ConvRestart, Saves, Retitled
  <2>2. \A c : Saves(c)' = {}
    BY <1>1 DEF Saves
  <2> QED
    BY <1>1, <2>1, <2>2 DEF SavedOK, Open
<1>4. \A c, a : Safe(c, a)'
  BY <1>1 DEF Safe
<1>5. HeldOK'
  BY <1>4 DEF HeldOK
<1>6. LeftOK'
  <2>1. OnPage' = OnPage
    BY <1>1 DEF OnPage, Open
  <2>2. \A a \in Referenced : \E c \in Convs : md[c] # NoFile /\ a \in md[c]
    BY DEF Referenced, InFiles
  <2> QED
    BY <1>1, <1>4, <2>1, <2>2 DEF LeftOK
<1> QED
  BY <1>2, <1>3, <1>5, <1>6

\* Every step of the conversations keeps what is said of the disk.
LEMMA DiskStep ==
    ASSUME FilesInv, DiskInv, ConvNext
    PROVE  DiskInv'
<1> USE DEF DiskInv
<1>1. CASE \E r \in requests :
               \/ Uploaded(r) \/ SaveFile(r) \/ SaveIndex(r)
               \/ TitleRead(r) \/ TitleWrite(r) \/ TitleFailed(r) \/ TitleAnswer(r)
               \/ DeleteIndex(r) \/ DeleteFile(r) \/ DiscardFile(r) \/ Scan(r) \/ Sweep(r)
  BY <1>1, ServerBasics, ServerSaves, ServerKeeps
<1>2. CASE \/ \E c \in Convs : Start(c) \/ Send(c) \/ Reply(c) \/ End(c) \/ Delete(c)
           \/ Persist
           \/ \E a \in Attachments : Upload(a) \/ Discard(a)
  BY <1>2, PageBasics, PageSaves, PageKeeps
<1> QED
  BY <1>1, <1>2 DEF ConvNext

(***************************************************************************)
(* The source folders                                                      *)
(***************************************************************************)

\* What an owner is left with when none of its folders was asked for is nothing.
Served(w) == IF w = NoEntry THEN {} ELSE w
Agreed(o) == index[o] = wanted[o] /\ kept[o] = Served(wanted[o])

\* A job that has begun to change its owner, and what it has changed so far.
Midway(j) == j.step \in {"entered", "loaded", "checked", "done", "unlisted"}
Progress(j) ==
    LET o == j.owner  w == wanted[o] IN
    IF j.kind = "delete" THEN index[o] = NoEntry
    ELSE /\ w # NoEntry
         /\ index[o] = IF j.kind = "detach" /\ o \in Chats THEN w \ {j.folder} ELSE w
         /\ kept[o] = IF j.step # "done" THEN w
                      ELSE IF j.kind = "attach" THEN w \cup {j.folder} ELSE w \ {j.folder}
         /\ j.step \in {"loaded", "checked"} => j.seen = kept[o]

SourcesTypeOK ==
    /\ index \in [Owners -> (SUBSET Folders) \cup {NoEntry}] /\ wanted \in [Owners -> (SUBSET Folders) \cup {NoEntry}]
    /\ kept \in [Owners -> SUBSET Folders] /\ jobs \subseteq JobSet /\ raced \subseteq Owners

\* What a job of each kind is at, and what it has read.
JobOK(j) ==
    /\ j.kind \in {"attach", "detach"} =>
           /\ j.folder \in Folders /\ j.step \in {"sent", "entered", "loaded", "checked", "done"}
           /\ j.kind = "detach" => j.step # "checked" /\ (j.step = "done" => j.owner \in Projects)
           /\ j.owner \in Projects /\ j.step # "sent" =>
                  /\ holder = j /\ j.idx \in [Projects -> (SUBSET Folders) \cup {NoEntry}]
                  /\ j.idx[j.owner] # NoEntry
           /\ j.owner \in Chats \/ j.step = "sent" => j.idx = NoEntry
    /\ j.kind = "delete" =>
           /\ j.step \in {"sent", "read", "unlisted"} /\ (j.step = "read" => j.owner \in Projects)
           /\ IF j.step = "read" THEN j.idx \in [Projects -> (SUBSET Folders) \cup {NoEntry}] ELSE j.idx = NoEntry

\* Requests that disturb one another have been noticed.
Disturbing(j, k) ==
    \/ j.owner = k.owner /\ k.owner \in Chats
    \/ {j.owner, k.owner} \subseteq Projects /\ "delete" \in {j.kind, k.kind}
OverlapsOK == \A j, k \in jobs : j # k /\ Disturbing(j, k) => {j.owner, k.owner} \subseteq raced

\* What was read of the index of the projects is still so, where nothing overlapped.
ReadOK == \A j \in jobs : j.idx # NoEntry => \A p \in Projects \ raced : j.idx[p] = index[p]

\* The index and the service agree with what was asked for, but for what the one
\* job that is midway has done.
OwnersOK ==
    \A o \in Owners \ raced :
        /\ (\A j \in jobs : j.owner = o => ~ Midway(j)) => Agreed(o)
        /\ \A j \in jobs : j.owner = o /\ Midway(j) => Progress(j)

SourcesInv ==
    /\ SourcesTypeOK /\ \A j \in jobs : JobOK(j)
    /\ holder # NoJob => holder \in jobs /\ holder.kind # "delete" /\ holder.step # "sent"
    /\ OverlapsOK /\ ReadOK /\ OwnersOK

\* At most one job is midway for an owner whose requests have not overlapped.
LEMMA OneMidway ==
    ASSUME SourcesInv
    PROVE  \A j, k \in jobs : Midway(j) /\ Midway(k) /\ j.owner = k.owner /\ j.owner \notin raced => j = k
<1> SUFFICES ASSUME NEW j \in jobs, NEW k \in jobs, Midway(j), Midway(k), j.owner = k.owner,
                    j.owner \notin raced, j # k
             PROVE  FALSE
  OBVIOUS
<1>1. /\ j.owner \in Projects \cup Chats /\ j.kind \in {"attach", "detach", "delete"}
      /\ k.kind \in {"attach", "detach", "delete"} /\ JobOK(j) /\ JobOK(k)
  BY DEF SourcesInv, SourcesTypeOK, JobSet, Owners
<1>2. ~ Disturbing(j, k)
  BY DEF SourcesInv, OverlapsOK
<1>3. j.owner \in Projects /\ j.kind # "delete" /\ k.kind # "delete"
  BY <1>1, <1>2 DEF Disturbing
<1>4. j.step # "sent" /\ k.step # "sent"
  BY DEF Midway
<1> QED
  BY <1>1, <1>3, <1>4 DEF JobOK

\* What a step may do to the owners: nothing but to its own, where nothing has
\* overlapped, and nothing that a job which goes on has read.
Careful(j) ==
    /\ index' \in [Owners -> (SUBSET Folders) \cup {NoEntry}] /\ wanted' \in [Owners -> (SUBSET Folders) \cup {NoEntry}]
    /\ kept' \in [Owners -> SUBSET Folders] /\ raced' = raced
    /\ \A o \in Owners \ raced : o # j.owner =>
           index'[o] = index[o] /\ kept'[o] = kept[o] /\ wanted'[o] = wanted[o]
    /\ \A i \in jobs \ {j} : i.idx # NoEntry => \A p \in Projects \ raced : index'[p] = index[p]
Untouched(o) == index'[o] = index[o] /\ kept'[o] = kept[o] /\ wanted'[o] = wanted[o]

\* A job that goes on keeps the invariant if it accounts for what it changes.
LEMMA JobGoesOn ==
    ASSUME SourcesInv, NEW j \in jobs, NEW k \in JobSet, jobs' = (jobs \ {j}) \cup {k}, Careful(j),
           k.kind = j.kind, k.owner = j.owner, JobOK(k)',
           \/ holder' = holder /\ holder # j
           \/ holder' = k /\ holder \in {j, NoJob} /\ k.kind # "delete" /\ k.step # "sent",
           k.idx = NoEntry \/ \A p \in Projects \ raced : k.idx[p] = index'[p],
           j.owner \notin raced => \/ Midway(k) /\ Progress(k)'
                                   \/ ~ Midway(k) /\ ~ Midway(j) /\ Untouched(j.owner)
    PROVE  SourcesInv'
<1>1. SourcesTypeOK'
  BY DEF Careful, SourcesInv, SourcesTypeOK
<1>2. \A i \in jobs' : JobOK(i)'
  <2> SUFFICES ASSUME NEW i \in jobs \ {j} PROVE JobOK(i)'
    OBVIOUS
  <2>1. i # NoJob
    BY SourcesAssumption DEF SourcesInv, SourcesTypeOK
  <2>2. holder = i => holder' = i
    BY <2>1
  <2> QED
    BY <2>2 DEF SourcesInv, JobOK
<1>3. holder' # NoJob => holder' \in jobs' /\ holder'.kind # "delete" /\ holder'.step # "sent"
  BY DEF SourcesInv
<1>4. OverlapsOK'
  BY DEF SourcesInv, OverlapsOK, Disturbing, Careful
<1>5. ReadOK'
  BY DEF SourcesInv, ReadOK, Careful
<1>6. ASSUME NEW o \in Owners \ raced, o # j.owner
      PROVE  /\ (\A i \in jobs' : i.owner = o => ~ Midway(i)) => Agreed(o)'
             /\ \A i \in jobs' : i.owner = o /\ Midway(i) => Progress(i)'
  <2>1. Untouched(o)
    BY <1>6 DEF Careful, Untouched
  <2>2. \A i : i.owner = o => (i \in jobs' <=> i \in jobs)
    BY <1>6
  <2>3. Agreed(o) => Agreed(o)'
    BY <2>1 DEF Agreed, Untouched
  <2>4. ASSUME NEW i \in jobs, i.owner = o, Progress(i) PROVE Progress(i)'
    BY <2>1, <2>4 DEF Progress, Untouched
  <2> QED
    BY <1>6, <2>2, <2>3, <2>4 DEF SourcesInv, OwnersOK
<1>7. ASSUME j.owner \notin raced, Midway(k), Progress(k)'
      PROVE  \A i \in jobs' : i.owner = j.owner /\ Midway(i) => Progress(i)'
  <2> SUFFICES ASSUME NEW i \in jobs \ {j}, i.owner = j.owner, Midway(i), i # k PROVE FALSE
    BY <1>7
  <2>1. /\ j.owner \in Projects \cup Chats /\ j.kind \in {"attach", "detach", "delete"}
        /\ i.kind \in {"attach", "detach", "delete"} /\ JobOK(i) /\ i # NoJob
    BY SourcesAssumption DEF SourcesInv, SourcesTypeOK, JobSet, Owners
  <2>2. ~ Disturbing(i, j)
    BY <1>7 DEF SourcesInv, OverlapsOK
  <2>3. j.owner \in Projects /\ j.kind # "delete" /\ i.kind # "delete"
    BY <2>1, <2>2 DEF Disturbing
  <2>4. i.step # "sent" /\ k.step # "sent"
    BY <1>7 DEF Midway
  <2>5. holder = i /\ holder' = k
    BY <2>1, <2>3, <2>4 DEF JobOK
  <2> QED
    BY <2>1, <2>5
<1>8. OwnersOK'
  <2>1. ASSUME j.owner \notin raced, ~ Midway(k), ~ Midway(j), Untouched(j.owner)
        PROVE  /\ (\A i \in jobs' : i.owner = j.owner => ~ Midway(i)) => Agreed(j.owner)'
               /\ \A i \in jobs' : i.owner = j.owner /\ Midway(i) => Progress(i)'
    <3>1. j.owner \in Owners
      BY DEF SourcesInv, SourcesTypeOK, JobSet
    <3>2. \A i : Midway(i) => (i \in jobs' <=> i \in jobs)
      BY <2>1
    <3> QED
      <4>1. Agreed(j.owner) => Agreed(j.owner)'
        BY <2>1 DEF Agreed, Untouched
      <4>2. ASSUME NEW i \in jobs, i.owner = j.owner, Progress(i) PROVE Progress(i)'
        BY <2>1, <4>2 DEF Progress, Untouched
      <4> QED
        BY <2>1, <3>1, <3>2, <4>1, <4>2 DEF SourcesInv, OwnersOK
  <2>2. k \in jobs' /\ raced' = raced
    BY DEF Careful
  <2> QED
    BY <1>6, <1>7, <2>1, <2>2 DEF OwnersOK
<1> QED
  BY <1>1, <1>2, <1>3, <1>4, <1>5, <1>8 DEF SourcesInv

\* A job that ends keeps it if the owner agrees with what was asked for by then.
LEMMA JobEnds ==
    ASSUME SourcesInv, NEW j \in jobs, Ends(j), Careful(j),
           j.owner \notin raced => IF Midway(j) THEN Agreed(j.owner)' ELSE Untouched(j.owner)
    PROVE  SourcesInv'
<1>1. SourcesTypeOK'
  BY DEF Careful, SourcesInv, SourcesTypeOK, Ends
<1>2. \A i \in jobs' : JobOK(i)'
  BY DEF SourcesInv, JobOK, Ends
<1>3. holder' # NoJob => holder' \in jobs' /\ holder'.kind # "delete" /\ holder'.step # "sent"
  BY DEF SourcesInv, Ends
<1>4. OverlapsOK' /\ ReadOK'
  BY DEF SourcesInv, OverlapsOK, Disturbing, ReadOK, Careful, Ends
<1>5. j.owner \in Owners
  BY DEF SourcesInv, SourcesTypeOK, JobSet
<1>6. ASSUME NEW o \in Owners \ raced, o # j.owner \/ ~ Midway(j)
      PROVE  /\ (\A i \in jobs' : i.owner = o => ~ Midway(i)) => Agreed(o)'
             /\ \A i \in jobs' : i.owner = o /\ Midway(i) => Progress(i)'
  <2>1. Untouched(o)
    BY <1>6 DEF Careful, Untouched
  <2>2. \A i : i.owner = o /\ Midway(i) => (i \in jobs' <=> i \in jobs)
    BY <1>6 DEF Ends
  <2> QED
    <3>1. Agreed(o) => Agreed(o)'
      BY <2>1 DEF Agreed, Untouched
    <3>2. ASSUME NEW i \in jobs, i.owner = o, Progress(i) PROVE Progress(i)'
      BY <2>1, <3>2 DEF Progress, Untouched
    <3> QED
      BY <1>6, <2>2, <3>1, <3>2 DEF SourcesInv, OwnersOK
<1>7. OwnersOK'
  <2>1. j.owner \notin raced /\ Midway(j) => \A i \in jobs' : i.owner = j.owner => ~ Midway(i)
    BY OneMidway DEF Ends
  <2>2. raced' = raced
    BY DEF Careful
  <2> QED
    BY <1>5, <1>6, <2>1, <2>2 DEF OwnersOK
<1> QED
  BY <1>1, <1>2, <1>3, <1>4, <1>7 DEF SourcesInv

\* What is known of a job in flight.
LEMMA JobFacts ==
    ASSUME SourcesInv, NEW j \in jobs
    PROVE  /\ j \in JobSet /\ j # NoJob /\ j.owner \in Owners /\ JobOK(j) /\ j.seen \in SUBSET Folders
           /\ holder = j => j.kind # "delete" /\ j.step # "sent"
           /\ j.idx # NoEntry => \A p \in Projects \ raced : j.idx[p] = index[p]
           /\ j.owner \notin raced /\ Midway(j) => Progress(j)
           /\ index \in [Owners -> (SUBSET Folders) \cup {NoEntry}] /\ wanted \in [Owners -> (SUBSET Folders) \cup {NoEntry}]
           /\ kept \in [Owners -> SUBSET Folders]
  BY SourcesAssumption DEF SourcesInv, SourcesTypeOK, JobSet, ReadOK, OwnersOK

\* A step of the service, which leaves the index alone.
LEMMA ServiceStep ==
    ASSUME SourcesInv, NEW j \in jobs, NEW k \in JobSet, Becomes(j, k),
           k.kind = j.kind, k.owner = j.owner, k.folder = j.folder, k.idx = j.idx,
           j.kind # "delete", Midway(j), k.step \in {"loaded", "checked", "done"},
           k.kind = "detach" => k.step # "checked" /\ (k.step = "done" => k.owner \in Projects),
           UNCHANGED <<index, wanted, raced>>, kept' \in [Owners -> SUBSET Folders],
           \A o \in Owners : o # j.owner => kept'[o] = kept[o],
           j.owner \notin raced /\ Progress(j) => Progress(k)'
    PROVE  SourcesInv'
<1>1. /\ JobOK(j) /\ j \in JobSet /\ j.step # "sent" /\ Midway(k) /\ k.kind \in {"attach", "detach"}
  BY JobFacts DEF Midway, JobSet
<1>2. Careful(j)
  BY JobFacts DEF Careful
<1>3. k.owner \in Projects => holder = j /\ holder' = k
  BY <1>1 DEF JobOK, Becomes
<1>4. JobOK(k)'
  BY <1>1, <1>3 DEF JobOK, Midway
<1>5. \/ holder' = holder /\ holder # j
      \/ holder' = k /\ holder \in {j, NoJob} /\ k.kind # "delete" /\ k.step # "sent"
  BY <1>1, JobFacts DEF Becomes
<1>6. k.idx = NoEntry \/ \A p \in Projects \ raced : k.idx[p] = index'[p]
  BY JobFacts
<1>7. j.owner \notin raced => Midway(k) /\ Progress(k)'
  BY <1>1, JobFacts
<1>8. jobs' = (jobs \ {j}) \cup {k}
  BY DEF Becomes
<1> QED
  BY <1>2, <1>4, <1>5, <1>6, <1>7, <1>8, JobGoesOn

\* The service keeps the invariant.
LEMMA ServiceKeeps ==
    ASSUME SourcesInv, NEW j \in jobs,
           LoadToAttach(j) \/ CheckLimit(j) \/ Keep(j) \/ LoadToDetach(j) \/ Forget(j) \/ ForgetAll(j)
    PROVE  SourcesInv'
<1>j. /\ j \in JobSet /\ j.owner \in Owners /\ JobOK(j) /\ j.seen \in SUBSET Folders
      /\ kept \in [Owners -> SUBSET Folders] /\ index \in [Owners -> (SUBSET Folders) \cup {NoEntry}]
      /\ wanted \in [Owners -> (SUBSET Folders) \cup {NoEntry}]
      /\ Projects \cap Chats = {} /\ Owners = Projects \cup Chats
  BY JobFacts, SourcesAssumption DEF Owners
<1>c. UNCHANGED <<index, kept, wanted, raced>> => Careful(j)
  BY <1>j DEF Careful
<1>1. CASE LoadToAttach(j)
  <2>1. Midway(j) /\ UNCHANGED <<index, kept, wanted, raced>> /\ j.kind = "attach" /\ j.step = "entered"
    BY <1>1 DEF LoadToAttach, Midway
  <2>2. CASE Ends(j) /\ j.folder \in kept[j.owner]
    <3>1. j.owner \notin raced => Agreed(j.owner)'
      BY <2>1, JobFacts DEF Progress, Agreed, Served
    <3> QED
      BY <1>c, <2>1, <2>2, <3>1, JobEnds
  <2>3. CASE Becomes(j, [j EXCEPT !.step = "loaded", !.seen = kept[j.owner]])
    <3>1. kept[j.owner] \in SUBSET Folders
      BY <1>j
    <3>2. PICK k : k = [j EXCEPT !.step = "loaded", !.seen = kept[j.owner]] /\ Becomes(j, k)
      BY <2>3
    <3>k. /\ k \in JobSet /\ k.kind = j.kind /\ k.owner = j.owner /\ k.folder = j.folder
            /\ k.idx = j.idx /\ k.step = "loaded" /\ k.seen = kept[j.owner]
      BY <1>j, <3>2, <3>1 DEF JobSet
    <3>3. Progress(j) => Progress(k)'
      BY <2>1, <3>1, <3>2, <3>k DEF Progress
    <3> QED
      BY <1>j, <2>1, <3>1, <3>2, <3>k, <3>3, ServiceStep
  <2> QED
    BY <1>1, <2>2, <2>3 DEF LoadToAttach
<1>2. CASE CheckLimit(j)
  <2>1. Midway(j) /\ UNCHANGED <<index, kept, wanted, raced>> /\ j.kind = "attach" /\ j.step = "loaded"
    BY <1>2 DEF CheckLimit, Midway
  <2>2. CASE Ends(j)
    <3>1. j.owner \notin raced => Agreed(j.owner)'
      BY <2>1, JobFacts DEF Progress, Agreed, Served
    <3> QED
      BY <1>c, <2>1, <2>2, <3>1, JobEnds
  <2>3. CASE Becomes(j, [j EXCEPT !.step = "checked"])
    <3> DEFINE k == [j EXCEPT !.step = "checked"]
    <3>1. /\ k \in JobSet /\ k.kind = j.kind /\ k.owner = j.owner
          /\ k.folder = j.folder /\ k.idx = j.idx /\ k.step = "checked" /\ k.seen = j.seen
      BY <1>j DEF JobSet
    <3> HIDE DEF k
    <3>2. Progress(j) => Progress(k)'
      BY <2>1, <3>1 DEF Progress
    <3> QED
      BY <1>j, <2>1, <2>3, <3>1, <3>2, ServiceStep DEF k
  <2> QED
    BY <1>2, <2>2, <2>3 DEF CheckLimit
<1>3. CASE Keep(j)
  <2>1. /\ Midway(j) /\ UNCHANGED <<index, wanted, raced>> /\ j.kind = "attach" /\ j.step = "checked"
        /\ kept' = [kept EXCEPT ![j.owner] = j.seen \cup {j.folder}]
        /\ Becomes(j, [j EXCEPT !.step = "done", !.seen = {}])
    BY <1>3 DEF Keep, Midway
  <2>2. j.folder \in Folders
    BY <1>j, <2>1 DEF JobOK
  <2>3. kept' \in [Owners -> SUBSET Folders] /\ kept'[j.owner] = j.seen \cup {j.folder}
        /\ \A o \in Owners : o # j.owner => kept'[o] = kept[o]
    BY <1>j, <2>1, <2>2
  <2>4. PICK k : k = [j EXCEPT !.step = "done", !.seen = {}] /\ Becomes(j, k)
    BY <2>1
  <2>k. /\ k \in JobSet /\ k.kind = j.kind /\ k.owner = j.owner /\ k.folder = j.folder
          /\ k.idx = j.idx /\ k.step = "done" /\ k.seen = {}
    BY <1>j, <2>4, <2>1 DEF JobSet
  <2>5. Progress(j) => Progress(k)'
    BY <2>1, <2>3, <2>4, <2>k DEF Progress
  <2> QED
    BY <1>j, <2>1, <2>3, <2>4, <2>k, <2>5, ServiceStep
<1>4. CASE LoadToDetach(j)
  <2>1. /\ Midway(j) /\ UNCHANGED <<index, kept, wanted, raced>> /\ j.kind = "detach" /\ j.step = "entered"
        /\ Becomes(j, [j EXCEPT !.step = "loaded", !.seen = kept[j.owner]])
    BY <1>4 DEF LoadToDetach, Midway
  <2>2. kept[j.owner] \in SUBSET Folders
    BY <1>j
  <2>3. PICK k : k = [j EXCEPT !.step = "loaded", !.seen = kept[j.owner]] /\ Becomes(j, k)
    BY <2>1
  <2>k. /\ k \in JobSet /\ k.kind = j.kind /\ k.owner = j.owner /\ k.folder = j.folder
          /\ k.idx = j.idx /\ k.step = "loaded" /\ k.seen = kept[j.owner]
    BY <1>j, <2>3, <2>2 DEF JobSet
  <2>4. Progress(j) => Progress(k)'
    BY <2>1, <2>2, <2>3, <2>k DEF Progress
  <2> QED
    BY <1>j, <2>1, <2>2, <2>3, <2>k, <2>4, ServiceStep
<1>5. CASE Forget(j)
  <2>1. /\ Midway(j) /\ UNCHANGED <<index, raced>> /\ j.kind = "detach" /\ j.step = "loaded"
        /\ kept' = [kept EXCEPT ![j.owner] = j.seen \ {j.folder}]
    BY <1>5 DEF Forget, Midway
  <2>2. /\ kept' \in [Owners -> SUBSET Folders] /\ kept'[j.owner] = j.seen \ {j.folder}
        /\ \A o \in Owners : o # j.owner => kept'[o] = kept[o]
    BY <1>j, <2>1
  <2>3. CASE j.owner \in Chats
    <3>1. Ends(j) /\ wanted' = [wanted EXCEPT ![j.owner] = IF @ = NoEntry THEN @ ELSE @ \ {j.folder}]
      BY <1>5, <2>3 DEF Forget
    <3>2. wanted' \in [Owners -> (SUBSET Folders) \cup {NoEntry}] /\ \A o \in Owners : o # j.owner => wanted'[o] = wanted[o]
      BY <1>j, <3>1
    <3>3. j.owner \notin raced => Agreed(j.owner)'
      <4> SUFFICES ASSUME j.owner \notin raced PROVE Agreed(j.owner)'
        OBVIOUS
      <4>1. Progress(j)
        BY <2>1, JobFacts
      <4>2. wanted'[j.owner] = wanted[j.owner] \ {j.folder} /\ wanted[j.owner] \in SUBSET Folders
        BY <1>j, <2>1, <3>1, <4>1 DEF Progress
      <4>3. wanted'[j.owner] # NoEntry
        BY <4>2, SourcesAssumption
      <4> QED
        BY <2>1, <2>2, <2>3, <4>1, <4>2, <4>3 DEF Agreed, Served, Progress
    <3>4. Careful(j)
      BY <1>j, <2>1, <2>2, <3>2 DEF Careful
    <3> QED
      BY <2>1, <3>1, <3>3, <3>4, JobEnds
  <2>4. CASE j.owner \notin Chats
    <3>1. Becomes(j, [j EXCEPT !.step = "done", !.seen = {}]) /\ wanted' = wanted /\ j.owner \in Projects
      BY <1>j, <1>5, <2>4 DEF Forget
    <3>2. PICK k : k = [j EXCEPT !.step = "done", !.seen = {}] /\ Becomes(j, k)
      BY <3>1
    <3>k. /\ k \in JobSet /\ k.kind = j.kind /\ k.owner = j.owner /\ k.folder = j.folder
            /\ k.idx = j.idx /\ k.step = "done" /\ k.seen = {}
      BY <1>j, <3>2, <3>1 DEF JobSet
    <3>3. Progress(j) => Progress(k)'
      BY <2>1, <2>2, <2>4, <3>1, <3>2, <3>k DEF Progress
    <3> QED
      BY <1>j, <2>1, <2>2, <3>1, <3>2, <3>k, <3>3, ServiceStep
  <2> QED
    BY <2>3, <2>4
<1>6. CASE ForgetAll(j)
  <2>1. /\ Midway(j) /\ UNCHANGED <<index, raced>> /\ j.kind = "delete" /\ Ends(j)
        /\ kept' = [kept EXCEPT ![j.owner] = {}] /\ wanted' = [wanted EXCEPT ![j.owner] = NoEntry]
    BY <1>6 DEF ForgetAll, Midway
  <2>2. /\ kept' \in [Owners -> SUBSET Folders] /\ wanted' \in [Owners -> (SUBSET Folders) \cup {NoEntry}]
        /\ kept'[j.owner] = {} /\ wanted'[j.owner] = NoEntry
        /\ \A o \in Owners : o # j.owner => kept'[o] = kept[o] /\ wanted'[o] = wanted[o]
    BY <1>j, <2>1
  <2>3. j.owner \notin raced => Agreed(j.owner)'
    BY <2>1, <2>2, JobFacts DEF Progress, Agreed, Served
  <2>4. Careful(j)
    BY <1>j, <2>1, <2>2 DEF Careful
  <2> QED
    BY <2>1, <2>3, <2>4, JobEnds
<1> QED
  BY <1>1, <1>2, <1>3, <1>4, <1>5, <1>6

\* A job that would disturb any other of its owner is the only one there, and has the
\* owner as it was agreed upon until it is midway.
LEMMA Alone ==
    ASSUME SourcesInv, NEW j \in jobs, j.owner \notin raced, j.owner \in Chats \/ j.kind = "delete"
    PROVE  /\ \A i \in jobs : i # j /\ i.owner = j.owner => FALSE
           /\ \A i \in jobs : i # j /\ {i.owner, j.owner} \subseteq Projects => FALSE
           /\ ~ Midway(j) => Agreed(j.owner)
<1>1. j.owner \in Projects \cup Chats
  BY JobFacts DEF Owners
<1>2. \A i \in jobs : i # j => ~ Disturbing(i, j)
  BY DEF SourcesInv, OverlapsOK
<1>3. \A i \in jobs : i # j => i.owner # j.owner /\ ~ ({i.owner, j.owner} \subseteq Projects)
  BY <1>1, <1>2, SourcesAssumption DEF Disturbing
<1> QED
  BY <1>1, <1>3 DEF SourcesInv, OwnersOK, Owners

\* The conversations keep the invariant.
LEMMA ChatsKeep ==
    ASSUME SourcesInv, NEW j \in jobs,
           ChatAttach(j) \/ ChatAttached(j) \/ ChatDetach(j) \/ ChatDelete(j)
    PROVE  SourcesInv'
<1>j. /\ j \in JobSet /\ j.owner \in Owners /\ JobOK(j) /\ j.owner \in Chats /\ j.owner \notin Projects
      /\ kept \in [Owners -> SUBSET Folders] /\ index \in [Owners -> (SUBSET Folders) \cup {NoEntry}]
      /\ wanted \in [Owners -> (SUBSET Folders) \cup {NoEntry}] /\ Projects \subseteq Owners
  BY JobFacts, SourcesAssumption DEF Owners, ChatAttach, ChatAttached, ChatDetach, ChatDelete
<1>f. j.kind \in {"attach", "detach"} => j.folder \in Folders
  BY <1>j DEF JobOK
<1>n. j.idx = NoEntry
  BY <1>j DEF JobOK, JobSet
<1>c. UNCHANGED <<index, kept, wanted, raced>> => Careful(j) /\ Untouched(j.owner)
  BY <1>j DEF Careful, Untouched
<1>h. \A k : Becomes(j, k) /\ k.kind = j.kind /\ k.step # "sent" =>
          /\ jobs' = (jobs \ {j}) \cup {k}
          /\ \/ holder' = holder /\ holder # j
             \/ holder' = k /\ holder \in {j, NoJob} /\ k.kind # "delete" /\ k.step # "sent"
  BY JobFacts DEF Becomes
<1>1. CASE ChatAttach(j)
  <2>1. j.kind = "attach" /\ j.step = "sent" /\ UNCHANGED <<index, kept, wanted, raced>> /\ ~ Midway(j)
    BY <1>1 DEF ChatAttach, Midway
  <2>2. CASE ~ Indexed(j.owner)
    BY <1>1, <1>c, <2>1, <2>2, JobEnds DEF ChatAttach
  <2>3. CASE Indexed(j.owner)
    <3>1. PICK k : k = [j EXCEPT !.step = "entered"] /\ Becomes(j, k)
      BY <1>1, <2>3 DEF ChatAttach
    <3>2. /\ k \in JobSet /\ k.kind = j.kind /\ k.owner = j.owner /\ k.folder = j.folder
          /\ k.idx = NoEntry /\ k.step = "entered"
      BY <1>j, <1>n, <3>1 DEF JobSet
    <3>3. JobOK(k)'
      BY <1>j, <1>f, <2>1, <3>2 DEF JobOK
    <3>4. j.owner \notin raced => Midway(k) /\ Progress(k)'
      BY <1>j, <2>1, <2>3, <3>2, Alone DEF Midway, Progress, Agreed, Served, Indexed
    <3> QED
      BY <1>c, <1>h, <2>1, <3>1, <3>2, <3>3, <3>4, JobGoesOn
  <2> QED
    BY <2>2, <2>3
<1>2. CASE ChatAttached(j)
  <2>1. /\ j.kind = "attach" /\ j.step = "done" /\ UNCHANGED <<kept, raced>> /\ Midway(j) /\ Ends(j)
        /\ index' = IF Indexed(j.owner) THEN With(j.owner, j.folder) ELSE index
        /\ wanted' = [wanted EXCEPT ![j.owner] = IF @ = NoEntry THEN @ ELSE @ \cup {j.folder}]
    BY <1>2 DEF ChatAttached, Midway
  <2>2. /\ index' \in [Owners -> (SUBSET Folders) \cup {NoEntry}]
        /\ index'[j.owner] = IF Indexed(j.owner) THEN index[j.owner] \cup {j.folder} ELSE index[j.owner]
        /\ \A o \in Owners : o # j.owner => index'[o] = index[o]
    BY <1>j, <1>f, <2>1 DEF With, Indexed
  <2>3. /\ wanted' \in [Owners -> (SUBSET Folders) \cup {NoEntry}]
        /\ wanted'[j.owner] = IF wanted[j.owner] = NoEntry THEN wanted[j.owner] ELSE wanted[j.owner] \cup {j.folder}
        /\ \A o \in Owners : o # j.owner => wanted'[o] = wanted[o]
    BY <1>j, <1>f, <2>1
  <2>4. Careful(j)
    BY <1>j, <2>1, <2>2, <2>3 DEF Careful
  <2>5. j.owner \notin raced => Agreed(j.owner)'
    <3> SUFFICES ASSUME j.owner \notin raced PROVE Agreed(j.owner)'
      OBVIOUS
    <3>1. Progress(j)
      BY <2>1, JobFacts
    <3>2. wanted[j.owner] # NoEntry /\ index[j.owner] = wanted[j.owner] /\ kept[j.owner] = wanted[j.owner] \cup {j.folder}
      BY <2>1, <3>1 DEF Progress
    <3>3. wanted[j.owner] \cup {j.folder} # NoEntry
      BY <1>j, <1>f, <2>1, <3>2, SourcesAssumption
    <3> QED
      BY <2>1, <2>2, <2>3, <3>2, <3>3 DEF Agreed, Served, Indexed
  <2> QED
    BY <2>1, <2>4, <2>5, JobEnds
<1>3. CASE ChatDetach(j)
  <2>1. j.kind = "detach" /\ j.step = "sent" /\ UNCHANGED <<kept, wanted, raced>> /\ ~ Midway(j)
    BY <1>3 DEF ChatDetach, Midway
  <2>2. CASE ~ Indexed(j.owner)
    BY <1>3, <1>c, <2>1, <2>2, JobEnds DEF ChatDetach
  <2>3. CASE Indexed(j.owner)
    <3>1. PICK k : k = [j EXCEPT !.step = "entered"] /\ Becomes(j, k)
      BY <1>3, <2>3 DEF ChatDetach
    <3>2. /\ k \in JobSet /\ k.kind = j.kind /\ k.owner = j.owner /\ k.folder = j.folder
          /\ k.idx = NoEntry /\ k.step = "entered"
      BY <1>j, <1>n, <3>1 DEF JobSet
    <3>3. /\ index' \in [Owners -> (SUBSET Folders) \cup {NoEntry}] /\ index'[j.owner] = index[j.owner] \ {j.folder}
          /\ \A o \in Owners : o # j.owner => index'[o] = index[o]
      BY <1>3, <1>j, <2>3 DEF ChatDetach, Without, Indexed
    <3>4. Careful(j)
      BY <1>j, <2>1, <3>3 DEF Careful
    <3>5. JobOK(k)'
      BY <1>j, <1>f, <2>1, <3>2 DEF JobOK
    <3>6. j.owner \notin raced => Midway(k) /\ Progress(k)'
      BY <1>j, <2>1, <2>3, <3>2, <3>3, Alone DEF Midway, Progress, Agreed, Served, Indexed
    <3> QED
      BY <1>h, <2>1, <3>1, <3>2, <3>4, <3>5, <3>6, JobGoesOn
  <2> QED
    BY <2>2, <2>3
<1>4. CASE ChatDelete(j)
  <2>1. PICK k : k = [j EXCEPT !.step = "unlisted"] /\ Becomes(j, k)
    BY <1>4 DEF ChatDelete
  <2>2. /\ k \in JobSet /\ k.kind = "delete" /\ j.kind = "delete" /\ k.owner = j.owner
        /\ k.idx = NoEntry /\ k.step = "unlisted"
    BY <1>4, <1>j, <1>n, <2>1 DEF JobSet, ChatDelete
  <2>3. /\ UNCHANGED <<kept, wanted, raced>> /\ index' \in [Owners -> (SUBSET Folders) \cup {NoEntry}]
        /\ index'[j.owner] = NoEntry /\ \A o \in Owners : o # j.owner => index'[o] = index[o]
    BY <1>4, <1>j DEF ChatDelete
  <2>4. Careful(j)
    BY <1>j, <2>3 DEF Careful
  <2>5. JobOK(k)'
    BY <2>2 DEF JobOK
  <2>6. Midway(k) /\ Progress(k)'
    BY <2>2, <2>3 DEF Midway, Progress
  <2> QED
    BY <1>h, <2>1, <2>2, <2>4, <2>5, <2>6, JobGoesOn
<1> QED
  BY <1>1, <1>2, <1>3, <1>4

\* The projects keep the invariant.
LEMMA ProjectsKeep ==
    ASSUME SourcesInv, NEW j \in jobs, ProjectEnter(j) \/ ProjectLeave(j) \/ ProjectDelete(j)
    PROVE  SourcesInv'
<1>j. /\ j \in JobSet /\ j.owner \in Owners /\ JobOK(j) /\ j.owner \in Projects /\ j.owner \notin Chats
      /\ kept \in [Owners -> SUBSET Folders] /\ index \in [Owners -> (SUBSET Folders) \cup {NoEntry}]
      /\ wanted \in [Owners -> (SUBSET Folders) \cup {NoEntry}] /\ Projects \subseteq Owners
  BY JobFacts, SourcesAssumption DEF Owners, ProjectEnter, ProjectLeave, ProjectDelete
<1>f. j.kind \in {"attach", "detach"} => j.folder \in Folders
  BY <1>j DEF JobOK
<1>c. UNCHANGED <<index, kept, wanted, raced>> => Careful(j) /\ Untouched(j.owner)
  BY <1>j DEF Careful, Untouched
\* Who has read the index beside j is the holder of the lock, or deletes a project.
<1>i. ASSUME NEW i \in jobs, i # j, i.idx # NoEntry, j.kind = "delete" \/ holder = j
      PROVE  j.owner \in raced
  <2>1. /\ JobOK(i) /\ i.owner \in Projects \cup Chats /\ i.kind \in {"attach", "detach", "delete"}
    BY JobFacts DEF Owners, JobSet
  <2>2. i.owner \in Projects /\ (holder = i \/ i.kind = "delete")
    BY <1>i, <2>1 DEF JobOK
  <2>3. Disturbing(i, j)
    BY <1>i, <1>j, <2>2 DEF Disturbing
  <2> QED
    BY <1>i, <2>3 DEF SourcesInv, OverlapsOK
<1>p. /\ ProjectIndex \in [Projects -> (SUBSET Folders) \cup {NoEntry}]
      /\ ProjectIndex # NoEntry /\ \A p \in Projects : ProjectIndex[p] = index[p]
  <2>1. ProjectIndex \in [Projects -> (SUBSET Folders) \cup {NoEntry}] /\ \A p \in Projects : ProjectIndex[p] = index[p]
    BY <1>j DEF ProjectIndex
  <2> QED
    BY <2>1, SourcesAssumption
<1>1. CASE ProjectEnter(j)
  <2>1. /\ j.kind \in {"attach", "detach"} /\ j.step = "sent" /\ UNCHANGED <<index, kept, wanted, raced>>
        /\ holder = NoJob /\ ~ Midway(j)
    BY <1>1 DEF ProjectEnter, Midway
  <2>2. CASE Fails(j)
    BY <1>1, <1>c, <2>1, <2>2, JobEnds DEF ProjectEnter
  <2>3. CASE ~ Fails(j)
    <3>1. PICK k : k = [j EXCEPT !.step = "entered", !.idx = ProjectIndex] /\ jobs' = (jobs \ {j}) \cup {k} /\ holder' = k
      BY <1>1, <2>3 DEF ProjectEnter
    <3>2. /\ k \in JobSet /\ k.kind = j.kind /\ k.owner = j.owner /\ k.folder = j.folder
          /\ k.idx = ProjectIndex /\ k.step = "entered"
      BY <1>j, <1>p, <3>1 DEF JobSet
    <3>3. index[j.owner] # NoEntry
      BY <2>3 DEF Fails, Indexed
    <3>4. JobOK(k)'
      BY <1>j, <1>f, <1>p, <2>1, <3>1, <3>2, <3>3 DEF JobOK
    <3>5. ASSUME NEW i \in jobs, i.owner = j.owner, j.owner \notin raced PROVE ~ Midway(i)
      <4>1. JobOK(i) /\ i # NoJob /\ i.kind \in {"attach", "detach", "delete"}
        BY JobFacts DEF JobSet
      <4>2. i # j => i.kind # "delete"
        BY <1>j, <3>5 DEF SourcesInv, OverlapsOK, Disturbing
      <4> QED
        BY <1>j, <2>1, <3>5, <4>1, <4>2 DEF JobOK, Midway
    <3>6. j.owner \notin raced => Agreed(j.owner)
      BY <1>j, <3>5 DEF SourcesInv, OwnersOK
    <3>7. j.owner \notin raced => Midway(k) /\ Progress(k)'
      BY <1>j, <2>1, <3>2, <3>3, <3>6 DEF Midway, Progress, Agreed, Served
    <3> QED
      BY <1>c, <1>j, <1>p, <2>1, <3>1, <3>2, <3>4, <3>7, JobGoesOn
  <2> QED
    BY <2>2, <2>3
<1>2. CASE ProjectLeave(j)
  <2> DEFINE Change(S) == IF j.kind = "attach" THEN S \cup {j.folder} ELSE S \ {j.folder}
  <2>1. /\ j.kind \in {"attach", "detach"} /\ j.step = "done" /\ UNCHANGED <<kept, raced>> /\ Midway(j) /\ Ends(j)
        /\ WriteIndex([j.idx EXCEPT ![j.owner] = Change(@)])
        /\ wanted' = [wanted EXCEPT ![j.owner] = IF @ = NoEntry THEN @ ELSE Change(@)]
    BY <1>2 DEF ProjectLeave, Midway
  <2>2. /\ holder = j /\ j.idx \in [Projects -> (SUBSET Folders) \cup {NoEntry}] /\ j.idx[j.owner] \in SUBSET Folders
    BY <1>j, <2>1 DEF JobOK
  <2>3. /\ index' \in [Owners -> (SUBSET Folders) \cup {NoEntry}] /\ index'[j.owner] = Change(j.idx[j.owner])
        /\ \A p \in Projects : p # j.owner => index'[p] = j.idx[p]
        /\ \A o \in Owners : o \notin Projects => index'[o] = index[o]
    BY <1>j, <1>f, <2>1, <2>2 DEF WriteIndex
  <2>4. /\ wanted' \in [Owners -> (SUBSET Folders) \cup {NoEntry}]
        /\ wanted'[j.owner] = IF wanted[j.owner] = NoEntry THEN wanted[j.owner] ELSE Change(wanted[j.owner])
        /\ \A o \in Owners : o # j.owner => wanted'[o] = wanted[o]
    BY <1>j, <1>f, <2>1
  <2> HIDE DEF Change
  <2>5. \A p \in Projects \ raced : j.idx[p] = index[p]
    BY <2>2, JobFacts, SourcesAssumption
  <2>6. Careful(j)
    <3>1. \A o \in Owners \ raced : o # j.owner => index'[o] = index[o]
      BY <2>3, <2>5
    <3>2. \A i \in jobs \ {j} : i.idx # NoEntry => j.owner \in raced
      BY <1>i, <2>2
    <3> QED
      BY <1>j, <2>1, <2>3, <2>4, <3>1, <3>2 DEF Careful
  <2>7. j.owner \notin raced => Agreed(j.owner)'
    <3> SUFFICES ASSUME j.owner \notin raced PROVE Agreed(j.owner)'
      OBVIOUS
    <3>1. Progress(j) /\ j.idx[j.owner] = index[j.owner]
      BY <1>j, <2>1, <2>5, JobFacts
    <3>2. wanted[j.owner] # NoEntry /\ index[j.owner] = wanted[j.owner] /\ kept[j.owner] = Change(wanted[j.owner])
      BY <1>j, <2>1, <3>1 DEF Progress, Change
    <3>3. Change(wanted[j.owner]) \in SUBSET Folders
      BY <1>j, <1>f, <2>1, <3>2 DEF Change
    <3>4. Change(wanted[j.owner]) # NoEntry
      BY <3>3, SourcesAssumption
    <3> QED
      BY <2>1, <2>3, <2>4, <3>1, <3>2, <3>4 DEF Agreed, Served
  <2> QED
    BY <2>1, <2>6, <2>7, JobEnds
<1>3. CASE ProjectDelete(j)
  <2>1. j.kind = "delete" /\ UNCHANGED <<kept, wanted, raced>> /\ holder # j
    BY <1>3, JobFacts DEF ProjectDelete
  <2>2. CASE j.step = "sent"
    <3>1. PICK k : k = [j EXCEPT !.step = "read", !.idx = ProjectIndex] /\ Becomes(j, k)
      BY <1>3, <2>2 DEF ProjectDelete
    <3>2. /\ k \in JobSet /\ k.kind = j.kind /\ k.owner = j.owner /\ k.idx = ProjectIndex /\ k.step = "read"
      BY <1>j, <1>p, <3>1 DEF JobSet
    <3>3. index' = index /\ jobs' = (jobs \ {j}) \cup {k} /\ holder' = holder
      BY <1>3, <2>1, <2>2, <3>1 DEF ProjectDelete, Becomes
    <3>4. JobOK(k)'
      BY <1>j, <1>p, <2>1, <3>2 DEF JobOK
    <3>5. ~ Midway(k) /\ ~ Midway(j)
      BY <2>2, <3>2 DEF Midway
    <3> QED
      BY <1>c, <1>j, <1>p, <2>1, <3>2, <3>3, <3>4, <3>5, JobGoesOn
  <2>3. CASE j.step = "read"
    <3>1. PICK k : k = [j EXCEPT !.step = "unlisted", !.idx = NoEntry] /\ Becomes(j, k)
      BY <1>3, <2>3 DEF ProjectDelete
    <3>2. /\ k \in JobSet /\ k.kind = j.kind /\ k.owner = j.owner /\ k.idx = NoEntry /\ k.step = "unlisted"
      BY <1>j, <3>1 DEF JobSet
    <3>3. j.idx \in [Projects -> (SUBSET Folders) \cup {NoEntry}]
      BY <1>j, <2>1, <2>3 DEF JobOK
    <3>4. /\ index' \in [Owners -> (SUBSET Folders) \cup {NoEntry}] /\ index'[j.owner] = NoEntry
          /\ \A p \in Projects : p # j.owner => index'[p] = j.idx[p]
          /\ \A o \in Owners : o \notin Projects => index'[o] = index[o]
      BY <1>3, <1>j, <2>3, <3>3 DEF ProjectDelete, WriteIndex
    <3>5. Careful(j)
      <4>1. \A p \in Projects \ raced : j.idx[p] = index[p]
        BY <3>3, JobFacts, SourcesAssumption
      <4>2. \A o \in Owners \ raced : o # j.owner => index'[o] = index[o]
        BY <3>4, <4>1
      <4>3. \A i \in jobs \ {j} : i.idx # NoEntry => j.owner \in raced
        BY <1>i, <2>1
      <4> QED
        BY <1>j, <2>1, <3>4, <4>2, <4>3 DEF Careful
    <3>6. jobs' = (jobs \ {j}) \cup {k} /\ holder' = holder
      BY <2>1, <3>1 DEF Becomes
    <3>7. JobOK(k)'
      BY <2>1, <3>2 DEF JobOK
    <3>8. Midway(k) /\ Progress(k)'
      BY <2>1, <3>2, <3>4 DEF Midway, Progress
    <3> QED
      BY <2>1, <3>2, <3>5, <3>6, <3>7, <3>8, JobGoesOn
  <2> QED
    BY <1>3, <2>2, <2>3 DEF ProjectDelete
<1> QED
  BY <1>1, <1>2, <1>3

\* A request that comes in has done nothing yet, and what it overlaps is noticed.
LEMMA AskKeeps ==
    ASSUME SourcesInv, NEW o \in Owners,
           \/ \E f \in Folders : AskFor("attach", o, f) \/ AskFor("detach", o, f)
           \/ AskFor("delete", o, NoEntry)
    PROVE  SourcesInv'
<1>1. PICK kind \in {"attach", "detach", "delete"}, f \in Folders \cup {NoEntry} :
          AskFor(kind, o, f) /\ (kind # "delete" => f \in Folders)
  OBVIOUS
<1> DEFINE k == Job(kind, o, f)
<1>2. k \in JobSet /\ k.kind = kind /\ k.owner = o /\ k.folder = f /\ k.step = "sent" /\ k.idx = NoEntry
  BY DEF Job, JobSet
<1>3. /\ jobs' = jobs \cup {k} /\ UNCHANGED <<index, kept, holder, wanted>>
      /\ raced' = IF Overlapping(k) = {} THEN raced ELSE raced \cup {o} \cup {i.owner : i \in Overlapping(k)}
  BY <1>1 DEF AskFor
<1> HIDE DEF k
<1>4. SourcesTypeOK' /\ raced \subseteq raced'
  <2>1. \A i \in jobs : i.owner \in Owners
    BY JobFacts
  <2> QED
    BY <1>2, <1>3, <2>1 DEF SourcesInv, SourcesTypeOK, Overlapping
<1>5. \A i \in jobs' : JobOK(i)'
  BY <1>1, <1>2, <1>3 DEF SourcesInv, JobOK
<1>6. OverlapsOK'
  <2>1. ASSUME NEW i \in jobs, Disturbing(i, k) \/ Disturbing(k, i) PROVE {i.owner, o} \subseteq raced'
    <3>1. i \in Overlapping(k)
      BY <2>1 DEF Overlapping, Disturbing
    <3> QED
      BY <1>3, <3>1
  <2> QED
    <3> SUFFICES ASSUME NEW a \in jobs', NEW b \in jobs', a # b, Disturbing(a, b)
                 PROVE  {a.owner, b.owner} \subseteq raced'
      BY DEF OverlapsOK, Disturbing
    <3>1. CASE a \in jobs /\ b \in jobs
      BY <1>4, <3>1 DEF SourcesInv, OverlapsOK
    <3>2. CASE a = k \/ b = k
      BY <1>2, <1>3, <2>1, <3>2
    <3> QED
      BY <1>3, <3>1, <3>2
<1>7. ReadOK'
  BY <1>2, <1>3, <1>4 DEF SourcesInv, ReadOK
<1>8. OwnersOK'
  <2>1. ~ Midway(k)
    BY <1>2 DEF Midway
  <2>2. \A p : Agreed(p)' = Agreed(p)
    BY <1>3 DEF Agreed
  <2>3. \A i : Progress(i)' = Progress(i)
    BY <1>3 DEF Progress
  <2> QED
    BY <1>3, <1>4, <2>1, <2>2, <2>3 DEF SourcesInv, OwnersOK
<1>9. holder' # NoJob => holder' \in jobs' /\ holder'.kind # "delete" /\ holder'.step # "sent"
  BY <1>3 DEF SourcesInv
<1> QED
  BY <1>4, <1>5, <1>6, <1>7, <1>8, <1>9 DEF SourcesInv

\* An owner that is created agrees with what it was created with.
LEMMA CreationKeeps ==
    ASSUME SourcesInv, (\E c \in Chats : CreateChat(c)) \/ \E p \in Projects : CreateProject(p)
    PROVE  SourcesInv'
<1> USE DEF Owners
<1>t. /\ kept \in [Owners -> SUBSET Folders] /\ index \in [Owners -> (SUBSET Folders) \cup {NoEntry}]
      /\ wanted \in [Owners -> (SUBSET Folders) \cup {NoEntry}] /\ raced \subseteq Owners
  BY DEF SourcesInv, SourcesTypeOK
<1>1. ASSUME NEW o \in Owners, Unknown(o), NEW S \in SUBSET Folders, NEW T \in SUBSET Folders,
             index' = [index EXCEPT ![o] = S], kept' = [kept EXCEPT ![o] = T], wanted' = [wanted EXCEPT ![o] = S],
             (T = S /\ raced' = raced) \/ raced' = raced \cup {o}, UNCHANGED <<jobs, holder>>,
             o \notin raced' => \A j \in jobs : j.idx # NoEntry => o \notin Projects
      PROVE  SourcesInv'
  <2>1. /\ index'[o] = S /\ kept'[o] = T /\ wanted'[o] = S /\ S # NoEntry
        /\ \A p \in Owners : p # o => index'[p] = index[p] /\ kept'[p] = kept[p] /\ wanted'[p] = wanted[p]
    BY <1>1, <1>t, SourcesAssumption
  <2>2. SourcesTypeOK' /\ \A j \in jobs' : JobOK(j)'
    BY <1>1, <1>t DEF SourcesInv, SourcesTypeOK, JobOK
  <2>3. OverlapsOK'
    BY <1>1 DEF SourcesInv, OverlapsOK
  <2>4. ReadOK'
    BY <1>1, <2>1 DEF SourcesInv, ReadOK
  <2>5. OwnersOK'
    <3>1. \A j \in jobs : j.owner # o
      BY <1>1 DEF Unknown
    <3>2. o \notin raced' => Agreed(o)'
      BY <1>1, <2>1 DEF Agreed, Served
    <3>3. \A p \in Owners \ {o} : Agreed(p) => Agreed(p)'
      BY <2>1 DEF Agreed
    <3>4. \A j \in jobs : Progress(j) => Progress(j)'
      BY <2>1, <3>1, JobFacts DEF Progress
    <3> QED
      BY <1>1, <3>1, <3>2, <3>3, <3>4 DEF SourcesInv, OwnersOK
  <2> QED
    BY <1>1, <2>2, <2>3, <2>4, <2>5 DEF SourcesInv
<1>2. ASSUME NEW c \in Chats, CreateChat(c) PROVE SourcesInv'
  <2>1. PICK S \in {{}} \cup {index[p] : p \in {q \in Projects : Indexed(q)}} : \E T \in SUBSET S :
            /\ index' = [index EXCEPT ![c] = S] /\ kept' = [kept EXCEPT ![c] = T]
            /\ wanted' = [wanted EXCEPT ![c] = S] /\ raced' = IF T = S THEN raced ELSE raced \cup {c}
    BY <1>2 DEF CreateChat
  <2>2. S \in SUBSET Folders /\ \A T \in SUBSET S : T \in SUBSET Folders
    BY <1>t, <2>1 DEF Indexed
  <2>3. Unknown(c) /\ UNCHANGED <<jobs, holder>> /\ c \notin Projects
    BY <1>2, SourcesAssumption DEF CreateChat
  <2> QED
    BY <1>1, <2>1, <2>2, <2>3
<1>3. ASSUME NEW p \in Projects, CreateProject(p) PROVE SourcesInv'
  <2>1. /\ holder = NoJob /\ Unknown(p) /\ UNCHANGED <<kept, jobs, holder>>
        /\ index' = [index EXCEPT ![p] = {}] /\ wanted' = [wanted EXCEPT ![p] = {}]
        /\ raced' = IF \E j \in jobs : j.kind = "delete" /\ j.owner \in Projects THEN raced \cup {p} ELSE raced
    BY <1>3 DEF CreateProject
  <2>2. kept' = [kept EXCEPT ![p] = {}]
    BY <1>t, <2>1 DEF Unknown
  <2>3. ASSUME NEW j \in jobs, j.idx # NoEntry PROVE j.kind = "delete" /\ j.owner \in Projects
    <3>1. JobOK(j) /\ j # NoJob /\ j.kind \in {"attach", "detach", "delete"} /\ j.owner \in Owners
      BY JobFacts DEF JobSet
    <3> QED
      BY <2>1, <2>3, <3>1 DEF JobOK
  <2> QED
    BY <1>1, <2>1, <2>2, <2>3
<1> QED
  BY <1>2, <1>3

\* Every step of the source folders keeps the invariant.
LEMMA SourcesStep == SourcesInv /\ SourcesNext => SourcesInv'
<1> SUFFICES ASSUME SourcesInv, SourcesNext PROVE SourcesInv'
  OBVIOUS
<1>1. CASE (\E c \in Chats : CreateChat(c)) \/ \E p \in Projects : CreateProject(p)
  BY <1>1, CreationKeeps
<1>2. CASE \E o \in {p \in Owners : Indexed(p)} :
               \/ \E f \in Folders : AskFor("attach", o, f) \/ AskFor("detach", o, f)
               \/ AskFor("delete", o, NoEntry)
  BY <1>2, AskKeeps
<1>3. CASE \E j \in jobs :
               \/ LoadToAttach(j) \/ CheckLimit(j) \/ Keep(j)
               \/ LoadToDetach(j) \/ Forget(j) \/ ForgetAll(j)
               \/ ChatAttach(j) \/ ChatAttached(j) \/ ChatDetach(j) \/ ChatDelete(j)
               \/ ProjectEnter(j) \/ ProjectLeave(j) \/ ProjectDelete(j)
  BY <1>3, ServiceKeeps, ChatsKeep, ProjectsKeep
<1> QED
  BY <1>1, <1>2, <1>3 DEF SourcesNext

\* A death takes the requests in flight; their owners are in raced from then on.
LEMMA SourcesAfterRestart == SourcesInv /\ SourcesRestart => SourcesInv'
<1> SUFFICES ASSUME SourcesInv, SourcesRestart PROVE SourcesInv'
  OBVIOUS
<1>1. /\ jobs' = {} /\ holder' = NoJob /\ UNCHANGED <<index, kept, wanted>>
      /\ raced' = raced \cup {j.owner : j \in jobs}
  BY DEF SourcesRestart
<1>2. raced' \subseteq Owners
  BY <1>1, JobFacts DEF SourcesInv, SourcesTypeOK
<1>3. \A o \in Owners \ raced' : Agreed(o)'
  BY <1>1 DEF SourcesInv, OwnersOK, Agreed
<1> QED
  BY <1>1, <1>2, <1>3 DEF SourcesInv, SourcesTypeOK, OverlapsOK, ReadOK, OwnersOK

\* At the start nothing is attached and no request is under way.
LEMMA SourcesAtFirst == SourcesInit => SourcesInv
<1> SUFFICES ASSUME SourcesInit PROVE SourcesInv
  OBVIOUS
<1>1. SourcesTypeOK /\ jobs = {} /\ holder = NoJob
  BY DEF SourcesInit, SourcesTypeOK
<1>2. OwnersOK
  BY SourcesAssumption DEF SourcesInit, OwnersOK, Agreed, Served
<1> QED
  BY <1>1, <1>2 DEF SourcesInv, OverlapsOK, ReadOK

(***************************************************************************)
(* The vault                                                               *)
(***************************************************************************)

\* What an operation is at: an operation on a row has one, and what is to be
\* projected is there.
Steps == {"idle", "sync", "ack", "mirror", "check", "record", "restate", "rerecord", "replace"}
OpSet ==
    [at : Steps, id : Ids \cup {NoId}, text : NoteTexts \cup {Blank, NoText}, path : Paths \cup {0},
     seen : NoteSet \cup {NoNote}]
OpOK ==
    /\ op \in OpSet
    /\ op.at \in {"mirror", "check", "record"} => op.text \in NoteTexts
    /\ op.at \in {"restate", "rerecord"} => op.text \in NoteTexts \cup {NoText}
    /\ op.at \in {"mirror", "check", "record", "restate", "rerecord"} => op.id \in Ids /\ row[op.id] # NoNote
    /\ op.at = "replace" => op.text \in NoteTexts
    /\ op.at \in {"ack", "check", "record", "rerecord"} => op.path \in Paths
    /\ op.at \in {"ack", "record", "rerecord"} => op.seen \in NoteSet

VaultInv ==
    /\ note \in [Paths -> NoteSet \cup {NoNote}] /\ snap \in [Paths -> NoteSet \cup {NoNote}]
    /\ row \in [Ids -> RowSet \cup {NoNote}]
    /\ todo \subseteq {p \in Paths : snap[p] # NoNote} /\ edits \in Nat /\ OpOK

\* The row of a note is the projection of what was acknowledged of it, and that of
\* an id without a note is superseded.
RowFits(k) ==
    IF manifest[k] = NoNote THEN row[k] = NoNote \/ row[k].status = "superseded"
    ELSE row[k] = Projection(manifest[k].note)

\* The chunks of a path are those of the one note that was acknowledged there; none
\* if there is no such note, and it may be any of several.
ChunksFit(p) ==
    p \in blurred \/ /\ Entries(p) = {} => chunks[p] = NoNote
                     /\ \A k \in Ids : Entries(p) = {k} => chunks[p] = Searchable(manifest[k].note)

\* Both are so but for the note and the files an operation is at.
Indexing == op.at \in {"ack", "record", "rerecord"}
Leaving(q) ==
    /\ At("ack") /\ Moved(snap[op.path].id, op.path)
    /\ q = manifest[snap[op.path].id].path
RowsOK == \A k \in Ids \ adrift : k # op.id => RowFits(k)
ChunksOK == \A p \in Paths : ~ (Indexing /\ p = op.path) /\ ~ Leaving(p) => ChunksFit(p)

\* What an operation has made of the row and the chunks so far.
MidwayOK ==
    /\ Indexing => chunks[op.path] = Searchable(op.seen)
    /\ At("ack") =>
          /\ op.path \in todo /\ snap[op.path].id \in Ids /\ op.seen.id = op.id /\ op.id \in Ids
          /\ row[op.id] = [text |-> op.seen.text,
                           status |-> IF snap[op.path].text = Blank THEN "superseded" ELSE op.seen.status]
          /\ \A q \in Paths : Leaving(q) /\ q \notin blurred =>
                 op.id = snap[op.path].id /\ chunks[q] = NoNote /\ Entries(q) = {op.id}
    /\ op.at \in {"mirror", "check", "record"} => row[op.id] = [text |-> op.text, status |-> "verified"]
    /\ op.at \in {"restate", "rerecord"} /\ op.id \notin adrift /\ manifest[op.id] # NoNote =>
          row[op.id].text = manifest[op.id].note.text
    /\ At("rerecord") => op.seen.id = op.id
    /\ op.at \in {"idle", "sync", "replace"} => op.id = NoId

\* What a reconciliation read, and what it has acknowledged of it; nobody came
\* after it if synced says so.
Passed(p) == snap[p].id \in Ids /\ manifest[snap[p].id] = [path |-> p, note |-> snap[p]]
SnapOK ==
    /\ op.at \notin {"sync", "ack"} => todo = {} /\ snap = [p \in Paths |-> NoNote]
    /\ \A p, q \in Paths : snap[p] # NoNote /\ snap[q] # NoNote /\ snap[p].id = snap[q].id /\ snap[p].id # NoId => p = q
    /\ synced = "yes" => op.at \in {"idle", "sync", "ack"}
    /\ synced = "yes" /\ op.at \in {"sync", "ack"} =>
          note = snap /\ \A p \in Paths \ todo : snap[p] # NoNote => Passed(p)

\* After it the manifest is about the notes there are, as they are.
SyncedOK ==
    synced = "yes" /\ At("idle") =>
        /\ \A p \in Paths : Present(p) => note[p].id \in Ids /\ manifest[note[p].id] = [path |-> p, note |-> note[p]]
        /\ \A k \in Ids : manifest[k] # NoNote => FilesOf(k) # {}

MindInv ==
    /\ manifest \in [Ids -> EntrySet \cup {NoNote}] /\ adrift \subseteq Ids
    /\ chunks \in [Paths -> NoteSet \cup {NoNote}]
    /\ RowsOK /\ ChunksOK /\ MidwayOK /\ SnapOK /\ SyncedOK

\* The first path of a set of paths is one of them.
LEMMA FirstIsIn == \A S \in SUBSET Paths : S # {} => First(S) \in S
<1> SUFFICES ASSUME NEW S \in SUBSET Paths, S # {} PROVE First(S) \in S
  OBVIOUS
<1>1. S \subseteq Nat
  BY VaultAssumption
<1> DEFINE Less == {s \in Nat \X Nat : s[1] < s[2]}
<1>2. IsWellFoundedOn(Less, Nat)
  BY NatLessThanWellFounded, Zenon DEF OpToRel
<1>l. \A x, y \in Nat : x < y => <<x, y>> \in Less
  OBVIOUS
<1> HIDE DEF Less
<1>3. PICK p \in S : \A q \in S : ~ (<<q, p>> \in Less)
  BY <1>1, <1>2, WFMin
<1>4. ASSUME NEW q \in S PROVE p <= q
  <2>1. ~ (q < p)
    BY <1>1, <1>3, <1>l
  <2> QED
    BY <1>1, <2>1
<1> QED
  BY <1>4 DEF First

\* What is found for a text is a file, if anything is.
LEMMA FoundIsThere == \A x : FindExisting(x) = 0 \/ (FindExisting(x) \in Paths /\ Present(FindExisting(x)))
<1> SUFFICES ASSUME NEW x PROVE FindExisting(x) = 0 \/ (FindExisting(x) \in Paths /\ Present(FindExisting(x)))
  OBVIOUS
<1> DEFINE writtenFor == {p \in Paths : Present(p) /\ note[p].key = x}
           saying == {p \in Paths : Present(p) /\ note[p].text = x}
<1>1. writtenFor # {} => First(writtenFor) \in writtenFor
  BY FirstIsIn
<1>2. saying # {} => First(saying) \in saying
  BY FirstIsIn
<1>3. FindExisting(x) = IF writtenFor # {} THEN First(writtenFor) ELSE IF saying # {} THEN First(saying) ELSE 0
  BY DEF FindExisting
<1>4. CASE writtenFor # {}
  BY <1>1, <1>3, <1>4
<1>5. CASE writtenFor = {} /\ saying # {}
  BY <1>2, <1>3, <1>5
<1>6. CASE writtenFor = {} /\ saying = {}
  BY <1>3, <1>6
<1> QED
  BY <1>4, <1>5, <1>6

\* A change of the user is of one or two files.
LEMMA UserKeepsVault ==
    ASSUME VaultInv, UserStep
    PROVE  VaultInv' /\ edits' # edits
<1> USE VaultAssumption DEF VaultInv
<1>1. /\ UNCHANGED <<row, op, snap, todo>> /\ edits' = edits + 1
  BY DEF UserStep, Overwrite, Rewrite, Retract, Unlink, Copy, Rename, Edit, EditCounts, mindVars
<1>2. note' \in [Paths -> NoteSet \cup {NoNote}]
  <2>1. ASSUME NEW p \in Paths, NEW n \in NoteSet \cup {NoNote}, Edit(p, n)
        PROVE  note' \in [Paths -> NoteSet \cup {NoNote}]
    BY <2>1 DEF Edit
  <2>2. ASSUME NEW p \in Paths, NEW x \in NoteTexts, Overwrite(p, x) PROVE note' \in [Paths -> NoteSet \cup {NoNote}]
    <3>1. Note(NoId, x, "verified", NoText) \in NoteSet
      BY DEF Note, NoteSet, StatusSet
    <3> QED
      BY <2>1, <2>2, <3>1 DEF Overwrite
  <2>3. ASSUME NEW p \in Paths, NEW x \in NoteTexts \cup {Blank}, Rewrite(p, x) PROVE note' \in [Paths -> NoteSet \cup {NoNote}]
    <3>1. note[p] \in NoteSet
      BY <2>3 DEF Rewrite, Present
    <3>2. [note[p] EXCEPT !.text = x] \in NoteSet
      BY <3>1 DEF NoteSet
    <3> QED
      BY <2>1, <2>3, <3>2 DEF Rewrite
  <2>4. ASSUME NEW p \in Paths, Retract(p) PROVE note' \in [Paths -> NoteSet \cup {NoNote}]
    <3>1. note[p] \in NoteSet
      BY <2>4 DEF Retract, Present
    <3>2. [note[p] EXCEPT !.status = "superseded"] \in NoteSet
      BY <3>1 DEF NoteSet, StatusSet
    <3> QED
      BY <2>1, <2>4, <3>2 DEF Retract
  <2>5. ASSUME NEW p \in Paths, Unlink(p) PROVE note' \in [Paths -> NoteSet \cup {NoNote}]
    BY <2>1, <2>5 DEF Unlink
  <2>6. ASSUME NEW p \in Paths, NEW q \in Paths, Copy(p, q) \/ Rename(p, q) PROVE note' \in [Paths -> NoteSet \cup {NoNote}]
    <3>1. note[p] \in NoteSet \cup {NoNote}
      OBVIOUS
    <3> QED
      BY <2>1, <2>6, <3>1 DEF Copy, Rename
  <2> QED
    BY <2>2, <2>3, <2>4, <2>5, <2>6 DEF UserStep
<1>3. OpOK'
  BY <1>1 DEF OpOK
<1> QED
  BY <1>1, <1>2, <1>3

\* The user keeps out of note p in this step, and what it says may not change.
Undisturbed(p) == edits' = edits /\ Present(p) /\ note[p].text # Blank /\ ~ (At("sync") /\ snap[p] # note[p])
Says(p) == note'[p] # NoNote /\ note'[p].text = note[p].text

\* What the brain writes on a note leaves its text, and keeps the types.
LEMMA OneNoteWritten ==
    ASSUME VaultInv, NEW p, NEW n \in NoteSet, note' = [note EXCEPT ![p] = n],
           p \in Paths /\ Undisturbed(p) => n.text = note[p].text
    PROVE  note' \in [Paths -> NoteSet \cup {NoNote}] /\ \A q \in Paths : Undisturbed(q) => Says(q)
<1>1. note \in [Paths -> NoteSet \cup {NoNote}] /\ n # NoNote
  BY VaultAssumption DEF VaultInv
<1>2. \A q \in Paths : note'[q] = IF q = p THEN n ELSE note[q]
  BY <1>1
<1> QED
  BY <1>1, <1>2 DEF Undisturbed, Says, Present

\* A step that writes no note changes none.
LEMMA NotesUntouched ==
    ASSUME VaultInv, note' = note
    PROVE  note' \in [Paths -> NoteSet \cup {NoNote}] /\ \A q \in Paths : Undisturbed(q) => Says(q)
  BY DEF VaultInv, Undisturbed, Says, Present

\* The brain keeps the types, and the texts of the user.
LEMMA BrainKeepsVault ==
    ASSUME VaultInv, BrainStep
    PROVE  VaultInv' /\ \A q \in Paths : Undisturbed(q) => Says(q)
<1>t. /\ note \in [Paths -> NoteSet \cup {NoNote}] /\ snap \in [Paths -> NoteSet \cup {NoNote}]
      /\ row \in [Ids -> RowSet \cup {NoNote}] /\ todo \subseteq Paths /\ edits \in Nat
      /\ \A p \in todo : snap[p] \in NoteSet
      /\ op.id \in Ids \cup {NoId} /\ op.path \in Paths \cup {0} /\ OpOK
  BY DEF VaultInv, OpOK, OpSet
<1>f. todo # {} => First(todo) \in todo
  BY <1>t, FirstIsIn
<1>o. ASSUME NEW at \in {"idle", "sync"} PROVE Op(at, NoId, NoText, 0).at = at
             /\ Op(at, NoId, NoText, 0) \in OpSet
  BY DEF Op, OpSet, Steps
\* An operation that comes to rest, or goes on with a reconciliation.
<1>r. ASSUME op' = Idle \/ op' = Op("sync", NoId, NoText, 0) PROVE OpOK'
  BY <1>o, <1>r DEF OpOK, Idle
<1>s. ASSUME StartSync PROVE OpOK' /\ UNCHANGED <<note, row, edits>> /\ snap' \in [Paths -> NoteSet \cup {NoNote}]
                              /\ todo' \subseteq {p \in Paths : snap'[p] # NoNote}
  BY <1>r, <1>s, <1>t DEF StartSync, mindVars, Present, VaultInv
<1>e. ASSUME EndSync PROVE OpOK' /\ snap' \in [Paths -> NoteSet \cup {NoNote}] /\ todo' \subseteq {p \in Paths : snap'[p] # NoNote}
  BY <1>e, <1>r DEF EndSync
<1>w. ASSUME NEW k \in Ids, NEW x \in NoteTexts, WriteRow(k, x)
      PROVE  VaultInv' /\ note' = note
  <2>1. [text |-> x, status |-> "verified"] \in RowSet
    BY DEF RowSet, StatusSet
  <2>2. row' \in [Ids -> RowSet \cup {NoNote}] /\ row'[k] # NoNote
    BY <1>t, <1>w, <2>1, VaultAssumption DEF WriteRow
  <2>3. OpOK'
    BY <1>w, <2>2, VaultAssumption DEF WriteRow, OpOK, Op, OpSet, Steps
  <2> QED
    BY <1>w, <2>2, <2>3 DEF WriteRow, VaultInv
<1>1. CASE Reconcile
  BY <1>1, <1>s, <1>t, NotesUntouched DEF Reconcile, VaultInv
<1>2. CASE NameNote
  <2>0. FreshIds \subseteq Ids
    BY DEF FreshIds
  <2>1. PICK k \in FreshIds :
            /\ note' = [note EXCEPT ![First(todo)] = [snap[First(todo)] EXCEPT !.id = k, !.status = "verified"]]
            /\ snap' = [snap EXCEPT ![First(todo)] = [snap[First(todo)] EXCEPT !.id = k, !.status = "verified"]]
    BY <1>2, Zenon DEF NameNote
  <2>2. At("sync") /\ todo # {} /\ UNCHANGED <<row, op, todo, edits>>
    BY <1>2 DEF NameNote, mindVars, pastVars
  <2> DEFINE p == First(todo)  n == [snap[p] EXCEPT !.id = k, !.status = "verified"]
  <2>3. p \in todo /\ p \in Paths /\ snap[p] \in NoteSet
    BY <1>f, <1>t, <2>2
  <2>4. n \in NoteSet /\ n.text = snap[p].text
    BY <2>0, <2>3 DEF NoteSet, StatusSet
  <2>5. Undisturbed(p) => n.text = note[p].text
    BY <2>2, <2>4 DEF Undisturbed
  <2>6. note' \in [Paths -> NoteSet \cup {NoNote}] /\ \A q \in Paths : Undisturbed(q) => Says(q)
    BY <2>1, <2>4, <2>5, OneNoteWritten
  <2>7. snap' \in [Paths -> NoteSet \cup {NoNote}] /\ \A q \in Paths : snap[q] # NoNote => snap'[q] # NoNote
    BY <1>t, <2>1, <2>3, <2>4, VaultAssumption
  <2>8. OpOK'
    BY <1>t, <2>2 DEF OpOK
  <2> QED
    BY <1>t, <2>2, <2>6, <2>7, <2>8 DEF VaultInv
<1>3. CASE PassOver
  <2>1. UNCHANGED <<note, row, op, snap, edits>> /\ todo' \subseteq todo
    BY <1>3 DEF PassOver, mindVars
  <2> QED
    BY <1>t, <2>1, NotesUntouched DEF VaultInv, OpOK
<1>4. CASE Project
  <2> DEFINE p == First(todo)  k == note[p].id
  <2>1. /\ todo # {} /\ Readable(p) /\ UNCHANGED <<note, snap, todo, edits>>
        /\ row' = [row EXCEPT ![note[p].id] =
                    [text |-> note[p].text, status |-> IF snap[p].text = Blank THEN "superseded" ELSE note[p].status]]
        /\ op' = [Op("ack", note[p].id, NoText, p) EXCEPT !.seen = note[p]]
    BY <1>4 DEF Project
  <2>2. p \in Paths /\ note[p] \in NoteSet /\ k \in Ids
    BY <1>f, <1>t, <2>1 DEF Readable, Present, NoteSet
  <2>3. [text |-> note[p].text, status |-> IF snap[p].text = Blank THEN "superseded" ELSE note[p].status] \in RowSet
    BY <2>2 DEF NoteSet, RowSet, StatusSet
  <2>4. row' \in [Ids -> RowSet \cup {NoNote}]
    BY <1>t, <2>1, <2>2, <2>3
  <2>5. OpOK'
    BY <2>1, <2>2 DEF OpOK, Op, OpSet, Steps, NoteSet
  <2> QED
    BY <1>t, <2>1, <2>4, <2>5, NotesUntouched DEF VaultInv
<1>5. CASE RecordProjected
  <2>1. UNCHANGED <<note, row, snap, edits>> /\ todo' \subseteq todo /\ op' = Op("sync", NoId, NoText, 0)
    BY <1>5 DEF RecordProjected
  <2> QED
    BY <1>r, <1>t, <2>1, NotesUntouched DEF VaultInv
<1>6. CASE AbortSync
  <2>1. UNCHANGED <<note, row, edits>> /\ EndSync
    BY <1>6 DEF AbortSync, Raise, mindVars
  <2> QED
    BY <1>e, <1>t, <2>1, NotesUntouched DEF VaultInv
<1>7. ASSUME NEW k \in Ids, Retire(k) PROVE VaultInv' /\ note' = note
  <2>1. /\ UNCHANGED <<note, op, snap, todo, edits>>
        /\ row' = IF row[k] = NoNote THEN row ELSE [row EXCEPT ![k].status = "superseded"]
    BY <1>7 DEF Retire
  <2>2. row[k] # NoNote => [row[k] EXCEPT !.status = "superseded"] \in RowSet
    BY <1>t DEF RowSet, StatusSet
  <2>3. row' \in [Ids -> RowSet \cup {NoNote}] /\ \A i \in Ids : row[i] # NoNote => row'[i] # NoNote
    BY <1>t, <2>1, <2>2, VaultAssumption
  <2>4. OpOK'
    BY <1>t, <2>1, <2>3 DEF OpOK
  <2> QED
    BY <1>t, <2>1, <2>3, <2>4 DEF VaultInv
<1>8. CASE Reconciled
  BY <1>8, <1>e, <1>t, NotesUntouched DEF Reconciled, mindVars, VaultInv
<1>9. ASSUME NEW x \in NoteTexts, Learn(x) PROVE VaultInv' /\ note' = note
  <2> DEFINE p == FindExisting(x)
  <2>1. CASE p # 0 /\ note[p].text = x /\ note[p].id # NoId
    <3>1. note[p].id \in Ids
      BY <1>t, <2>1, FoundIsThere DEF Present, NoteSet
    <3> QED
      BY <1>9, <1>w, <2>1, <3>1 DEF Learn
  <2>2. CASE ~ (p # 0 /\ note[p].text = x /\ note[p].id # NoId)
    BY <1>9, <1>w, <2>2 DEF Learn, FreshIds
  <2> QED
    BY <2>1, <2>2
<1>10. CASE Mirror
  <2>1. /\ At("mirror") /\ UNCHANGED <<row, snap, todo, edits>>
        /\ op.text \in NoteTexts /\ op.id \in Ids /\ row[op.id] \in RowSet
    BY <1>10, <1>t DEF Mirror, mindVars, OpOK, At
  <2> DEFINE p == IF FindExisting(op.text) # 0 THEN FindExisting(op.text) ELSE op.text
  <2>p. p \in Paths
    BY <2>1, FoundIsThere, VaultAssumption
  <2>2. /\ note' = IF Kept(p) THEN note
                   ELSE [note EXCEPT ![p] = Note(op.id, op.text, row[op.id].status, op.text)]
        /\ op' = [op EXCEPT !.at = "check", !.path = p]
    BY <1>10 DEF Mirror
  <2> HIDE DEF p
  <2>3. OpOK'
    <3>1. /\ op' \in OpSet
          /\ op'.at = "check" /\ op'.text = op.text /\ op'.id = op.id /\ op'.path = p
      BY <1>t, <2>2, <2>p DEF OpOK, OpSet, Steps
    <3> QED
      BY <2>1, <2>p, <3>1, VaultAssumption DEF OpOK
  <2>4. Note(op.id, op.text, row[op.id].status, op.text) \in NoteSet /\ Note(op.id, op.text, row[op.id].status, op.text).text = op.text
    BY <2>1 DEF Note, NoteSet, RowSet
  <2>5. ~ Kept(p) /\ Undisturbed(p) => op.text = note[p].text
    BY DEF Kept, Undisturbed
  <2>6. note' \in [Paths -> NoteSet \cup {NoNote}] /\ \A q \in Paths : Undisturbed(q) => Says(q)
    BY <2>2, <2>4, <2>5, OneNoteWritten, NotesUntouched
  <2> QED
    BY <1>t, <2>1, <2>3, <2>6 DEF VaultInv
<1>11. CASE Check
  <2>1. CASE op' = Idle /\ UNCHANGED <<note, row, snap, todo, edits>>
    BY <1>r, <1>t, <2>1, NotesUntouched DEF VaultInv
  <2>2. CASE StartSync
    BY <1>s, <1>t, <2>2, NotesUntouched DEF VaultInv
  <2>3. CASE /\ At("check") /\ Present(op.path) /\ op' = [op EXCEPT !.at = "record", !.seen = note[op.path]]
             /\ UNCHANGED <<note, row, snap, todo, edits>>
    <3>1. /\ op' \in OpSet
          /\ op'.at = "record" /\ op'.text = op.text /\ op'.id = op.id
          /\ op'.path = op.path /\ op.path \in Paths /\ op'.seen \in NoteSet
      BY <1>t, <2>3 DEF OpOK, OpSet, Steps, At, Present
    <3>2. OpOK'
      BY <1>t, <2>3, <3>1 DEF OpOK, At
    <3> QED
      BY <1>t, <2>3, <3>2, NotesUntouched DEF VaultInv
  <2> QED
    BY <1>11, <2>1, <2>2, <2>3 DEF Check, Raise, mindVars
<1>12. CASE Record
  <2>1. op' = Idle /\ UNCHANGED <<note, row, snap, todo, edits>>
    BY <1>12 DEF Record, Raise, mindVars
  <2> QED
    BY <1>r, <1>t, <2>1, NotesUntouched DEF VaultInv
<1>13. ASSUME NEW k \in Ids, NEW s \in StatusSet, NEW x \in NoteTexts \cup {NoText}, Correct(k, s, x)
       PROVE  VaultInv' /\ note' = note
  <2>1. /\ UNCHANGED <<note, snap, todo, edits>> /\ row[k] \in RowSet
        /\ row' = [row EXCEPT ![k].status = s] /\ op' = Op("restate", k, x, 0)
    BY <1>13, <1>t DEF Correct
  <2>2. [row[k] EXCEPT !.status = s] \in RowSet
    BY <2>1 DEF RowSet
  <2>3. row' \in [Ids -> RowSet \cup {NoNote}] /\ row'[k] # NoNote
    BY <1>t, <2>1, <2>2, VaultAssumption
  <2>4. OpOK'
    BY <2>1, <2>3 DEF OpOK, Op, OpSet, Steps
  <2> QED
    BY <1>t, <2>1, <2>3, <2>4 DEF VaultInv
<1>a. ASSUME At("restate") \/ At("rerecord"), op' = AfterStatus PROVE OpOK'
  <2>1. CASE op.text = NoText
    BY <1>a, <1>r, <2>1 DEF AfterStatus
  <2>2. CASE op.text # NoText
    <3>1. op.text \in NoteTexts /\ op' = Op("replace", NoId, op.text, 0)
      BY <1>a, <1>t, <2>2 DEF AfterStatus, OpOK, At
    <3> QED
      BY <3>1 DEF OpOK, Op, OpSet, Steps
  <2> QED
    BY <2>1, <2>2
<1>14. CASE Restate
  <2>1. At("restate") /\ UNCHANGED <<row, snap, todo, edits>> /\ op.id \in Ids /\ row[op.id] \in RowSet
    BY <1>14, <1>t DEF Restate, OpOK, At
  <2>2. CASE op' = AfterStatus /\ note' = note
    BY <1>a, <1>t, <2>1, <2>2, NotesUntouched DEF VaultInv
  <2>3. CASE FilesOf(op.id) # {}
    <3> DEFINE p == First(FilesOf(op.id))  n == [note[p] EXCEPT !.status = row[op.id].status]
    <3>1. note' = [note EXCEPT ![p] = n] /\ op' = [op EXCEPT !.at = "rerecord", !.path = p, !.seen = n]
      BY <1>14, <2>3 DEF Restate
    <3>2. p \in Paths /\ note[p] \in NoteSet
      <4>1. FilesOf(op.id) \in SUBSET Paths
        BY DEF FilesOf
      <4>2. p \in FilesOf(op.id)
        BY <2>3, <4>1, FirstIsIn
      <4> QED
        BY <1>t, <4>2 DEF FilesOf, Present
    <3>3. n \in NoteSet /\ n.text = note[p].text
      BY <2>1, <3>2 DEF NoteSet, RowSet
    <3>4. note' \in [Paths -> NoteSet \cup {NoNote}] /\ \A q \in Paths : Undisturbed(q) => Says(q)
      BY <3>1, <3>3, OneNoteWritten
    <3>5. OpOK'
      <4>1. /\ op' \in OpSet
            /\ op'.at = "rerecord" /\ op'.text = op.text /\ op'.id = op.id /\ op'.path = p /\ op'.seen = n
        BY <1>t, <3>1, <3>2, <3>3 DEF OpOK, OpSet, Steps
      <4> QED
        BY <1>t, <2>1, <3>2, <3>3, <4>1 DEF OpOK, At
    <3> QED
      BY <1>t, <2>1, <3>4, <3>5 DEF VaultInv
  <2> QED
    BY <1>14, <2>2, <2>3 DEF Restate
<1>15. CASE RecordStatus
  <2>1. At("rerecord") /\ op' = AfterStatus /\ UNCHANGED <<note, row, snap, todo, edits>>
    BY <1>15 DEF RecordStatus, Raise, mindVars
  <2> QED
    BY <1>a, <1>t, <2>1, NotesUntouched DEF VaultInv
<1>16. CASE Replace
  <2>1. PICK k \in Ids : WriteRow(k, op.text)
    BY <1>16 DEF Replace, FreshIds
  <2>2. op.text \in NoteTexts
    BY <1>16, <1>t DEF Replace, OpOK, At
  <2> QED
    BY <1>w, <2>1, <2>2, NotesUntouched
<1> QED
  BY <1>1, <1>2, <1>3, <1>4, <1>5, <1>6, <1>7, <1>8, <1>9, <1>10, <1>11, <1>12, <1>13, <1>14, <1>15, <1>16,
     NotesUntouched DEF BrainStep, SyncStep, StatusSet

\* A step or a restart of the vault keeps the types and, but for the user's own
\* edits, the texts.
LEMMA VaultStep ==
    ASSUME VaultInv, VaultNext \/ VaultRestart \/ UNCHANGED vaultVars
    PROVE  VaultInv' /\ \A q \in Paths : Undisturbed(q) => Says(q)
<1>1. CASE UserStep
  BY <1>1, UserKeepsVault DEF Undisturbed
<1>2. CASE BrainStep
  BY <1>2, BrainKeepsVault
<1>3. CASE VaultRestart
  <2>1. UNCHANGED <<note, row, edits>> /\ op' = Idle /\ snap' = [p \in Paths |-> NoNote] /\ todo' = {}
    BY <1>3 DEF VaultRestart
  <2>2. OpOK'
    BY <2>1 DEF OpOK, Idle, Op, OpSet, Steps
  <2> QED
    BY <2>1, <2>2, NotesUntouched DEF VaultInv
<1>4. CASE UNCHANGED vaultVars
  <2>1. UNCHANGED <<note, row, edits, op, snap, todo>>
    BY <1>4 DEF vaultVars, mindVars
  <2> QED
    BY <2>1, NotesUntouched DEF VaultInv, OpOK
<1> QED
  BY <1>1, <1>2, <1>3, <1>4 DEF VaultNext

\* At the start no operation of the brain is under way.
LEMMA VaultAtFirst == VaultInit => VaultInv
<1> SUFFICES ASSUME VaultInit PROVE VaultInv
  OBVIOUS
<1>1. OpOK
  BY DEF VaultInit, OpOK, Idle, Op, OpSet, Steps
<1> QED
  BY <1>1 DEF VaultInit, VaultInv
\* All rows and chunks fit, as they do while no operation is on one of them.
AllFit == (\A k \in Ids \ adrift : RowFits(k)) /\ \A p \in Paths : ChunksFit(p)

\* What the invariants say of the types.
LEMMA MindFacts ==
    ASSUME VaultInv, MindInv
    PROVE  /\ \A p \in Paths : /\ note[p] # NoNote => note[p] \in NoteSet
                               /\ snap[p] # NoNote => snap[p] \in NoteSet
           /\ \A k \in Ids : /\ row[k] # NoNote => row[k] \in RowSet
                             /\ manifest[k] # NoNote => manifest[k] \in EntrySet
           /\ \A p \in todo : p \in Paths /\ snap[p] \in NoteSet
           /\ todo # {} => First(todo) \in todo
           /\ NoId \notin Ids /\ op \in OpSet
           /\ op.at \in {"mirror", "check", "record", "restate", "rerecord", "ack"} => op.id \in Ids
           /\ Indexing => op.path \in Paths /\ op.seen \in NoteSet
<1>1. todo \subseteq Paths
  BY DEF VaultInv
<1>2. todo # {} => First(todo) \in todo
  BY <1>1, FirstIsIn
<1> QED
  BY <1>2, VaultAssumption DEF VaultInv, MindInv, OpOK, MidwayOK, At, Indexing

\* An operation at rest has no row and no file of its own.
LEMMA FitAtRest ==
    ASSUME VaultInv, MindInv, op.at \in {"idle", "sync", "replace"}
    PROVE  op.id = NoId /\ AllFit
<1>1. op.id = NoId /\ NoId \notin Ids
  BY MindFacts DEF MindInv, MidwayOK
<1>2. ~ Indexing /\ \A q : ~ Leaving(q)
  BY DEF Indexing, Leaving, At
<1> QED
  BY <1>1, <1>2 DEF MindInv, RowsOK, ChunksOK, AllFit

\* At rest the invariant is no more than that.
LEMMA RestIsOK ==
    ASSUME AllFit', op'.at \in {"idle", "sync", "replace"}, op'.id = NoId
    PROVE  RowsOK' /\ ChunksOK' /\ MidwayOK'
<1>1. ~ Indexing' /\ op'.at \notin {"mirror", "check", "restate"} /\ ~ At("ack")' /\ ~ At("rerecord")'
  BY DEF Indexing, At
<1> QED
  BY <1>1 DEF AllFit, RowsOK, ChunksOK, MidwayOK

\* An operation that gives up before it has indexed anything leaves its row adrift.
LEMMA GivenUpFits ==
    ASSUME VaultInv, MindInv, ~ Indexing, UNCHANGED mindVars,
           Unacknowledged \subseteq adrift', blurred \subseteq blurred'
    PROVE  AllFit'
<1>1. UNCHANGED <<row, manifest, chunks>>
  BY DEF mindVars
<1>2. adrift \subseteq adrift' /\ (op.id \in Ids => op.id \in adrift')
  BY DEF Unacknowledged
<1>3. \A k \in Ids \ adrift' : RowFits(k)'
  BY <1>1, <1>2 DEF MindInv, RowsOK, RowFits, Projection
<1>4. \A p \in Paths : ChunksFit(p)
  BY DEF MindInv, ChunksOK, Indexing, Leaving, At
<1>5. \A p \in Paths : ChunksFit(p)'
  BY <1>1, <1>4 DEF ChunksFit, Entries, Searchable
<1> QED
  BY <1>3, <1>5 DEF AllFit

\* What is acknowledged is the row and the chunks of the file, or marked.
LEMMA AcknowledgedFits ==
    ASSUME VaultInv, MindInv, Indexing, Readable(op.path), Acknowledge(op.path), UNCHANGED <<row, chunks>>
    PROVE  /\ manifest' \in [Ids -> EntrySet \cup {NoNote}] /\ adrift' \subseteq Ids /\ AllFit'
           /\ manifest' = [manifest EXCEPT ![note[op.path].id] = [path |-> op.path, note |-> note[op.path]]]
<1> DEFINE p == op.path  n == note[p]  k == n.id
<1>t. p \in Paths /\ n \in NoteSet /\ k \in Ids /\ op.id \in Ids /\ op.seen \in NoteSet
  BY MindFacts DEF Readable, Present, NoteSet, Indexing
<1>1. /\ manifest' = [manifest EXCEPT ![k] = [path |-> p, note |-> n]]
      /\ adrift' = IF ~AsExpected(p) THEN Unacknowledged \cup {k}
                   ELSE IF At("rerecord") THEN adrift ELSE adrift \ {k}
      /\ blurred' = blurred \cup (IF n = op.seen THEN {} ELSE {p})
                        \cup (IF At("ack") /\ op.id = k /\ snap[p].id = k THEN {}
                              ELSE Elsewhere({op.id, k}, p))
  BY DEF Acknowledge
<1>2. [path |-> p, note |-> n] \in EntrySet /\ [path |-> p, note |-> n] # NoNote
  BY <1>t, VaultAssumption DEF EntrySet
<1>3. /\ manifest' \in [Ids -> EntrySet \cup {NoNote}] /\ manifest'[k] = [path |-> p, note |-> n]
      /\ \A j \in Ids \ {k} : manifest'[j] = manifest[j]
  BY <1>1, <1>2, <1>t DEF MindInv
<1>4. adrift' \subseteq Ids
  BY <1>1, <1>t DEF Unacknowledged, MindInv
<1>5. ASSUME AsExpected(p) PROVE n = op.seen /\ k = op.id /\ (k \notin adrift' => row[k] = Projection(n))
  <2>0. n = op.seen
    BY <1>5, Zenon DEF AsExpected
  <2>1. CASE At("ack")
    <3>1. n = snap[p]
      BY <1>5, <2>1 DEF AsExpected, At
    <3> QED
      BY <2>0, <2>1, <3>1 DEF MindInv, MidwayOK, Projection
  <2>2. CASE At("record")
    <3>1. n = Note(op.id, op.text, "verified", op.text)
      BY <1>5, <2>2 DEF AsExpected, At
    <3>2. row[op.id] = [text |-> op.text, status |-> "verified"] /\ op.text # Blank
      BY <2>2, VaultAssumption DEF MindInv, MidwayOK, VaultInv, OpOK, At
    <3> QED
      BY <2>0, <3>1, <3>2 DEF Note, Projection
  <2>3. CASE At("rerecord")
    <3>1. /\ manifest[k] # NoNote /\ n.text # Blank
          /\ n = [manifest[k].note EXCEPT !.status = row[k].status]
      BY <1>5, <2>3 DEF AsExpected, At
    <3>2. k = op.id /\ adrift' = adrift
      BY <1>1, <1>5, <2>0, <2>3 DEF MindInv, MidwayOK
    <3>3. row[k] \in RowSet /\ manifest[k].note \in NoteSet
      BY <1>t, <2>3, <3>1, <3>2, MindFacts DEF VaultInv, OpOK, At, EntrySet
    <3>4. n.text = manifest[k].note.text /\ n.status = row[k].status
      BY <3>1, <3>3 DEF NoteSet
    <3>5. k \notin adrift => row[k].text = manifest[k].note.text
      BY <2>3, <3>1, <3>2 DEF MindInv, MidwayOK, At
    <3>6. k \notin adrift => row[k] = Projection(n)
      BY <3>1, <3>3, <3>4, <3>5 DEF RowSet, Projection
    <3> QED
      BY <2>0, <3>2, <3>6
  <2> QED
    BY <2>1, <2>2, <2>3 DEF Indexing, At
<1>6. \A j \in Ids \ adrift' : RowFits(j)'
  <2> SUFFICES ASSUME NEW j \in Ids \ adrift' PROVE RowFits(j)'
    OBVIOUS
  <2>1. CASE j = k
    <3>1. AsExpected(p)
      BY <1>1, <2>1
    <3>2. row'[k] = Projection(n) /\ manifest'[k].note = n /\ manifest'[k] # NoNote
      BY <1>2, <1>3, <1>5, <2>1, <3>1
    <3> QED
      BY <2>1, <3>2 DEF RowFits, Projection
  <2>2. CASE j # k
    <3>1. j # op.id /\ j \notin adrift
      BY <1>1, <1>5, <1>t, <2>2 DEF Unacknowledged
    <3>2. RowFits(j) /\ manifest'[j] = manifest[j]
      BY <1>3, <2>2, <3>1 DEF MindInv, RowsOK
    <3> QED
      BY <3>2 DEF RowFits, Projection
  <2> QED
    BY <2>1, <2>2
<1>7. \A q \in Paths : ChunksFit(q)'
  <2> SUFFICES ASSUME NEW q \in Paths, q \notin blurred' PROVE ChunksFit(q)'
    BY DEF ChunksFit
  <2>1. q \notin blurred
    BY <1>1
  <2>2. CASE q = p
    <3>1. n = op.seen
      BY <1>1, <2>2
    <3>2. chunks'[q] = Searchable(n)
      BY <2>2, <3>1 DEF MindInv, MidwayOK
    <3>3. k \in Entries(q)' /\ manifest'[k].note = n
      BY <1>2, <1>3, <1>t, <2>2 DEF Entries
    <3> QED
      BY <3>2, <3>3 DEF ChunksFit, Searchable
  <2>3. CASE q # p /\ manifest[k] # NoNote /\ manifest[k].path = q
    <3>1. Moved(k, p) /\ q \in Elsewhere({op.id, k}, p)
      BY <1>t, <2>3 DEF Moved, Elsewhere
    <3>2. At("ack") /\ op.id = k /\ snap[p].id = k
      BY <1>1, <3>1
    <3>3. Leaving(q)
      BY <2>3, <3>1, <3>2 DEF Leaving
    <3>4. chunks[q] = NoNote /\ Entries(q) = {k}
      BY <2>1, <3>2, <3>3 DEF MindInv, MidwayOK
    <3>5. Entries(q)' = {}
      BY <1>3, <2>3, <3>4 DEF Entries
    <3> QED
      BY <3>4, <3>5 DEF ChunksFit
  <2>4. CASE q # p /\ ~ (manifest[k] # NoNote /\ manifest[k].path = q)
    <3>1. Entries(q)' = Entries(q) /\ \A j \in Entries(q) : manifest'[j] = manifest[j]
      BY <1>3, <2>4 DEF Entries
    <3>2. ~ Leaving(q)
      <4> SUFFICES ASSUME Leaving(q) PROVE FALSE
        OBVIOUS
      <4>1. At("ack") /\ Moved(snap[p].id, p) /\ q = manifest[snap[p].id].path
        BY DEF Leaving
      <4>2. op.id = snap[p].id
        BY <2>1, <4>1 DEF MindInv, MidwayOK
      <4>3. op.id # k
        BY <2>4, <4>1, <4>2 DEF Moved
      <4>4. q \in Elsewhere({op.id, k}, p)
        BY <1>t, <4>1, <4>2 DEF Elsewhere
      <4> QED
        BY <1>1, <4>3, <4>4
    <3>3. ChunksFit(q)
      BY <2>4, <3>2 DEF MindInv, ChunksOK
    <3>4. \A j \in Ids : Entries(q)' = {j} => chunks'[q] = Searchable(manifest'[j].note)
      BY <2>1, <3>1, <3>3 DEF ChunksFit
    <3> QED
      BY <2>1, <3>1, <3>3, <3>4 DEF ChunksFit, Searchable
  <2> QED
    BY <2>2, <2>3, <2>4
<1> QED
  BY <1>1, <1>3, <1>4, <1>6, <1>7 DEF AllFit

\* An operation that raises where it should acknowledge has marked what it did.
LEMMA RaisedFits ==
    ASSUME VaultInv, MindInv, Indexing, Raise(op.path)
    PROVE  AllFit' /\ adrift' \subseteq Ids
<1>1. /\ op.id \in Ids /\ op.path \in Paths /\ UNCHANGED <<row, manifest, chunks>>
      /\ adrift' = adrift \cup {op.id} /\ blurred' = blurred \cup {op.path} \cup Elsewhere({op.id}, op.path)
  BY MindFacts DEF Raise, mindVars, Unacknowledged, Indexing
<1>2. \A k \in Ids \ adrift' : RowFits(k)'
  BY <1>1 DEF MindInv, RowsOK, RowFits, Projection
<1>3. ASSUME NEW q \in Paths, q \notin blurred' PROVE ChunksFit(q)'
  <2>1. ~ Leaving(q)
    <3> SUFFICES ASSUME Leaving(q) PROVE FALSE
      OBVIOUS
    <3>1. op.id = snap[op.path].id /\ Moved(op.id, op.path) /\ q = manifest[op.id].path
      BY <1>1, <1>3 DEF MindInv, MidwayOK, Leaving
    <3> QED
      BY <1>1, <1>3, <3>1 DEF Elsewhere
  <2>2. ChunksFit(q) /\ q \notin blurred
    BY <1>1, <1>3, <2>1 DEF MindInv, ChunksOK
  <2> QED
    BY <1>1, <2>2 DEF ChunksFit, Entries, Searchable
<1>4. \A q \in Paths : ChunksFit(q)'
  BY <1>3 DEF ChunksFit
<1> QED
  BY <1>1, <1>2, <1>4 DEF AllFit, MindInv

\* An edit of the user changes nothing but a file, and is noticed by synced.
LEMMA UserKeepsMind ==
    ASSUME VaultInv, MindInv, UserStep
    PROVE  MindInv'
<1>1. UNCHANGED <<row, manifest, chunks, op, snap, todo, adrift, blurred>> /\ synced' = "no"
  BY DEF UserStep, Overwrite, Rewrite, Retract, Unlink, Copy, Rename, Edit, EditCounts, mindVars
<1>2. RowsOK'
  BY <1>1 DEF MindInv, RowsOK, RowFits, Projection
<1>3. ChunksOK'
  BY <1>1 DEF MindInv, ChunksOK, ChunksFit, Entries, Searchable, Indexing, Leaving, At, Moved
<1>4. MidwayOK'
  BY <1>1 DEF MindInv, MidwayOK, Entries, Searchable, Indexing, Leaving, At, Moved
<1>5. SnapOK' /\ SyncedOK'
  BY <1>1 DEF MindInv, SnapOK, SyncedOK
<1> QED
  BY <1>1, <1>2, <1>3, <1>4, <1>5 DEF MindInv

\* The files are read, unless two are of one id.
LEMMA StartKeepsMind ==
    ASSUME VaultInv, MindInv, StartSync, op.at \in {"idle", "check"}, adrift' = Unacknowledged
    PROVE  MindInv'
<1>1. UNCHANGED <<note, row, manifest, chunks, blurred>> /\ UNCHANGED mindVars
  BY DEF StartSync, mindVars
<1>2. AllFit'
  BY <1>1, GivenUpFits DEF Indexing
<1>3. op'.at \in {"idle", "sync"} /\ op'.id = NoId
  BY DEF StartSync, Idle, Op
<1>4. RowsOK' /\ ChunksOK' /\ MidwayOK'
  BY <1>2, <1>3, RestIsOK
<1>5. adrift' \subseteq Ids
  BY DEF MindInv, Unacknowledged
<1>6. CASE Twice
  <2>1. op' = Idle /\ UNCHANGED <<snap, todo, synced>>
    BY <1>6 DEF StartSync
  <2>2. At("idle")' /\ op'.at = "idle"
    BY <2>1 DEF Idle, Op, At
  <2>3. SnapOK'
    BY <1>1, <2>1, <2>2 DEF MindInv, SnapOK
  <2>4. SyncedOK'
    <3>1. synced' = "yes" => At("idle")
      BY <2>1 DEF MindInv, SnapOK, At
    <3> QED
      BY <1>1, <2>1, <3>1 DEF MindInv, SyncedOK, Present, FilesOf
  <2> QED
    BY <1>1, <1>4, <1>5, <2>3, <2>4 DEF MindInv
<1>7. CASE ~ Twice
  <2>1. op'.at = "sync" /\ snap' = note /\ todo' = {p \in Paths : Present(p)}
    BY <1>7 DEF StartSync, Op
  <2>2. \A p, q \in Paths : snap'[p] # NoNote /\ snap'[q] # NoNote /\ snap'[p].id = snap'[q].id /\ snap'[p].id # NoId => p = q
    BY <1>7, <2>1 DEF Twice, Present
  <2>3. \A p \in Paths \ todo' : snap'[p] = NoNote
    BY <2>1 DEF Present
  <2>4. SnapOK'
    BY <1>1, <2>1, <2>2, <2>3 DEF SnapOK
  <2>5. SyncedOK'
    BY <2>1 DEF SyncedOK, At
  <2> QED
    BY <1>1, <1>4, <1>5, <2>4, <2>5 DEF MindInv
<1> QED
  BY <1>6, <1>7

\* An operation that is over after the last reconciliation was disturbed.
LEMMA EndKeepsMind ==
    ASSUME MindInv, AllFit', adrift' \subseteq Ids, synced' # "yes",
           manifest' \in [Ids -> EntrySet \cup {NoNote}], chunks' \in [Paths -> NoteSet \cup {NoNote}],
           op'.at \in {"idle", "replace"}, op'.id = NoId, todo' = {}, snap' = [p \in Paths |-> NoNote]
    PROVE  MindInv'
<1>1. RowsOK' /\ ChunksOK' /\ MidwayOK'
  BY RestIsOK
<1>2. SnapOK' /\ SyncedOK'
  BY DEF SnapOK, SyncedOK
<1> QED
  BY <1>1, <1>2 DEF MindInv

\* The first steps of a reconciliation for a file: a name, or nothing to do.
LEMMA NamingKeepsMind ==
    ASSUME VaultInv, MindInv, NameNote
    PROVE  MindInv'
<1>1. PICK k \in FreshIds :
          /\ note' = [note EXCEPT ![First(todo)] = [snap[First(todo)] EXCEPT !.id = k, !.status = "verified"]]
          /\ snap' = [snap EXCEPT ![First(todo)] = [snap[First(todo)] EXCEPT !.id = k, !.status = "verified"]]
  BY Zenon DEF NameNote
<1> DEFINE p == First(todo)  n == [snap[p] EXCEPT !.id = k, !.status = "verified"]
<1>2. At("sync") /\ todo # {} /\ UNCHANGED <<row, manifest, chunks, op, todo, synced, adrift, blurred>> /\ UNCHANGED mindVars
  BY DEF NameNote, mindVars, pastVars
<1>3. p \in todo /\ p \in Paths /\ snap[p] \in NoteSet /\ k \in Ids
  BY <1>2, MindFacts DEF FreshIds
<1>4. n.id = k /\ n \in NoteSet
  BY <1>3 DEF NoteSet, StatusSet
<1>5. \A q \in Paths : snap[q] # NoNote => snap[q].id # k
  BY DEF FreshIds
<1>6. /\ snap'[p] = n /\ note'[p] = n
      /\ \A q \in Paths \ {p} : snap'[q] = snap[q] /\ note'[q] = note[q]
  BY <1>1, <1>3 DEF VaultInv
<1>7. RowsOK' /\ ChunksOK' /\ MidwayOK'
  <2>1. AllFit'
    BY <1>2, FitAtRest DEF At, AllFit, RowFits, ChunksFit, Entries, Projection, Searchable
  <2> QED
    BY <1>2, <2>1, FitAtRest, RestIsOK DEF At
<1>8. SnapOK'
  <2>1. \A q, r \in Paths : snap'[q] # NoNote /\ snap'[r] # NoNote /\ snap'[q].id = snap'[r].id /\ snap'[q].id # NoId => q = r
    <3> SUFFICES ASSUME NEW q \in Paths, NEW r \in Paths, snap'[q] # NoNote, snap'[r] # NoNote,
                        snap'[q].id = snap'[r].id, snap'[q].id # NoId, q # r
                 PROVE  FALSE
      OBVIOUS
    <3>1. snap'[p].id = k
      BY <1>4, <1>6
    <3>2. CASE q # p /\ r # p
      BY <1>6, <3>2 DEF MindInv, SnapOK
    <3>3. CASE q = p \/ r = p
      <4>1. q \in Paths \ {p} \/ r \in Paths \ {p}
        OBVIOUS
      <4>2. \A s \in Paths \ {p} : snap'[s] # NoNote => snap'[s].id # k
        BY ONLY <1>5, <1>6
      <4> QED
        BY <3>1, <3>3, <4>1, <4>2
    <3> QED
      BY <3>2, <3>3
  <2>2. op'.at = "sync"
    BY <1>2 DEF At
  <2>3. ASSUME synced' = "yes"
        PROVE  note' = snap' /\ \A q \in Paths \ todo' : snap'[q] # NoNote => Passed(q)'
    <3>1. note = snap /\ \A q \in Paths \ todo : snap[q] # NoNote => Passed(q)
      BY <1>2, <2>3 DEF MindInv, SnapOK, At
    <3>2. note' = snap'
      BY <1>1, <3>1
    <3>3. \A q \in Paths \ todo' : snap'[q] = snap[q]
      BY <1>2, <1>3, <1>6
    <3> QED
      BY <1>2, <3>1, <3>2, <3>3 DEF Passed
  <2> QED
    BY <2>1, <2>2, <2>3 DEF SnapOK
<1>9. SyncedOK'
  BY <1>2 DEF SyncedOK, At
<1> QED
  BY <1>2, <1>7, <1>8, <1>9 DEF MindInv

\* A file that is passed over is in the manifest as it was read.
LEMMA PassingKeepsMind ==
    ASSUME VaultInv, MindInv, PassOver
    PROVE  MindInv'
<1> DEFINE p == First(todo)  k == snap[p].id
<1>1. /\ At("sync") /\ todo # {} /\ k # NoId /\ Settled(k, p) /\ todo' = todo \ {p}
      /\ UNCHANGED <<note, row, manifest, chunks, op, snap, synced, adrift, blurred>>
  BY DEF PassOver, mindVars, pastVars
<1>2. p \in todo /\ p \in Paths /\ snap[p] \in NoteSet /\ k \in Ids
  BY <1>1, MindFacts DEF NoteSet
<1>3. Passed(p)
  <2>1. manifest[k] \in EntrySet /\ manifest[k].path = p /\ manifest[k].note = snap[p]
    BY <1>1, <1>2, MindFacts DEF Settled, Moved
  <2> QED
    BY <1>2, <2>1 DEF Passed, EntrySet
<1>4. RowsOK' /\ ChunksOK' /\ MidwayOK'
  <2>1. AllFit'
    BY <1>1, FitAtRest DEF At, AllFit, RowFits, ChunksFit, Entries, Projection, Searchable
  <2> QED
    BY <1>1, <2>1, FitAtRest, RestIsOK DEF At
<1>5. SnapOK'
  BY <1>1, <1>3 DEF MindInv, SnapOK, Passed, At
<1>6. SyncedOK'
  BY <1>1 DEF SyncedOK, At
<1> QED
  BY <1>1, <1>4, <1>5, <1>6 DEF MindInv

\* A file is projected: its row and its chunks are those of the note it is now, and
\* what was left where it was before has no chunks.
LEMMA ProjectingKeepsMind ==
    ASSUME VaultInv, MindInv, Project
    PROVE  MindInv'
<1> DEFINE p == First(todo)  k == snap[p].id  n == note[p]  j == n.id
<1>1. /\ At("sync") /\ todo # {} /\ k # NoId /\ Readable(p)
      /\ row' = [row EXCEPT ![j] = [text |-> n.text, status |-> IF snap[p].text = Blank THEN "superseded" ELSE n.status]]
      /\ chunks' = [q \in Paths |-> IF Moved(k, p) /\ q = manifest[k].path THEN NoNote
                                    ELSE IF q = p THEN Searchable(n) ELSE chunks[q]]
      /\ blurred' = (IF ~Moved(k, p) THEN blurred ELSE IF j = k THEN Unlisted(k)
                     ELSE blurred \cup {manifest[k].path}) \ {p}
      /\ op' = [Op("ack", j, NoText, p) EXCEPT !.seen = n]
      /\ UNCHANGED <<note, manifest, snap, todo, synced, adrift>>
  BY DEF Project
<1>2. p \in todo /\ p \in Paths /\ snap[p] \in NoteSet /\ k \in Ids /\ n \in NoteSet /\ j \in Ids
  BY <1>1, MindFacts DEF NoteSet, Readable, Present
<1>3. op'.at = "ack" /\ op'.id = j /\ op'.path = p /\ op'.seen = n
  BY <1>1 DEF Op
<1>4. op.id = NoId /\ AllFit /\ NoId \notin Ids
  BY <1>1, FitAtRest, MindFacts DEF At
<1>5. RowsOK'
  <2> SUFFICES ASSUME NEW i \in Ids \ adrift', i # j PROVE RowFits(i)'
    BY <1>3 DEF RowsOK
  <2>1. RowFits(i) /\ row'[i] = row[i]
    BY <1>1, <1>2, <1>4 DEF AllFit, VaultInv
  <2> QED
    BY <1>1, <2>1 DEF RowFits, Projection
<1>6. \A q : Leaving(q)' <=> Moved(k, p) /\ q = manifest[k].path
  BY <1>1, <1>3 DEF Leaving, At, Moved
<1>7. ChunksOK'
  <2> SUFFICES ASSUME NEW q \in Paths, q # p, ~ Leaving(q)' PROVE ChunksFit(q)'
    BY <1>3 DEF ChunksOK, Indexing
  <2>1. chunks'[q] = chunks[q]
    BY <1>1, <1>6
  <2>2. q \in blurred' <=> q \in blurred
    BY <1>1, <1>6, Zenon DEF Unlisted
  <2>3. ChunksFit(q)
    BY <1>4 DEF AllFit
  <2> QED
    BY <1>1, <2>1, <2>2, <2>3 DEF ChunksFit, Entries, Searchable
<1>8. MidwayOK'
  <2>1. chunks'[p] = Searchable(n)
    BY <1>1, <1>2 DEF Moved
  <2>2. row'[j] = [text |-> n.text, status |-> IF snap[p].text = Blank THEN "superseded" ELSE n.status]
    BY <1>1, <1>2 DEF VaultInv
  <2>3. ASSUME NEW q \in Paths, Leaving(q)', q \notin blurred'
        PROVE  j = k /\ chunks'[q] = NoNote /\ Entries(q)' = {j}
    <3>1. Moved(k, p) /\ q = manifest[k].path /\ q # p
      BY <1>6, <2>3 DEF Moved
    <3>2. j = k /\ q \notin Unlisted(k)
      BY <1>1, <2>3, <3>1
    <3>3. Entries(q) = {k}
      BY <3>1, <3>2, Zenon DEF Unlisted
    <3>4. chunks'[q] = NoNote
      BY <1>1, <3>1
    <3>5. Entries(q)' = Entries(q)
      BY <1>1 DEF Entries
    <3> QED
      BY <3>2, <3>3, <3>4, <3>5
  <2>4. (chunks[op.path] = Searchable(op.seen))'
    BY <1>1, <1>3, <2>1 DEF Searchable
  <2>5. /\ op'.path \in todo' /\ snap'[op'.path].id \in Ids /\ op'.seen.id = op'.id /\ op'.id \in Ids
        /\ row'[op'.id] = [text |-> op'.seen.text,
                           status |-> IF snap'[op'.path].text = Blank THEN "superseded" ELSE op'.seen.status]
    BY <1>1, <1>2, <1>3, <2>2
  <2>6. \A q \in Paths : Leaving(q)' /\ q \notin blurred' =>
            op'.id = snap'[op'.path].id /\ chunks'[q] = NoNote /\ Entries(q)' = {op'.id}
    BY <1>1, <1>3, <2>3
  <2> QED
    BY <1>3, <2>4, <2>5, <2>6 DEF MidwayOK, At
<1>9. SnapOK' /\ SyncedOK'
  BY <1>1, <1>3 DEF MindInv, SnapOK, SyncedOK, Passed, At
<1>10. chunks' \in [Paths -> NoteSet \cup {NoNote}]
  <2>1. Searchable(n) \in NoteSet \cup {NoNote}
    BY <1>2 DEF Searchable
  <2> QED
    BY <1>1, <2>1 DEF MindInv
<1> QED
  BY <1>1, <1>5, <1>7, <1>8, <1>9, <1>10 DEF MindInv

\* What was projected is acknowledged, and the next file is looked at.
LEMMA ProjectedKeepsMind ==
    ASSUME VaultInv, MindInv, RecordProjected
    PROVE  MindInv'
<1> DEFINE p == op.path  n == note[p]
<1>1. /\ At("ack") /\ Readable(p) /\ Acknowledge(p) /\ todo' = todo \ {p}
      /\ op' = Op("sync", NoId, NoText, 0) /\ UNCHANGED <<note, row, chunks, snap, synced>>
  BY DEF RecordProjected
<1>2. Indexing /\ p \in todo /\ p \in Paths /\ snap[p] \in NoteSet /\ snap[p].id \in Ids
  BY <1>1, MindFacts DEF Indexing, At, MindInv, MidwayOK
<1>3. /\ manifest' \in [Ids -> EntrySet \cup {NoNote}] /\ adrift' \subseteq Ids /\ AllFit'
      /\ manifest' = [manifest EXCEPT ![n.id] = [path |-> p, note |-> n]]
  BY <1>1, <1>2, AcknowledgedFits
<1>4. op'.at = "sync" /\ op'.id = NoId
  BY <1>1 DEF Op
<1>5. RowsOK' /\ ChunksOK' /\ MidwayOK'
  BY <1>3, <1>4, RestIsOK
<1>6. SnapOK'
  <2>1. ASSUME synced' = "yes"
        PROVE  note' = snap' /\ \A q \in Paths \ todo' : snap'[q] # NoNote => Passed(q)'
    <3>1. note = snap /\ \A q \in Paths \ todo : snap[q] # NoNote => Passed(q)
      BY <1>1, <2>1 DEF MindInv, SnapOK, At
    <3>2. ASSUME NEW q \in Paths, q = p PROVE Passed(q)'
      BY <1>1, <1>2, <1>3, <3>1, <3>2 DEF Passed, MindInv
    <3>3. ASSUME NEW q \in Paths \ todo, snap[q] # NoNote PROVE Passed(q)'
      <4>1. Passed(q) /\ snap[q].id # snap[p].id
        BY <1>2, <3>1, <3>3, VaultAssumption DEF MindInv, SnapOK, Passed
      <4>2. n.id = snap[p].id /\ snap[q].id \in Ids
        BY <3>1, <4>1 DEF Passed
      <4>3. manifest'[snap[q].id] = manifest[snap[q].id]
        BY <1>3, <4>1, <4>2 DEF MindInv
      <4> QED
        BY <1>1, <4>1, <4>3 DEF Passed
    <3> QED
      BY <1>1, <3>1, <3>2, <3>3
  <2> QED
    BY <1>1, <1>4, <2>1 DEF MindInv, SnapOK
<1>7. SyncedOK'
  BY <1>4 DEF SyncedOK, At
<1> QED
  BY <1>1, <1>3, <1>5, <1>6, <1>7 DEF MindInv

\* A reconciliation is given up only if the user came after it had read the files.
LEMMA AbortKeepsMind ==
    ASSUME VaultInv, MindInv, AbortSync
    PROVE  MindInv'
<1>1. /\ Raise(op.path) /\ UNCHANGED <<note, row, manifest, chunks, synced>> /\ UNCHANGED mindVars
      /\ op' = Idle /\ snap' = [p \in Paths |-> NoNote] /\ todo' = {}
  BY DEF AbortSync, EndSync, Raise, mindVars
<1>2. synced # "yes"
  <2>1. CASE At("sync")
    <3>1. /\ todo # {} /\ First(todo) \in todo /\ snap[First(todo)].id # NoId /\ ~ Readable(First(todo))
      BY <2>1, MindFacts DEF AbortSync, At
    <3> QED
      BY <2>1, <3>1, MindFacts, VaultAssumption DEF Readable, Present, MindInv, SnapOK, At
  <2>2. CASE At("ack")
    <3>1. op.path \in todo /\ snap[op.path].id \in Ids /\ ~ Readable(op.path)
      BY <2>2 DEF AbortSync, At, MindInv, MidwayOK
    <3> QED
      BY <2>2, <3>1, MindFacts, VaultAssumption DEF Readable, Present, MindInv, SnapOK, At
  <2> QED
    BY <2>1, <2>2 DEF AbortSync
<1>3. AllFit' /\ adrift' \subseteq Ids
  <2>1. CASE At("ack")
    BY <1>1, <2>1, RaisedFits DEF Indexing, At
  <2>2. CASE At("sync")
    <3>1. ~ Indexing /\ adrift' = Unacknowledged /\ blurred \subseteq blurred'
      BY <1>1, <2>2 DEF Indexing, At, Raise
    <3> QED
      BY <1>1, <3>1, GivenUpFits DEF Unacknowledged, MindInv
  <2> QED
    BY <2>1, <2>2 DEF AbortSync
<1>4. op'.at = "idle" /\ op'.id = NoId
  BY <1>1 DEF Idle, Op
<1> QED
  BY <1>1, <1>2, <1>3, <1>4, EndKeepsMind DEF MindInv

\* The row of an entry without a note is superseded, and the chunks go.
LEMMA RetiringKeepsMind ==
    ASSUME VaultInv, MindInv, NEW k \in Ids, Retire(k)
    PROVE  MindInv'
<1> DEFINE q == manifest[k].path
<1>1. /\ At("sync") /\ todo = {} /\ manifest[k] # NoNote
      /\ \A p \in Paths : snap[p] = NoNote \/ snap[p].id # k
      /\ row' = IF row[k] = NoNote THEN row ELSE [row EXCEPT ![k].status = "superseded"]
      /\ chunks' = [chunks EXCEPT ![q] = NoNote]
      /\ blurred' = Unlisted(k) /\ manifest' = [manifest EXCEPT ![k] = NoNote] /\ adrift' = adrift \ {k}
      /\ UNCHANGED <<note, op, snap, todo, synced>>
  BY DEF Retire, Missing
<1>2. AllFit /\ op.id = NoId
  BY <1>1, FitAtRest DEF At
<1>3. /\ manifest' \in [Ids -> EntrySet \cup {NoNote}] /\ manifest'[k] = NoNote
      /\ \A j \in Ids \ {k} : manifest'[j] = manifest[j] /\ row'[j] = row[j]
  BY <1>1 DEF MindInv, VaultInv
<1>4. chunks' \in [Paths -> NoteSet \cup {NoNote}]
  BY <1>1 DEF MindInv
<1>5. q \in Paths
  BY <1>1, MindFacts DEF EntrySet
<1>6. row'[k] = NoNote \/ row'[k].status = "superseded"
  <2>1. row[k] # NoNote => row[k] \in RowSet
    BY MindFacts
  <2> QED
    BY <1>1, <2>1 DEF RowSet, VaultInv
<1>7. \A j \in Ids \ adrift' : RowFits(j)'
  <2>1. \A j \in Ids \ adrift' : j # k => RowFits(j)'
    BY <1>1, <1>2, <1>3 DEF AllFit, RowFits, Projection
  <2> QED
    BY <1>3, <1>6, <2>1 DEF RowFits
<1>8. \A p \in Paths : ChunksFit(p)'
  <2>1. ASSUME NEW p \in Paths, p # q PROVE ChunksFit(p)'
    <3>1. chunks'[p] = chunks[p] /\ (p \in blurred' <=> p \in blurred)
      BY <1>1, <2>1 DEF Unlisted, MindInv
    <3>2. Entries(p)' = Entries(p) /\ \A j \in Entries(p) : manifest'[j] = manifest[j]
      BY <1>3, <2>1 DEF Entries
    <3>3. ChunksFit(p)
      BY <1>2 DEF AllFit
    <3>4. \A j \in Ids : Entries(p)' = {j} => manifest'[j] = manifest[j]
      BY <3>2
    <3> QED
      BY <3>1, <3>2, <3>3, <3>4 DEF ChunksFit, Searchable
  <2>2. ASSUME NEW p \in Paths, p = q PROVE ChunksFit(p)'
    <3> SUFFICES ASSUME p \notin blurred' PROVE Entries(p)' = {} /\ chunks'[p] = NoNote
      BY DEF ChunksFit
    <3>1. Entries(p) = {k}
      BY <1>1, <2>2 DEF Unlisted
    <3> QED
      BY <1>1, <1>3, <2>2, <3>1 DEF Entries, MindInv
  <2> QED
    BY <2>1, <2>2
<1>9. RowsOK' /\ ChunksOK' /\ MidwayOK'
  BY <1>1, <1>2, <1>7, <1>8, RestIsOK DEF AllFit, At
<1>10. SnapOK' /\ SyncedOK'
  <2>1. \A p \in Paths : snap[p] # NoNote /\ Passed(p) => Passed(p)'
    BY <1>1, <1>3 DEF Passed
  <2> QED
    BY <1>1, <2>1 DEF MindInv, SnapOK, SyncedOK, At
<1> QED
  BY <1>1, <1>3, <1>4, <1>9, <1>10 DEF MindInv

\* At its end the manifest is about the files, as they were read.
LEMMA ReconciledKeepsMind ==
    ASSUME VaultInv, MindInv, Reconciled
    PROVE  MindInv'
<1>1. /\ At("sync") /\ todo = {} /\ Missing = {} /\ UNCHANGED <<note, row, manifest, chunks, synced, adrift, blurred>>
      /\ op' = Idle /\ snap' = [p \in Paths |-> NoNote] /\ todo' = {} /\ UNCHANGED mindVars
  BY DEF Reconciled, EndSync, mindVars, pastVars
<1>2. op'.at = "idle" /\ op'.id = NoId
  BY <1>1 DEF Idle, Op
<1>3. AllFit'
  BY <1>1, FitAtRest DEF At, AllFit, RowFits, ChunksFit, Entries, Projection, Searchable
<1>4. RowsOK' /\ ChunksOK' /\ MidwayOK'
  BY <1>2, <1>3, RestIsOK
<1>5. SnapOK'
  BY <1>1, <1>2 DEF SnapOK
<1>6. SyncedOK'
  <2> SUFFICES ASSUME synced = "yes"
               PROVE  /\ \A p \in Paths : Present(p)' => note'[p].id \in Ids /\ manifest'[note'[p].id] = [path |-> p, note |-> note'[p]]
                      /\ \A k \in Ids : manifest'[k] # NoNote => FilesOf(k)' # {}
    BY <1>1 DEF SyncedOK
  <2>1. note = snap /\ \A p \in Paths : snap[p] # NoNote => Passed(p)
    BY <1>1 DEF MindInv, SnapOK, At
  <2>2. \A k \in Ids : manifest[k] # NoNote => \E p \in Paths : snap[p] # NoNote /\ snap[p].id = k
    BY <1>1 DEF Missing
  <2> QED
    BY <1>1, <2>1, <2>2 DEF Passed, Present, FilesOf
<1> QED
  BY <1>1, <1>4, <1>5, <1>6 DEF MindInv

\* A row that is written or gets a status is that of the operation.
LEMMA WritingKeepsMind ==
    ASSUME VaultInv, MindInv, NEW k \in Ids, NEW x \in NoteTexts, WriteRow(k, x),
           op.at \in {"idle", "replace"}
    PROVE  MindInv'
<1>1. /\ row' = [row EXCEPT ![k] = [text |-> x, status |-> "verified"]]
      /\ op' = Op("mirror", k, x, 0) /\ synced' = "no"
      /\ UNCHANGED <<note, manifest, chunks, snap, todo, adrift, blurred>>
  BY DEF WriteRow
<1>2. AllFit /\ op'.at = "mirror" /\ op'.id = k /\ op'.text = x
  BY <1>1, FitAtRest DEF Op
<1>3. row'[k] = [text |-> x, status |-> "verified"] /\ \A j \in Ids \ {k} : row'[j] = row[j]
  BY <1>1 DEF VaultInv
<1>4. RowsOK'
  BY <1>1, <1>2, <1>3 DEF AllFit, RowsOK, RowFits, Projection
<1>5. ChunksOK'
  BY <1>1, <1>2 DEF AllFit, ChunksOK, ChunksFit, Entries, Searchable
<1>6. MidwayOK'
  BY <1>2, <1>3 DEF MidwayOK, Indexing, At
<1>7. SnapOK' /\ SyncedOK'
  BY <1>1, <1>2 DEF MindInv, SnapOK, SyncedOK
<1> QED
  BY <1>1, <1>4, <1>5, <1>6, <1>7 DEF MindInv

\* A status is set on a row whose text is still what was acknowledged.
LEMMA CorrectingKeepsMind ==
    ASSUME VaultInv, MindInv, NEW k \in Ids, NEW s \in StatusSet, NEW x, Correct(k, s, x)
    PROVE  MindInv'
<1>1. /\ At("idle") /\ row[k] # NoNote /\ row' = [row EXCEPT ![k].status = s]
      /\ op' = Op("restate", k, x, 0) /\ synced' = "no"
      /\ UNCHANGED <<note, manifest, chunks, snap, todo, adrift, blurred>>
  BY DEF Correct
<1>2. AllFit /\ op'.at = "restate" /\ op'.id = k
  BY <1>1, FitAtRest DEF Op, At
<1>3. row'[k].text = row[k].text /\ \A j \in Ids \ {k} : row'[j] = row[j]
  <2>1. row[k] \in RowSet
    BY <1>1, MindFacts
  <2> QED
    BY <1>1, <2>1 DEF VaultInv, RowSet
<1>4. RowsOK'
  BY <1>1, <1>2, <1>3 DEF AllFit, RowsOK, RowFits, Projection
<1>5. ChunksOK'
  BY <1>1, <1>2 DEF AllFit, ChunksOK, ChunksFit, Entries, Searchable
<1>6. MidwayOK'
  <2>1. ASSUME k \notin adrift, manifest[k] # NoNote PROVE row[k].text = manifest[k].note.text
    <3>1. row[k] = Projection(manifest[k].note)
      BY <1>2, <2>1 DEF AllFit, RowFits
    <3> QED
      BY <3>1 DEF Projection
  <2> QED
    BY <1>1, <1>2, <1>3, <2>1 DEF MidwayOK, Indexing, At
<1>7. SnapOK' /\ SyncedOK'
  BY <1>1, <1>2 DEF MindInv, SnapOK, SyncedOK, At
<1> QED
  BY <1>1, <1>4, <1>5, <1>6, <1>7 DEF MindInv

\* The note of a row is written, and looked at.
LEMMA MirrorKeepsMind ==
    ASSUME VaultInv, MindInv, Mirror
    PROVE  MindInv'
<1>1. /\ At("mirror") /\ UNCHANGED <<row, manifest, chunks, snap, todo, synced, adrift, blurred>>
      /\ op' = [op EXCEPT !.at = "check", !.path = IF FindExisting(op.text) # 0 THEN FindExisting(op.text) ELSE op.text]
  BY DEF Mirror, mindVars, pastVars
<1>2. op'.at = "check" /\ op'.id = op.id /\ op'.text = op.text
  BY <1>1, MindFacts DEF OpSet
<1>3. RowsOK'
  BY <1>1, <1>2 DEF MindInv, RowsOK, RowFits, Projection
<1>4. ChunksOK'
  BY <1>1, <1>2 DEF MindInv, ChunksOK, ChunksFit, Entries, Searchable, Indexing, Leaving, At
<1>5. MidwayOK'
  BY <1>1, <1>2 DEF MindInv, MidwayOK, Indexing, Leaving, At
<1>6. SnapOK' /\ SyncedOK'
  BY <1>1, <1>2 DEF MindInv, SnapOK, SyncedOK, At
<1> QED
  BY <1>1, <1>3, <1>4, <1>5, <1>6 DEF MindInv

\* A file is indexed as n says, for the operation that goes on at it.
LEMMA IndexingKeepsMind ==
    ASSUME VaultInv, MindInv, NEW p \in Paths, NEW n \in NoteSet,
           op.at \in {"check", "restate"}, chunks' = [chunks EXCEPT ![p] = Searchable(n)],
           op'.at = (IF At("check") THEN "record" ELSE "rerecord"),
           op'.id = op.id, op'.text = op.text, op'.path = p, op'.seen = n,
           At("restate") => n.id = op.id,
           blurred' = blurred \ {p}, UNCHANGED <<row, manifest, snap, todo, synced, adrift>>
    PROVE  MindInv'
<1>1. RowsOK'
  BY DEF MindInv, RowsOK, RowFits, Projection
<1>2. Searchable(n) \in NoteSet \cup {NoNote}
  BY DEF Searchable
<1>3. chunks' \in [Paths -> NoteSet \cup {NoNote}] /\ chunks'[p] = Searchable(n)
  BY <1>2 DEF MindInv
<1>4. ChunksOK'
  <2> SUFFICES ASSUME NEW q \in Paths, q # p PROVE ChunksFit(q)'
    BY DEF ChunksOK, Indexing, At
  <2>1. ChunksFit(q) /\ chunks'[q] = chunks[q] /\ (q \in blurred' <=> q \in blurred)
    BY DEF MindInv, ChunksOK, Indexing, Leaving, At
  <2> QED
    BY <2>1 DEF ChunksFit, Entries, Searchable
<1>5. MidwayOK'
  BY <1>3 DEF MindInv, MidwayOK, Indexing, Leaving, At, Searchable
<1>6. SnapOK' /\ SyncedOK'
  BY DEF MindInv, SnapOK, SyncedOK, At
<1> QED
  BY <1>1, <1>3, <1>4, <1>5, <1>6 DEF MindInv

\* The file that was written for a row is looked at again.
LEMMA CheckKeepsMind ==
    ASSUME VaultInv, MindInv, Check
    PROVE  MindInv'
<1> DEFINE p == op.path
<1>1. At("check") /\ op.at = "check" /\ p \in Paths /\ op \in OpSet
  BY MindFacts DEF Check, At, VaultInv, OpOK
<1>2. CASE Raise(0) /\ op' = Idle /\ UNCHANGED <<snap, todo>>
  <2>1. /\ ~ Indexing /\ UNCHANGED mindVars /\ UNCHANGED <<manifest, chunks, synced>>
        /\ adrift' = Unacknowledged /\ blurred \subseteq blurred'
    BY <1>1, <1>2 DEF Raise, Indexing, mindVars
  <2>2. AllFit'
    BY <2>1, GivenUpFits
  <2>3. op'.at = "idle" /\ op'.id = NoId
    BY <1>2 DEF Idle, Op
  <2>4. synced # "yes" /\ todo = {} /\ snap = [q \in Paths |-> NoNote]
    BY <1>1 DEF MindInv, SnapOK
  <2> QED
    BY <1>2, <2>1, <2>2, <2>3, <2>4, EndKeepsMind DEF MindInv, Unacknowledged
<1>3. CASE StartSync /\ adrift' = Unacknowledged
  BY <1>1, <1>3, StartKeepsMind
<1>4. CASE /\ Present(p) /\ chunks' = [chunks EXCEPT ![p] = Searchable(note[p])]
           /\ blurred' = blurred \ {p} /\ op' = [op EXCEPT !.at = "record", !.seen = note[p]]
           /\ UNCHANGED <<row, manifest, snap, todo, synced, adrift>>
  <2>1. note[p] \in NoteSet
    BY <1>1, <1>4, MindFacts DEF Present
  <2>2. op'.at = "record" /\ op'.id = op.id /\ op'.text = op.text /\ op'.path = p /\ op'.seen = note[p]
    BY <1>1, <1>4 DEF OpSet
  <2> QED
    BY <1>1, <1>4, <2>1, <2>2, IndexingKeepsMind DEF At
<1> QED
  BY <1>1, <1>2, <1>3, <1>4 DEF Check

\* A note is acknowledged, or that fails, and the operation is over.
LEMMA RecordingKeepsMind ==
    ASSUME VaultInv, MindInv, op.at \in {"record", "rerecord"}, op' = Idle \/ op' = Op("replace", NoId, op.text, 0),
           \/ /\ Readable(op.path) /\ Acknowledge(op.path)
              /\ UNCHANGED <<row, chunks, snap, todo, synced>>
           \/ Raise(op.path) /\ UNCHANGED <<snap, todo>>
    PROVE  MindInv'
<1>1. Indexing /\ synced # "yes" /\ todo = {} /\ snap = [q \in Paths |-> NoNote]
  BY DEF Indexing, MindInv, SnapOK
<1>2. op'.at \in {"idle", "replace"} /\ op'.id = NoId
  BY DEF Idle, Op
<1>3. CASE Readable(op.path) /\ Acknowledge(op.path) /\ UNCHANGED <<row, chunks, snap, todo, synced>>
  BY <1>1, <1>2, <1>3, AcknowledgedFits, EndKeepsMind DEF MindInv
<1>4. CASE Raise(op.path) /\ UNCHANGED <<snap, todo>>
  <2>1. UNCHANGED <<manifest, chunks, synced>>
    BY <1>4 DEF Raise, mindVars
  <2> QED
    BY <1>1, <1>2, <1>4, <2>1, RaisedFits, EndKeepsMind DEF MindInv
<1> QED
  BY <1>3, <1>4

\* A status is written on the note of its row, if there is one.
LEMMA RestateKeepsMind ==
    ASSUME VaultInv, MindInv, Restate
    PROVE  MindInv'
<1>1. /\ At("restate") /\ op.at = "restate" /\ op.id \in Ids /\ op \in OpSet
      /\ UNCHANGED <<row, manifest, snap, todo, synced>> /\ row[op.id] \in RowSet
  BY MindFacts DEF Restate, At, VaultInv, OpOK
<1>2. CASE FilesOf(op.id) = {}
  <2>1. op' = AfterStatus /\ adrift' = Unacknowledged /\ UNCHANGED <<note, row, chunks, manifest, blurred>>
    BY <1>1, <1>2 DEF Restate
  <2>2. AllFit'
    BY <1>1, <2>1, GivenUpFits DEF Indexing, mindVars
  <2>3. op'.at \in {"idle", "replace"} /\ op'.id = NoId
    BY <2>1 DEF AfterStatus, Idle, Op
  <2>4. synced # "yes" /\ todo = {} /\ snap = [q \in Paths |-> NoNote]
    BY <1>1 DEF MindInv, SnapOK
  <2> QED
    BY <1>1, <2>1, <2>2, <2>3, <2>4, EndKeepsMind DEF MindInv, Unacknowledged
<1>3. CASE FilesOf(op.id) # {}
  <2> DEFINE p == First(FilesOf(op.id))  n == [note[p] EXCEPT !.status = row[op.id].status]
  <2>1. /\ chunks' = [chunks EXCEPT ![p] = Searchable(n)] /\ blurred' = blurred \ {p}
        /\ op' = [op EXCEPT !.at = "rerecord", !.path = p, !.seen = n] /\ UNCHANGED adrift
    BY <1>3 DEF Restate
  <2>2. p \in Paths /\ note[p] \in NoteSet /\ note[p].id = op.id
    <3>1. FilesOf(op.id) \in SUBSET Paths
      BY DEF FilesOf
    <3>2. p \in FilesOf(op.id)
      BY <1>3, <3>1, FirstIsIn
    <3> QED
      BY <3>2, MindFacts DEF FilesOf, Present
  <2>3. n \in NoteSet /\ n.id = op.id
    BY <1>1, <2>2 DEF NoteSet, RowSet
  <2> HIDE DEF p, n
  <2>4. op'.at = "rerecord" /\ op'.id = op.id /\ op'.text = op.text /\ op'.path = p /\ op'.seen = n
    BY <1>1, <2>1 DEF OpSet
  <2> QED
    BY <1>1, <2>1, <2>2, <2>3, <2>4, IndexingKeepsMind DEF At
<1> QED
  BY <1>2, <1>3

\* The next process indexes the files as they are, and marks what was not
\* acknowledged like that.
LEMMA RestartKeepsMind ==
    ASSUME VaultInv, MindInv, VaultRestart
    PROVE  MindInv'
<1>1. /\ op' = Idle /\ snap' = [p \in Paths |-> NoNote] /\ todo' = {}
      /\ chunks' = [p \in Paths |-> Searchable(note[p])]
      /\ blurred' = {p \in Paths : Recorded(p) # {note[p]} \ {NoNote}}
      /\ adrift' = Unacknowledged /\ synced' = "no" /\ UNCHANGED <<note, row, manifest>>
  BY DEF VaultRestart
<1>2. chunks' \in [Paths -> NoteSet \cup {NoNote}]
  <2>1. \A p \in Paths : Searchable(note[p]) \in NoteSet \cup {NoNote}
    BY MindFacts DEF Searchable
  <2> QED
    BY <1>1, <2>1
<1>3. \A k \in Ids \ adrift' : RowFits(k)'
  BY <1>1 DEF Unacknowledged, MindInv, RowsOK, RowFits, Projection
<1>4. ASSUME NEW p \in Paths, p \notin blurred'
      PROVE  /\ Entries(p) = {} => chunks'[p] = NoNote
             /\ \A k \in Ids : Entries(p) = {k} => chunks'[p] = Searchable(manifest[k].note)
  <2>1. Recorded(p) = {note[p]} \ {NoNote} /\ chunks'[p] = Searchable(note[p])
    BY <1>1, <1>4
  <2>2. Recorded(p) = {manifest[k].note : k \in Entries(p)}
    BY DEF Recorded, Entries
  <2>3. ASSUME Entries(p) = {} PROVE chunks'[p] = NoNote
    BY <2>1, <2>2, <2>3 DEF Searchable
  <2>4. ASSUME NEW k \in Ids, Entries(p) = {k} PROVE chunks'[p] = Searchable(manifest[k].note)
    <3>1. {note[p]} \ {NoNote} = {manifest[k].note}
      BY <2>1, <2>2, <2>4
    <3>2. note[p] = manifest[k].note
      BY <3>1
    <3> QED
      BY <2>1, <3>2
  <2> QED
    BY <2>3, <2>4
<1>5. AllFit'
  BY <1>1, <1>3, <1>4 DEF AllFit, ChunksFit, Entries, Searchable
<1>6. op'.at = "idle" /\ op'.id = NoId
  BY <1>1 DEF Idle, Op
<1> QED
  BY <1>1, <1>2, <1>5, <1>6, EndKeepsMind DEF MindInv, Unacknowledged

\* Every step of the vault keeps it.
LEMMA MindStep ==
    ASSUME VaultInv, MindInv, VaultNext \/ VaultRestart \/ UNCHANGED vaultVars
    PROVE  MindInv'
<1>1. CASE Reconcile
  <2>1. At("idle") /\ StartSync /\ adrift' = adrift
    BY <1>1 DEF Reconcile
  <2>2. adrift = Unacknowledged
    BY <2>1, FitAtRest, MindFacts DEF At, Unacknowledged
  <2> QED
    BY <2>1, <2>2, StartKeepsMind DEF At
<1>2. ASSUME NEW x \in NoteTexts, Learn(x) PROVE MindInv'
  <2>1. PICK k \in Ids : WriteRow(k, x)
    <3> DEFINE p == FindExisting(x)
    <3>1. CASE p # 0 /\ note[p].text = x /\ note[p].id # NoId
      <4>1. note[p].id \in Ids
        BY <3>1, FoundIsThere, MindFacts DEF Present, NoteSet
      <4> QED
        BY <1>2, <3>1, <4>1 DEF Learn
    <3>2. CASE ~ (p # 0 /\ note[p].text = x /\ note[p].id # NoId)
      BY <1>2, <3>2 DEF Learn, FreshIds
    <3> QED
      BY <3>1, <3>2
  <2> QED
    BY <1>2, <2>1, WritingKeepsMind DEF Learn, At
<1>3. CASE Replace
  <2>1. PICK k \in Ids : WriteRow(k, op.text)
    BY <1>3 DEF Replace, FreshIds
  <2>2. op.at = "replace" /\ op.text \in NoteTexts
    BY <1>3 DEF Replace, VaultInv, OpOK, At
  <2> QED
    BY <2>1, <2>2, WritingKeepsMind
<1>4. CASE Record
  <2>1. op.at = "record" /\ op' = Idle
    BY <1>4 DEF Record, At
  <2> QED
    BY <1>4, <2>1, RecordingKeepsMind DEF Record
<1>5. CASE RecordStatus
  <2>1. op.at = "rerecord" /\ (op' = Idle \/ op' = Op("replace", NoId, op.text, 0))
    BY <1>5 DEF RecordStatus, AfterStatus, At
  <2> QED
    BY <1>5, <2>1, RecordingKeepsMind DEF RecordStatus
<1>6. ASSUME NEW k \in Ids, NEW s \in StatusSet, NEW x, Correct(k, s, x) PROVE MindInv'
  BY <1>6, CorrectingKeepsMind
<1>7. CASE UNCHANGED vaultVars
  <2>1. UNCHANGED <<note, row, manifest, chunks, op, snap, todo, synced, adrift, blurred>>
    BY <1>7 DEF vaultVars, mindVars, pastVars
  <2>2. RowsOK' /\ ChunksOK' /\ MidwayOK'
    <3>1. RowsOK'
      BY <2>1 DEF MindInv, RowsOK, RowFits, Projection
    <3>2. ChunksOK'
      BY <2>1 DEF MindInv, ChunksOK, ChunksFit, Entries, Searchable, Indexing, Leaving, At, Moved
    <3>3. MidwayOK'
      BY <2>1 DEF MindInv, MidwayOK, Entries, Searchable, Indexing, Leaving, At, Moved
    <3> QED
      BY <3>1, <3>2, <3>3
  <2>3. SnapOK' /\ SyncedOK'
    BY <2>1 DEF MindInv, SnapOK, SyncedOK, Passed, At, Present, FilesOf
  <2> QED
    BY <2>1, <2>2, <2>3 DEF MindInv
<1>8. CASE SyncStep
  BY <1>1, <1>8, NamingKeepsMind, PassingKeepsMind, ProjectingKeepsMind, ProjectedKeepsMind,
     AbortKeepsMind, RetiringKeepsMind, ReconciledKeepsMind DEF SyncStep
<1>9. CASE BrainStep
  BY <1>2, <1>3, <1>4, <1>5, <1>6, <1>8, <1>9, MirrorKeepsMind, CheckKeepsMind, RestateKeepsMind
     DEF BrainStep, StatusSet
<1> QED
  BY <1>7, <1>9, UserKeepsMind, RestartKeepsMind DEF VaultNext

\* At the start there is nothing to project.
LEMMA MindAtFirst == VaultInit => MindInv
<1> SUFFICES ASSUME VaultInit PROVE MindInv
  OBVIOUS
<1>1. /\ op.at = "idle" /\ op.id = NoId /\ synced = "no" /\ adrift = {} /\ todo = {}
      /\ manifest = [k \in Ids |-> NoNote] /\ row = [k \in Ids |-> NoNote]
      /\ chunks = [p \in Paths |-> NoNote] /\ snap = [p \in Paths |-> NoNote]
  BY DEF VaultInit, Idle, Op
<1>2. ~ Indexing /\ (\A q : ~ Leaving(q)) /\ \A p : Entries(p) = {}
  BY <1>1 DEF Indexing, Leaving, At, Entries
<1>3. RowsOK /\ ChunksOK /\ MidwayOK
  BY <1>1, <1>2 DEF RowsOK, RowFits, ChunksOK, ChunksFit, MidwayOK, At
<1>4. SnapOK /\ SyncedOK
  BY <1>1 DEF SnapOK, SyncedOK
<1> QED
  BY <1>1, <1>3, <1>4 DEF MindInv

\* After an undisturbed reconciliation everything is a projection of the notes.
LEMMA MindIsProjected == VaultInv /\ MindInv => Projected
<1> SUFFICES ASSUME VaultInv, MindInv, At("idle"), synced = "yes"
             PROVE  /\ \A k \in Ids \ adrift :
                           IF FilesOf(k) = {} THEN row[k] = NoNote \/ row[k].status = "superseded"
                           ELSE row[k] = Projection(note[First(FilesOf(k))])
                    /\ \A p \in Paths \ blurred : chunks[p] = Searchable(note[p])
  BY DEF Projected
<1>1. /\ \A p \in Paths : Present(p) => note[p].id \in Ids /\ manifest[note[p].id] = [path |-> p, note |-> note[p]]
      /\ \A k \in Ids : manifest[k] # NoNote => FilesOf(k) # {}
  BY DEF MindInv, SyncedOK
<1>2. AllFit
  BY FitAtRest DEF At
<1>3. ASSUME NEW p \in Paths, Present(p), NEW k, note[p].id = k
      PROVE  k \in Ids /\ manifest[k] # NoNote /\ manifest[k].path = p /\ manifest[k].note = note[p]
  <2>1. [path |-> p, note |-> note[p]] \in EntrySet
    BY <1>3, MindFacts DEF Present, EntrySet
  <2>2. k \in Ids /\ manifest[k] = [path |-> p, note |-> note[p]]
    BY <1>1, <1>3
  <2> QED
    BY <2>1, <2>2, VaultAssumption
<1>4. ASSUME NEW k \in Ids \ adrift, FilesOf(k) = {} PROVE row[k] = NoNote \/ row[k].status = "superseded"
  BY <1>1, <1>2, <1>4 DEF AllFit, RowFits
<1>5. ASSUME NEW k \in Ids \ adrift, FilesOf(k) # {} PROVE row[k] = Projection(note[First(FilesOf(k))])
  <2>1. FilesOf(k) \in SUBSET Paths
    BY DEF FilesOf
  <2>2. First(FilesOf(k)) \in FilesOf(k)
    BY <1>5, <2>1, FirstIsIn
  <2>3. manifest[k] # NoNote /\ manifest[k].note = note[First(FilesOf(k))]
    BY <1>3, <2>2 DEF FilesOf
  <2> QED
    BY <1>2, <2>3 DEF AllFit, RowFits
<1>6. ASSUME NEW p \in Paths \ blurred PROVE chunks[p] = Searchable(note[p])
  <2>1. \A k \in Entries(p) : Present(p) /\ note[p].id = k
    <3> SUFFICES ASSUME NEW k \in Entries(p) PROVE Present(p) /\ note[p].id = k
      OBVIOUS
    <3>1. PICK q \in Paths : Present(q) /\ note[q].id = k
      BY <1>1 DEF Entries, FilesOf
    <3>2. manifest[k].path = q
      BY <1>3, <3>1
    <3> QED
      BY <3>1, <3>2 DEF Entries
  <2>2. CASE Present(p)
    <3>1. Entries(p) = {note[p].id} /\ note[p].id \in Ids /\ manifest[note[p].id].note = note[p]
      BY <1>3, <2>1, <2>2 DEF Entries
    <3> QED
      BY <1>2, <1>6, <3>1 DEF AllFit, ChunksFit
  <2>3. CASE ~ Present(p)
    BY <1>2, <1>6, <2>1, <2>3 DEF AllFit, ChunksFit, Present, Searchable
  <2> QED
    BY <2>2, <2>3
<1> QED
  BY <1>4, <1>5, <1>6

(***************************************************************************)
(* The server: every step is one of one part                               *)
(***************************************************************************)

ServerInv == SchedInv /\ QueueInv /\ FilesInv /\ DiskInv /\ SourcesInv /\ VaultInv /\ MindInv

\* A step of the server is a step or a restart of each part, or leaves the part
\* alone, and only a restart counts as a crash.
LEMMA StepOfAPart ==
    ASSUME [Next]_vars, crashes \in Nat
    PROVE  /\ \/ SchedNext /\ crashes' = crashes
              \/ SchedRestart /\ crashes' = crashes + 1
              \/ UNCHANGED schedVars /\ crashes' \in {crashes, crashes + 1}
           /\ QueueNext \/ QueueRestart \/ UNCHANGED queueVars
           /\ ConvNext \/ ConvRestart \/ UNCHANGED convVars
           /\ SourcesNext \/ SourcesRestart \/ UNCHANGED sourceVars
           /\ VaultNext \/ VaultRestart \/ UNCHANGED vaultVars
<1>1. CASE Crash
  BY <1>1 DEF Crash, Others, backgroundVars
<1>2. CASE Next /\ ~ Crash
  BY <1>2 DEF Next, Others, backgroundVars
<1>3. CASE UNCHANGED vars
  BY <1>3 DEF vars, backgroundVars
<1> QED
  BY <1>1, <1>2, <1>3

\* The invariants of the parts together hold in every state of the server.
THEOREM ServerInvariant == Spec => []ServerInv
<1>1. Init => ServerInv
  <2> SUFFICES ASSUME Init PROVE ServerInv
    OBVIOUS
  <2>1. SchedInv
    BY SchedulerAssumption DEF Init, SchedInit, SchedInv, SchedTypeOK, FireOK, Armed
  <2>2. QueueInv
    BY DEF Init, QueueInit, QueueInv
  <2>3. FilesInv
    BY DEF Init, ConvInit, FilesInv, FilesTypeOK, LockedOK, ListedHasFile
  <2>4. DiskInv
    <3>1. /\ requests = {} /\ composer = {} /\ files = {} /\ owner = NoConv /\ dirty = NoConv
          /\ \A c \in Convs : ~ Open(c) /\ md[c] = NoFile
      BY DEF Init, ConvInit, Open
    <3>2. StepsOK /\ UsedOK /\ ShownOK
      BY <3>1, ConvAssumption DEF StepsOK, UsedOK, ShownOK
    <3>3. SavedOK /\ HeldOK /\ LeftOK
      BY <3>1 DEF SavedOK, HeldOK, LeftOK
    <3> QED
      BY <3>2, <3>3 DEF DiskInv
  <2>5. SourcesInv
    BY SourcesAtFirst DEF Init
  <2>6. VaultInv
    BY VaultAtFirst DEF Init
  <2>7. MindInv
    BY MindAtFirst DEF Init
  <2> QED
    BY <2>1, <2>2, <2>3, <2>4, <2>5, <2>6, <2>7 DEF ServerInv
<1>2. ServerInv /\ [Next]_vars => ServerInv'
  <2> SUFFICES ASSUME ServerInv, [Next]_vars PROVE ServerInv'
    OBVIOUS
  <2> USE DEF ServerInv
  <2>n. crashes \in Nat
    BY DEF SchedInv, SchedTypeOK
  <2>1. SchedInv'
    <3>1. CASE UNCHANGED schedVars /\ crashes' \in {crashes, crashes + 1}
      BY <3>1, SchedulerAssumption DEF schedVars, SchedInv, SchedTypeOK, FireOK, Armed
    <3> QED
      BY <3>1, <2>n, StepOfAPart, SchedStep, SchedAfterRestart
  <2>2. QueueInv'
    <3>1. CASE UNCHANGED queueVars
      BY <3>1 DEF queueVars, QueueInv
    <3> QED
      BY <3>1, <2>n, StepOfAPart, QueueStep, QueueAfterRestart
  <2>3. FilesInv'
    <3>1. CASE UNCHANGED convVars
      <4>1. UNCHANGED <<listed, md, page, composer, dirty, requests, locked, revived>>
        BY <3>1 DEF convVars, diskVars, pageVars
      <4> QED
        BY <4>1 DEF FilesInv, FilesTypeOK, LockedOK, ListedHasFile
    <3>2. CASE ConvNext
      BY <3>2, PageStep, ServerStep DEF ConvNext
    <3> QED
      BY <3>1, <3>2, <2>n, StepOfAPart, FilesAfterRestart
  <2>4. DiskInv'
    <3>1. CASE UNCHANGED convVars
      <4>1. UNCHANGED <<listed, md, files, locked, requests, page, composer, dirty, owner, used, excused, leaked>>
        BY <3>1 DEF convVars, diskVars, pageVars
      <4> QED
        BY <4>1 DEF DiskInv, StepsOK, UsedOK, ShownOK, Shown, SavedOK, Saves, Retitled, HeldOK, LeftOK,
                    Pending, Safe, LeavesIn, Promise, OnPage, Open
    <3> QED
      BY <3>1, <2>n, StepOfAPart, DiskStep, DiskAfterRestart
  <2>5. SourcesInv'
    <3>1. CASE UNCHANGED sourceVars
      <4>1. UNCHANGED <<index, kept, jobs, holder, wanted, raced>>
        BY <3>1 DEF sourceVars
      <4>2. SourcesInv
        OBVIOUS
      <4>3. SourcesTypeOK'
        BY ONLY <4>1, <4>2 DEF SourcesInv, SourcesTypeOK
      <4>4. \A j \in jobs' : JobOK(j)'
        BY ONLY <4>1, <4>2 DEF SourcesInv, JobOK
      <4>5. OverlapsOK' /\ ReadOK'
        BY ONLY <4>1, <4>2 DEF SourcesInv, OverlapsOK, ReadOK
      <4>6. OwnersOK'
        BY ONLY <4>1, <4>2 DEF SourcesInv, OwnersOK, Agreed, Progress
      <4> QED
        BY ONLY <4>1, <4>2, <4>3, <4>4, <4>5, <4>6 DEF SourcesInv
    <3> QED
      BY <3>1, <2>n, StepOfAPart, SourcesStep, SourcesAfterRestart
  <2>v. VaultInv /\ MindInv /\ (VaultNext \/ VaultRestart \/ UNCHANGED vaultVars)
    BY <2>n, StepOfAPart
  <2>6. VaultInv'
    BY ONLY <2>v, VaultStep
  <2>7. MindInv'
    BY ONLY <2>v, MindStep
  <2> QED
    BY <2>1, <2>2, <2>3, <2>4, <2>5, <2>6, <2>7
<1> QED
  BY <1>1, <1>2, PTL DEF Spec

\* A one-shot is triggered once, once more for each time a user enables it again,
\* and once more for each death of the process.
THEOREM OneShotsBounded == Spec => []OneShotBounded
<1>1. ServerInv => OneShotBounded
  BY DEF ServerInv, SchedInv, FireOK, OneShotBounded
<1> QED
  BY <1>1, ServerInvariant, PTL

\* A task has one thread and at most one more for each cancellation or deletion.
THEOREM TaskThreadsBounded == Spec => []ThreadsBounded
<1>1. ServerInv => ThreadsBounded
  BY DEF ServerInv, QueueInv, ThreadsBounded
<1> QED
  BY <1>1, ServerInvariant, PTL

\* The index lists no conversation without a file, unless a save of it fell into
\* the middle of its deletion.
THEOREM ListedConversationsHaveFiles == Spec => []ListedHasFile
<1>1. ServerInv => ListedHasFile
  BY DEF ServerInv, FilesInv
<1> QED
  BY <1>1, ServerInvariant, PTL

\* When nothing is under way for a conversation, the disk has what the page shows:
\* what is shown is saved, on its way or marked, unless a save may have missed it.
THEOREM ShownIsSaved == Spec => []SavedAsShown
<1>1. ServerInv => SavedAsShown
  BY DEF ServerInv, DiskInv, SavedOK, SavedAsShown, Saves, Retitled
<1> QED
  BY <1>1, ServerInvariant, PTL

\* When every request is answered, each attachment file belongs to a message or to
\* the composer, or has been leaked: a sweep takes all that a deletion leaves.
THEOREM NothingLeftOver == Spec => []NoLeftovers
<1>1. ASSUME ServerInv, requests = {}, NEW a \in files \ (OnPage \cup leaked)
      PROVE  a \in Referenced
  <2>1. PICK c \in Convs : md[c] # NoFile /\ a \in md[c]
    BY <1>1 DEF ServerInv, DiskInv, LeftOK
  <2>2. a \in Attachments
    BY <1>1 DEF ServerInv, DiskInv, LeftOK
  <2> QED
    BY <2>1, <2>2 DEF Referenced, InFiles
<1>2. ServerInv => NoLeftovers
  BY <1>1 DEF NoLeftovers
<1> QED
  BY <1>2, ServerInvariant, PTL

\* When nothing is under way for a project or a conversation, its folders in the
\* index and in the service are those that the answered requests come to, unless
\* requests for it overlapped that may not, or died.
THEOREM FoldersAsAsked == Spec => []SourcesAsAsked
<1>1. ASSUME ServerInv, NEW o \in Owners \ raced, \A j \in jobs : j.owner # o
      PROVE  index[o] = wanted[o] /\ kept[o] = IF wanted[o] = NoEntry THEN {} ELSE wanted[o]
  BY <1>1 DEF ServerInv, SourcesInv, OwnersOK, Agreed, Served
<1>2. ServerInv => SourcesAsAsked
  BY <1>1 DEF SourcesAsAsked
<1> QED
  BY <1>2, ServerInvariant, PTL

\* The brain never changes what a note says, but for a note without identity that
\* the user changes while it is being given one.
THEOREM BrainKeepsTheText == Spec => UserTextKept
<1>1. ASSUME ServerInv, [Next]_vars
      PROVE  [\A p \in Paths :
                 (edits' = edits /\ Present(p) /\ note[p].text # Blank
                     /\ ~(At("sync") /\ snap[p] # note[p]))
                 => note'[p] # NoNote /\ note'[p].text = note[p].text]_vaultVars
  <2>1. crashes \in Nat /\ VaultInv
    BY <1>1 DEF ServerInv, SchedInv, SchedTypeOK
  <2>2. CASE VaultNext \/ VaultRestart
    BY <2>1, <2>2, VaultStep DEF Undisturbed, Says
  <2> QED
    BY <1>1, <2>1, <2>2, StepOfAPart
<1> QED
  BY <1>1, ServerInvariant, PTL DEF Spec, UserTextKept

\* After a reconciliation that nothing disturbed, rows and chunks are the projection
\* of the notes, but for the ids and the paths that are marked.
THEOREM NotesAreProjected == Spec => []Projected
<1>1. ServerInv => Projected
  BY MindIsProjected DEF ServerInv
<1> QED
  BY <1>1, ServerInvariant, PTL
=============================================================================
