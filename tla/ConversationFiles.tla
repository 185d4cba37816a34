------------------------- MODULE ConversationFiles -------------------------
(***************************************************************************)
(* The conversations on disk (webui_server.py) and the page that keeps     *)
(* them (useNoviChat.ts, PromptInput.tsx).  The server has an index, one   *)
(* file per conversation and the attachment files; one lock guards index   *)
(* and conversation files, but the deletion of a conversation and the      *)
(* making of a title reach outside of it.  Deletions end with a sweep of   *)
(* the attachments that no conversation file refers to.  The page sends    *)
(* whole conversations, each in a request of its own: the server works on  *)
(* them on several threads and in any order.                               *)
(*                                                                         *)
(* A message is the text or the attachments in it; a conversation is a set *)
(* of those.  Two identical requests in flight are one element of the set  *)
(* of requests: carrying them out twice would write the same twice.        *)
(***************************************************************************)
EXTENDS Naturals, FiniteSets

CONSTANTS Convs, Attachments, Texts,    \* numbers: used in increasing order
          NoConv, NoItem, NoFile, NoRequest,
          MaxRequests                   \* bound: requests of the page in flight

\* What a message is made of, and the requests of the page.
Items == Attachments \cup Texts
RequestSet ==
    [kind : {"first", "save", "title", "delete", "upload", "discard"},
     conv : Convs \cup {NoConv}, item : Attachments \cup {NoItem}, content : SUBSET Items,
     step : {"sent", "written", "read", "titled", "unlisted", "unlinked", "scanned"}]

\* No file is not an empty file, and no request is none of the page's.
ASSUME ConvAssumption ==
    /\ Convs \subseteq Nat /\ Items \subseteq Nat /\ NoConv \notin Convs /\ MaxRequests \in Nat
    /\ (\A S \in SUBSET Items : S # NoFile) /\ \A r \in RequestSet : r # NoRequest

VARIABLES
    listed,     \* index.json: the conversations it lists
    md,         \* md[c]: what the file of c holds, or NoFile
    files,      \* the attachment files
    locked,     \* the request inside _CONVERSATIONS_LOCK, or NoRequest
    requests,   \* the requests in flight
    page,       \* page[c]: the messages of c on the page, or NoFile
    composer,   \* attachments uploaded and not sent
    dirty,      \* dirtyIdRef
    owner,      \* the conversation whose run is under way
    untitled,   \* pendingTitleIds
    used,       \* history: conversations, texts and attachments used
    written,    \* history: what was ever in a conversation file
    excused,    \* history: conversations whose saves may have missed the page
    revived,    \* history: conversations saved in the middle of their deletion
    leaked      \* history: attachments a death of the server left without an
                \* owner, and those of conversations written after their deletion

diskVars == <<listed, md, files>>
pageVars == <<page, composer, dirty, owner, untitled>>
convVars == <<diskVars, locked, requests, pageVars, used, written, excused, revived, leaked>>

Request(kind, c, a, content, step) ==
    [kind |-> kind, conv |-> c, item |-> a, content |-> content, step |-> step]

ConvInit ==
    /\ listed = {} /\ md = [c \in Convs |-> NoFile] /\ files = {}
    /\ locked = NoRequest /\ requests = {}
    /\ page = [c \in Convs |-> NoFile] /\ composer = {} /\ dirty = NoConv
    /\ owner = NoConv /\ untitled = {}
    /\ used = {} /\ written = {} /\ excused = {} /\ revived = {} /\ leaked = {}

\* The next one of a kind that was never used.
Fresh(S) == {x \in S \ used : \A y \in S \ used : x <= y}

Open(c) == page[c] # NoFile
InFiles == UNION {md[c] : c \in {d \in Convs : md[d] # NoFile}}
OnPage == composer \cup UNION {page[c] : c \in {d \in Convs : Open(d)}}

\* referenced_attachment_ids: every conversation file counts, listed or not.
Referenced == InFiles \cap Attachments

Saves(c) == {r \in requests : r.kind \in {"first", "save"} /\ r.conv = c}

\* The page has one place for the conversation with unsaved changes.
MarkDirty(c) ==
    /\ dirty' = c
    /\ excused' = IF dirty \in Convs \ {c} THEN excused \cup {dirty} ELSE excused

Step(r, step) == requests' = (requests \ {r}) \cup {[r EXCEPT !.step = step]}
Drop(r) == requests' = requests \ {r}

-----------------------------------------------------------------------------
(* The page *)

\* A message takes what the composer holds, or is a text.
Messages == IF composer # {} THEN {composer} ELSE {{t} : t \in Fresh(Texts)}

Ask(request) ==
    /\ Cardinality(requests) < MaxRequests
    /\ requests' = requests \cup {request}

\* sendMessage from the draft: the new conversation is saved before its run starts.
Start(c) ==
    /\ owner = NoConv /\ c \in Fresh(Convs)
    /\ \E m \in Messages :
        /\ page' = [page EXCEPT ![c] = m]
        /\ used' = used \cup m \cup {c}
        /\ Ask(Request("first", c, NoItem, m, "sent"))
    /\ owner' = c /\ composer' = {}
    /\ UNCHANGED <<diskVars, locked, dirty, untitled, written, excused, revived, leaked>>

\* sendMessage in a conversation that is there.
Send(c) ==
    /\ owner = NoConv /\ Open(c)
    /\ \E m \in Messages :
        /\ page' = [page EXCEPT ![c] = @ \cup m]
        /\ used' = used \cup m
    /\ owner' = c /\ composer' = {} /\ MarkDirty(c)
    /\ UNCHANGED <<diskVars, locked, requests, untitled, written, revived, leaked>>

\* The run of the owner starts when its conversation has been saved.
Running(c) == owner = c /\ \A r \in requests : r.kind = "first" => r.conv # c

\* message_end
Reply(c) ==
    /\ Running(c) /\ Open(c)
    /\ \E t \in Fresh(Texts) :
        page' = [page EXCEPT ![c] = @ \cup {t}] /\ used' = used \cup {t}
    /\ MarkDirty(c)
    /\ UNCHANGED <<diskVars, locked, requests, composer, owner, untitled, written, revived, leaked>>

\* done, error or cancelled: the first completed turn asks for a title.
End(c) ==
    /\ Running(c) /\ owner' = NoConv /\ MarkDirty(c)
    /\ \/ /\ c \in untitled /\ untitled' = untitled \ {c}
          /\ Ask(Request("title", c, NoItem, {}, "sent"))
       \/ UNCHANGED <<untitled, requests>>
    /\ UNCHANGED <<diskVars, locked, page, composer, used, written, revived, leaked>>

\* The effect after a render saves the conversation with unsaved changes, if it
\* is still there, as it is now.
Persist ==
    /\ dirty # NoConv /\ dirty' = NoConv
    /\ IF Open(dirty)
        THEN /\ Ask(Request("save", dirty, NoItem, page[dirty], "sent"))
             /\ excused' = IF Saves(dirty) = {} THEN excused \ {dirty} ELSE excused \cup {dirty}
        ELSE UNCHANGED <<requests, excused>>
    /\ UNCHANGED <<diskVars, locked, page, composer, owner, untitled, used, written, revived, leaked>>

Delete(c) ==
    /\ Open(c) /\ page' = [page EXCEPT ![c] = NoFile]
    /\ Ask(Request("delete", c, NoItem, {}, "sent"))
    /\ UNCHANGED <<diskVars, locked, composer, dirty, owner, untitled, used, written, excused, revived, leaked>>

\* upload_attachment opens the file before it reads the body.
Upload(a) ==
    /\ a \in Fresh(Attachments) /\ used' = used \cup {a}
    /\ Ask(Request("upload", NoConv, a, {}, "sent"))
    /\ files' = files \cup {a}
    /\ UNCHANGED <<listed, md, locked, pageVars, written, excused, revived, leaked>>

Uploaded(r) ==
    /\ r.kind = "upload" /\ Drop(r) /\ composer' = composer \cup {r.item}
    /\ UNCHANGED <<diskVars, locked, page, dirty, owner, untitled, used, written, excused, revived, leaked>>

\* The user takes an attachment out of the composer.
Discard(a) ==
    /\ a \in composer /\ composer' = composer \ {a}
    /\ Ask(Request("discard", NoConv, a, {}, "sent"))
    /\ UNCHANGED <<diskVars, locked, page, dirty, owner, untitled, used, written, excused, revived, leaked>>

-----------------------------------------------------------------------------
(* The server: put_conversation, under the lock, file first *)

\* The page has let go of c, and no deletion is going to unlink its file.
Abandoned(c) ==
    ~Open(c) /\ \A d \in requests : d.kind = "delete" /\ d.conv = c => d.step \notin {"sent", "unlisted"}

WriteFile(c, content) ==
    /\ md' = [md EXCEPT ![c] = content] /\ written' = written \cup content
    /\ leaked' = IF Abandoned(c) THEN leaked \cup (content \cap Attachments) ELSE leaked

SaveFile(r) ==
    /\ r.kind \in {"first", "save"} /\ r.step = "sent" /\ locked = NoRequest
    /\ WriteFile(r.conv, r.content)
    /\ Step(r, "written") /\ locked' = [r EXCEPT !.step = "written"]
    /\ revived' = IF \E d \in requests : d.kind = "delete" /\ d.conv = r.conv /\ d.step = "unlisted"
                  THEN revived \cup {r.conv} ELSE revived
    /\ UNCHANGED <<listed, files, pageVars, used, excused>>

\* The answer to the first save starts the run and marks the conversation,
\* unless the socket broke meanwhile.
SaveIndex(r) ==
    /\ locked = r /\ locked' = NoRequest /\ Drop(r)
    /\ listed' = listed \cup {r.conv}
    /\ \/ /\ r.kind = "first" /\ untitled' = untitled \cup {r.conv} /\ MarkDirty(r.conv)
          /\ UNCHANGED owner
       \/ /\ r.kind = "first" /\ owner' = NoConv /\ UNCHANGED <<untitled, dirty, excused>>
       \/ /\ r.kind = "save" /\ UNCHANGED <<owner, untitled, dirty, excused>>
    /\ UNCHANGED <<md, files, page, composer, used, written, revived, leaked>>

(* generate_conversation_title *)

\* The messages are read before the model is asked, outside the lock; without
\* any the request fails.
TitleRead(r) ==
    /\ r.kind = "title" /\ r.step = "sent"
    /\ IF md[r.conv] = NoFile
        THEN Drop(r)
        ELSE requests' = (requests \ {r}) \cup {[r EXCEPT !.step = "read", !.content = md[r.conv]]}
    /\ UNCHANGED <<diskVars, locked, pageVars, used, written, excused, revived, leaked>>

\* They are written back with the title, unless the conversation is gone.
TitleWrite(r) ==
    /\ r.kind = "title" /\ r.step = "read" /\ locked = NoRequest
    /\ IF r.conv \in listed
        THEN WriteFile(r.conv, r.content) /\ Step(r, "titled")
        ELSE Drop(r) /\ UNCHANGED <<md, written, leaked>>
    /\ UNCHANGED <<listed, files, locked, pageVars, used, excused, revived>>

\* The model fails, or the answer is an error: the page does nothing.
TitleFailed(r) ==
    /\ r.kind = "title" /\ r.step = "read" /\ Drop(r)
    /\ UNCHANGED <<diskVars, locked, pageVars, used, written, excused, revived, leaked>>

\* MUTANT of TitleAnswer: the page takes the title and leaves it at that.
TitleAnswerQuiet(r) ==
    /\ r.kind = "title" /\ r.step = "titled" /\ Drop(r)
    /\ UNCHANGED <<diskVars, locked, pageVars, used, written, excused, revived, leaked>>

\* The page shows the title and saves the conversation.
TitleAnswer(r) ==
    /\ r.kind = "title" /\ r.step = "titled" /\ Drop(r) /\ MarkDirty(r.conv)
    /\ UNCHANGED <<diskVars, locked, page, composer, owner, untitled, used, written, revived, leaked>>

(* delete_conversation, delete_attachment and the sweep at the end of both *)

\* MUTANT of DeleteIndex: the lock is not taken.
DeleteIndexUnlocked(r) ==
    /\ r.kind = "delete" /\ r.step = "sent"
    /\ listed' = listed \ {r.conv} /\ Step(r, "unlisted")
    /\ UNCHANGED <<md, files, locked, pageVars, used, written, excused, revived, leaked>>

\* The index under the lock,
DeleteIndex(r) ==
    /\ r.kind = "delete" /\ r.step = "sent" /\ locked = NoRequest
    /\ listed' = listed \ {r.conv} /\ Step(r, "unlisted")
    /\ UNCHANGED <<md, files, locked, pageVars, used, written, excused, revived, leaked>>

\* MUTANT of DeleteFile: no sweep follows.
DeleteFileOnly(r) ==
    /\ r.kind = "delete" /\ r.step = "unlisted"
    /\ md' = [md EXCEPT ![r.conv] = NoFile] /\ Drop(r)
    /\ UNCHANGED <<listed, files, locked, pageVars, used, written, excused, revived, leaked>>

\* the file outside of it.
DeleteFile(r) ==
    /\ r.kind = "delete" /\ r.step = "unlisted"
    /\ md' = [md EXCEPT ![r.conv] = NoFile] /\ Step(r, "unlinked")
    /\ UNCHANGED <<listed, files, locked, pageVars, used, written, excused, revived, leaked>>

DiscardFile(r) ==
    /\ r.kind = "discard" /\ r.step = "sent"
    /\ files' = files \ {r.item} /\ Step(r, "unlinked")
    /\ UNCHANGED <<listed, md, locked, pageVars, used, written, excused, revived, leaked>>

\* The references are collected first,
Scan(r) ==
    /\ r.step = "unlinked"
    /\ requests' = (requests \ {r}) \cup {[r EXCEPT !.step = "scanned", !.content = Referenced]}
    /\ UNCHANGED <<diskVars, locked, pageVars, used, written, excused, revived, leaked>>

\* then every file without one is deleted, however new: the grace is nought.
Sweep(r) ==
    /\ r.step = "scanned" /\ Drop(r)
    /\ files' = files \cap r.content
    /\ UNCHANGED <<listed, md, locked, pageVars, used, written, excused, revived, leaked>>

-----------------------------------------------------------------------------
(* The server dies and starts again: requests fail, the lock is gone, and the  *)
(* sweep at the start takes files older than a week.  Nothing stays unsaved on *)
(* a page for a week.                                                          *)
ConvRestart ==
    /\ requests' = {} /\ locked' = NoRequest
    /\ \E aged \in SUBSET (files \ (Referenced \cup OnPage)) :
        files' = files \ aged
    /\ leaked' = leaked \cup (files' \ (Referenced \cup OnPage))
    /\ owner' = IF owner # NoConv /\ ~Running(owner) THEN NoConv ELSE owner
    /\ excused' = excused \cup {r.conv : r \in {q \in requests : q.kind \in {"first", "save", "title"}}}
    /\ UNCHANGED <<listed, md, page, composer, dirty, untitled, used, written, revived>>

ConvNext ==
    \/ \E c \in Convs : Start(c) \/ Send(c) \/ Reply(c) \/ End(c) \/ Delete(c)
    \/ Persist
    \/ \E a \in Attachments : Upload(a) \/ Discard(a)
    \/ \E r \in requests :
        \/ Uploaded(r) \/ SaveFile(r) \/ SaveIndex(r)
        \/ TitleRead(r) \/ TitleWrite(r) \/ TitleFailed(r) \/ TitleAnswer(r)
        \/ DeleteIndex(r) \/ DeleteFile(r) \/ DiscardFile(r) \/ Scan(r) \/ Sweep(r)

ConvSpec == ConvInit /\ [][ConvNext]_convVars

-----------------------------------------------------------------------------
\* The index lists no conversation without a file, whatever dies in between,
\* unless a save of it fell into the middle of its deletion.
ListedHasFile == \A c \in listed : md[c] = NoFile => c \in revived

\* When nothing is under way for a conversation, the disk has what the page
\* shows: a title that was made from older messages has been saved over, and
\* only overtaken saves, a second mark before the first was seen, and requests
\* that died with the server may leave a difference.
SavedAsShown ==
    \A c \in Convs \ excused :
        (Open(c) /\ dirty # c /\ \A r \in requests : r.conv # c)
            => c \in listed /\ md[c] = page[c]

\* When every request is answered, each attachment file belongs to a message or
\* to the composer: deleting a conversation leaves none of its files behind,
\* unless the server died, or a save or a title of it was written later.
NoLeftovers == requests = {} => files \subseteq (Referenced \cup OnPage \cup leaked)
=============================================================================
