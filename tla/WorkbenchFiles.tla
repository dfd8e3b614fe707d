--------------------------- MODULE WorkbenchFiles ---------------------------
(* One file of a workspace as browsers edit it: the Store of the Agent       *)
(* (workspacefile/store.go behind application/user/runtime_file_git.go), the *)
(* caching provider of each browser (web/src/features/workbench/             *)
(* platformFileSystemProvider.ts), the feed that tells it of changes         *)
(* (api.ts, subscribeWorkspaceChanges), and programs that change the file    *)
(* behind them.  A version stands for content and revision: the revision is  *)
(* a hash of the content, the times and the path.                            *)
EXTENDS Naturals, FiniteSets

CONSTANTS
  Browsers,
  Scenarios,    \* bound: which feeds are up, down or never asked for, how many
                \*   requests each browser makes, the version it begins with
  MaxVersions,  \* bound: versions of the file
  Nobody

Versions == 1 .. MaxVersions
None == 0       \* no version: nothing cached, no etag

ASSUME FilesAssumption ==
  /\ MaxVersions \in Nat \ {0}
  /\ Scenarios \subseteq [link : [Browsers -> {"down", "up", "never"}],
                          calls : [Browsers -> Nat], disk : Versions]
  /\ Nobody \notin Browsers

VARIABLES
  disk,     \* the last version; a deletion makes one too
  present,  \* the file exists
  lock,     \* holder of Store.locks[workspace]
  saving,   \* browser -> its writeFile or delete: place, etag sent or answered,
            \*   version found or made
  fetch,    \* browser -> its readFile or stat: place, versions of the entry and
            \*   of the bytes, whether the epochs are those of its start
  base,     \* browser -> writeBaseEtags[path]
  stat,     \* browser -> stats[path]
  content,  \* browser -> contents[path]: version of the bytes, and of the stat
            \*   they go with, and whether a read got them, not a save
  link,     \* browser -> its watch socket: "down", "up", "broken",
            \*   or "never"
  news,     \* browser -> events on their way
  calls,    \* browser -> requests it still makes (bound)
  known,    \* browser -> versions its editor was given or wrote (auxiliary)
  own,      \* versions that are saves of a browser (auxiliary)
  blind     \* versions a save replaced that its editor had not seen (auxiliary)

files  == <<disk, present, lock>>
caches == <<base, stat, content>>
marks  == <<known, own, blind>>
filesVars == <<files, saving, fetch, caches, link, news, marks, calls>>

NoSave    == [at |-> "idle", etag |-> None, found |-> None]
NoFetch   == [at |-> "idle", etag |-> None, data |-> None, fresh |-> FALSE]
NoContent == [data |-> None, meta |-> None, read |-> FALSE]

FilesInit ==
  /\ present = TRUE /\ lock = Nobody
  /\ saving = [b \in Browsers |-> NoSave]
  /\ fetch = [b \in Browsers |-> NoFetch]
  /\ base = [b \in Browsers |-> None]
  /\ stat = [b \in Browsers |-> None]
  /\ content = [b \in Browsers |-> NoContent]
  /\ news = [b \in Browsers |-> 0]
  /\ \E s \in Scenarios : link = s.link /\ calls = s.calls /\ disk = s.disk
  /\ known = [b \in Browsers |-> {}]
  /\ own = {} /\ blind = {}

------------------------------------------------------------------------------
(* The file changes, and every live feed gets an event.                      *)

Change(there) ==
  /\ disk < MaxVersions
  /\ disk' = disk + 1
  /\ present' = there
  /\ news' = [b \in Browsers |-> IF link[b] = "up" THEN news[b] + 1 ELSE news[b]]

\* a request leaves the browser
Calls(b) == calls[b] > 0 /\ calls' = [calls EXCEPT ![b] = @ - 1]

\* an editor, a terminal, git: the lock of the Store is not theirs
ChangedOutside ==
  /\ \E there \in BOOLEAN : (present \/ there) /\ Change(there)
  /\ UNCHANGED <<lock, saving, fetch, caches, link, marks, calls>>

------------------------------------------------------------------------------
(* The caches of the provider.  An epoch counts invalidations; of it only    *)
(* matters whether it moved since a request began.                           *)

NotStale(b) == UNCHANGED fetch  \* mutant: the request in flight is not marked
MarkStale(b) == fetch' = [fetch EXCEPT ![b].fresh = FALSE]

\* applyWorkspaceChange and rescanRequired: what is cached goes, the base stays
Invalidate(b) ==
  /\ stat' = [stat EXCEPT ![b] = None]
  /\ content' = [content EXCEPT ![b] = NoContent]
  /\ MarkStale(b)
  /\ UNCHANGED base

Forget(b) ==
  /\ stat' = [stat EXCEPT ![b] = None]
  /\ content' = [content EXCEPT ![b] = NoContent]
  /\ base' = [base EXCEPT ![b] = None]

\* rememberStat, then rememberContent
Remember(b, etag, data, read) ==
  /\ stat' = [stat EXCEPT ![b] = etag]
  /\ content' = [content EXCEPT ![b] = [data |-> data, meta |-> etag,
                                       read |-> read]]
  /\ base' = [base EXCEPT ![b] = etag]

Gives(b, v) == known' = [known EXCEPT ![b] = @ \cup {v}]

------------------------------------------------------------------------------
(* readFile and stat.  A call that finds one in flight joins it; one of the  *)
(* two at a time is enough here.                                             *)

\* cachedContent: the bytes, if they go with the stat that is cached
Hit(b) == content[b].data # None /\ stat[b] \in {None, content[b].meta}

ReadCached(b) ==
  /\ Hit(b)
  /\ Gives(b, content[b].data)
  /\ UNCHANGED <<files, saving, fetch, caches, link, news, own, blind, calls>>

FetchBegin(b) ==
  /\ fetch[b].at = "idle"
  /\ \/ ~Hit(b) /\ fetch' = [fetch EXCEPT ![b].at = "read", ![b].fresh = TRUE]
     \/ /\ stat[b] = None
        /\ fetch' = [fetch EXCEPT ![b].at = "stat", ![b].fresh = TRUE]
  /\ Calls(b)
  /\ UNCHANGED <<files, saving, caches, link, news, marks>>

BytesThenEntry(f, step) ==  \* mutant: Store.Read stats what it has read
  IF step = 2 THEN [f EXCEPT !.etag = disk] ELSE [f EXCEPT !.data = disk]

\* Store.Read: the entry, whose revision is the etag, then the bytes
EntryThenBytes(f, step) ==
  IF step = 1 THEN [f EXCEPT !.etag = disk] ELSE [f EXCEPT !.data = disk]

\* the two steps of the Store take no lock
FetchServed(b) ==
  /\ fetch[b].at \in {"read", "half", "stat"}
  /\ LET f == fetch[b] IN fetch' = [fetch EXCEPT ![b] =
       IF ~present THEN [f EXCEPT !.at = IF f.at = "stat" THEN "gone" ELSE "failed"]
       ELSE CASE f.at = "read" -> [EntryThenBytes(f, 1) EXCEPT !.at = "half"]
              [] f.at = "half" -> [EntryThenBytes(f, 2) EXCEPT !.at = "bytes"]
              [] f.at = "stat" -> [f EXCEPT !.etag = disk, !.at = "entry"]]
  /\ UNCHANGED <<files, saving, caches, link, news, marks, calls>>

\* the answer of readFile: cached only if no epoch moved
ReadDone(b) ==
  /\ fetch[b].at = "bytes"
  /\ LET f == fetch[b] IN
     /\ IF f.fresh THEN Remember(b, f.etag, f.data, TRUE) ELSE UNCHANGED caches
     /\ Gives(b, f.data)
  /\ fetch' = [fetch EXCEPT ![b] = NoFetch]
  /\ UNCHANGED <<files, saving, link, news, own, blind, calls>>

\* the answer of stat; rememberStat drops content of another version
StatDone(b) ==
  /\ fetch[b].at = "entry"
  /\ IF fetch[b].fresh
     THEN /\ stat' = [stat EXCEPT ![b] = fetch[b].etag]
          /\ content' = [content EXCEPT ![b] = IF @.meta = fetch[b].etag THEN @
                                              ELSE NoContent]
     ELSE UNCHANGED <<stat, content>>
  /\ fetch' = [fetch EXCEPT ![b] = NoFetch]
  /\ UNCHANGED <<files, saving, base, link, news, marks, calls>>

\* an error: readFile leaves the caches alone, stat forgets the path
FetchFails(b) ==
  /\ fetch[b].at \in {"failed", "gone"}
  /\ IF fetch[b].at = "gone" THEN Forget(b) ELSE UNCHANGED caches
  /\ fetch' = [fetch EXCEPT ![b] = NoFetch]
  /\ UNCHANGED <<files, saving, link, news, marks, calls>>

------------------------------------------------------------------------------
(* writeFile: FsWriteFile looks whether the file exists, then Store.Write or *)
(* Store.CreateFile works under the lock of the workspace.                   *)

StaysLocked == UNCHANGED lock  \* mutant: a return without the deferred unlock
Unlock == lock' = Nobody

Goes(b, place) == saving' = [saving EXCEPT ![b].at = place]
Fails(b) == Goes(b, "failed")

SaveBegin(b) ==
  /\ saving[b].at = "idle"
  /\ saving' = [saving EXCEPT ![b].at = "sent", ![b].etag = base[b]]
  /\ Calls(b)
  /\ UNCHANGED <<files, fetch, caches, link, news, marks>>

\* create and overwrite are the caller's: a call without them may fail here
SaveChecked(b) ==
  /\ saving[b].at = "sent"
  /\ \/ present /\ saving[b].etag # None /\ Goes(b, "write")
     \/ ~present /\ Goes(b, "create")
     \/ Fails(b)
  /\ UNCHANGED <<files, fetch, caches, link, news, marks, calls>>

ExpectedRevision(b) == disk = saving[b].etag

\* the lock, the entry, and for Write its revision
SaveLocks(b) ==
  /\ saving[b].at \in {"write", "create"}
  /\ lock = Nobody
  /\ IF IF saving[b].at = "write" THEN present /\ ExpectedRevision(b) ELSE ~present
     THEN /\ lock' = b
          /\ saving' = [saving EXCEPT ![b].at =
                 IF @ = "write" THEN "writing" ELSE "creating", ![b].found = disk]
     ELSE Fails(b) /\ UNCHANGED lock
  /\ UNCHANGED <<disk, present, fetch, caches, link, news, marks, calls>>

\* root.write: the temporary file is written, the revision read again
SaveRechecks(b) ==
  /\ saving[b].at = "writing"
  /\ IF present /\ disk = saving[b].found
     THEN Goes(b, "replacing") /\ UNCHANGED lock
     ELSE Fails(b) /\ Unlock
  /\ UNCHANGED <<disk, present, fetch, caches, link, news, marks, calls>>

\* the file of this browser is there
Saved(b) ==
  /\ Change(TRUE)
  /\ saving' = [saving EXCEPT ![b].at = "saved", ![b].found = disk + 1]
  /\ own' = own \cup {disk + 1}
  /\ Gives(b, disk + 1)

\* os.Rename over whatever is there
SaveReplaces(b) ==
  /\ saving[b].at = "replacing"
  /\ Saved(b)
  /\ blind' = IF present /\ disk \notin known[b] THEN blind \cup {disk} ELSE blind
  /\ UNCHANGED <<lock, fetch, caches, link, calls>>

\* O_EXCL; that the file is empty for a moment is left out
SaveCreates(b) ==
  /\ saving[b].at = "creating"
  /\ ~present
  /\ Saved(b)
  /\ UNCHANGED <<lock, blind, fetch, caches, link, calls>>

\* an error of the file system, or a file that appeared before it was created
SaveBreaks(b) ==
  /\ saving[b].at \in {"writing", "replacing", "creating"}
  /\ Fails(b)
  /\ Unlock
  /\ UNCHANGED <<disk, present, fetch, caches, link, news, marks, calls>>

\* the entry of what is there now is the answer
SaveAnswers(b) ==
  /\ saving[b].at = "saved"
  /\ saving' = [saving EXCEPT ![b].at = IF present THEN "answered" ELSE "failed",
                             ![b].etag = disk]
  /\ Unlock
  /\ UNCHANGED <<disk, present, fetch, caches, link, news, marks, calls>>

\* the answer fills the caches, whatever happened since the call
SaveDone(b) ==
  /\ saving[b].at = "answered"
  /\ Remember(b, saving[b].etag, saving[b].found, FALSE)
  /\ MarkStale(b)
  /\ saving' = [saving EXCEPT ![b] = NoSave]
  /\ UNCHANGED <<files, link, news, marks, calls>>

------------------------------------------------------------------------------
\* delete: no revision is asked for

DeleteBegin(b) ==
  /\ saving[b].at = "idle"
  /\ Goes(b, "delete")
  /\ Calls(b)
  /\ UNCHANGED <<files, fetch, caches, link, news, marks>>

DeleteServed(b) ==
  /\ saving[b].at = "delete"
  /\ lock = Nobody
  /\ \/ present /\ Change(FALSE) /\ Goes(b, "deleted")
     \/ ~present /\ Fails(b) /\ UNCHANGED <<disk, present, news>>
  /\ UNCHANGED <<lock, fetch, caches, link, marks, calls>>

DeleteDone(b) ==
  /\ saving[b].at = "deleted"
  /\ Forget(b)
  /\ MarkStale(b)
  /\ saving' = [saving EXCEPT ![b] = NoSave]
  /\ UNCHANGED <<files, link, news, marks, calls>>

\* an error, or an answer that was lost, changes no cache
CallFails(b) ==
  /\ saving[b].at \in {"failed", "answered", "deleted"}
  /\ saving' = [saving EXCEPT ![b] = NoSave]
  /\ UNCHANGED <<files, fetch, caches, link, news, marks, calls>>

------------------------------------------------------------------------------
(* subscribeWorkspaceChanges.  The feed ends with its socket, with a rescan  *)
(* or when a rename is seen; the browser invalidates and connects again.     *)

\* the endpoint subscribes, then its first event is a rescan
Connect(b) ==
  /\ link[b] = "down"
  /\ link' = [link EXCEPT ![b] = "up"]
  /\ news' = [news EXCEPT ![b] = @ + 1]
  /\ UNCHANGED <<files, saving, fetch, caches, marks, calls>>

Breaks(b) ==
  /\ link[b] = "up"
  /\ link' = [link EXCEPT ![b] = "broken"]
  /\ UNCHANGED <<files, saving, fetch, caches, news, marks, calls>>

Hears(b) ==
  /\ news[b] > 0
  /\ news' = [news EXCEPT ![b] = @ - 1]
  /\ Invalidate(b)
  /\ UNCHANGED <<files, saving, link, marks, calls>>

\* disconnect: invalidate, then connect again after a delay
Disconnect(b) ==
  /\ link[b] = "broken"
  /\ link' = [link EXCEPT ![b] = "down"]
  /\ news' = [news EXCEPT ![b] = 0]
  /\ Invalidate(b)
  /\ UNCHANGED <<files, saving, marks, calls>>

\* bindExternalResume: the user is back at the tab
Resume(b) ==
  /\ Invalidate(b)
  /\ UNCHANGED <<files, saving, link, news, marks, calls>>

------------------------------------------------------------------------------
Fetches(b) ==
  ReadCached(b) \/ FetchBegin(b) \/ FetchServed(b) \/ ReadDone(b) \/ StatDone(b)
  \/ FetchFails(b)

Saves(b) ==
  SaveBegin(b) \/ SaveChecked(b) \/ SaveLocks(b) \/ SaveRechecks(b) \/ SaveReplaces(b)
  \/ SaveCreates(b) \/ SaveBreaks(b) \/ SaveAnswers(b) \/ SaveDone(b)

Deletes(b) == DeleteBegin(b) \/ DeleteServed(b) \/ DeleteDone(b) \/ CallFails(b)

Listens(b) == Connect(b) \/ Breaks(b) \/ Hears(b) \/ Disconnect(b) \/ Resume(b)

FilesNext ==
  \/ ChangedOutside
  \/ \E b \in Browsers : Fetches(b) \/ Saves(b) \/ Deletes(b) \/ Listens(b)

FilesSpec == FilesInit /\ [][FilesNext]_filesVars
==============================================================================
