-------------------------- MODULE FilesProperties --------------------------
(* What the editing of a workspace's files promises.                         *)
EXTENDS WorkbenchFiles

(* Every variable keeps its type, and the lock of the Store is held by one   *)
(* whose call is inside it.                                                  *)
FilesTypeOK ==
  /\ disk \in Versions /\ present \in BOOLEAN
  /\ lock \in Browsers \cup {Nobody}
  /\ saving \in [Browsers ->
        [at : {"idle", "sent", "write", "create", "writing", "creating", "replacing",
               "saved", "answered", "failed", "delete", "deleted"},
         etag : Versions \cup {None}, found : Versions \cup {None}]]
  /\ fetch \in [Browsers ->
        [at : {"idle", "read", "half", "stat", "bytes", "entry", "failed", "gone"},
         etag : Versions \cup {None}, data : Versions \cup {None},
         fresh : BOOLEAN]]
  /\ base \in [Browsers -> Versions \cup {None}]
  /\ stat \in [Browsers -> Versions \cup {None}]
  /\ content \in [Browsers -> [data : Versions \cup {None},
                               meta : Versions \cup {None}, read : BOOLEAN]]
  /\ link \in [Browsers -> {"down", "up", "broken", "never"}]
  /\ news \in [Browsers -> Nat]
  /\ calls \in [Browsers -> Nat]
  /\ known \in [Browsers -> SUBSET Versions]
  /\ own \subseteq Versions /\ blind \subseteq Versions
  /\ \A b \in Browsers : lock = b <=>
        saving[b].at \in {"writing", "creating", "replacing", "saved"}

(* No save of a browser is lost: what another browser saved is replaced only *)
(* by a save whose editor had been given it.  The etag a save sends, the     *)
(* lock, and the order in which a read takes the revision and the bytes are  *)
(* what this rests on.                                                       *)
NoSaveIsLost == blind \cap own = {}

(* Bytes that a read cached are those on the disk while the feed is up, or   *)
(* an event that drops them is on its way: no answer that was in flight when *)
(* an event came fills the cache again, and what changed while the feed was  *)
(* down goes with the rescan that begins the next one.                       *)
CacheIsTold ==
  \A b \in Browsers :
     link[b] = "up" /\ content[b].read /\ content[b].data # disk => news[b] > 0

(* What docs/requirement/20260717-workbench-external-file-freshness.md asks: *)
(* a browser whose feed is up and quiet does not go on showing an old file.  *)
QuietCacheIsCurrent ==
  \A b \in Browsers :
     link[b] = "up" /\ news[b] = 0 /\ saving[b].at = "idle" /\ fetch[b].at = "idle"
     /\ Hit(b) => content[b].data = disk
==============================================================================
