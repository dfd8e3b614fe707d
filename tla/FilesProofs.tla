----------------------------- MODULE FilesProofs -----------------------------
(***************************************************************************)
(* One file as any number of browsers edit it: no save is lost, and a      *)
(* cache whose feed is up is told of what changed.                         *)
(*                                                                         *)
(* NoSaveIsLost rests on Knowing: an etag that a browser holds, or has     *)
(* sent, is behind the disk, or its editor was given what is there; and    *)
(* who is inside the lock has seen what other browsers saved, as they      *)
(* cannot save meanwhile.  CacheIsTold needs Told to say the same of the   *)
(* answer that is about to fill the cache.                                 *)
(***************************************************************************)
EXTENDS FilesProperties, TLAPS

Save == [at : {"idle", "sent", "write", "create", "writing", "creating", "replacing",
               "saved", "answered", "failed", "delete", "deleted"},
         etag : Versions \cup {None}, found : Versions \cup {None}]
Fetch == [at : {"idle", "read", "half", "stat", "bytes", "entry", "failed", "gone"},
          etag : Versions \cup {None}, data : Versions \cup {None}, fresh : BOOLEAN]
Content == [data : Versions \cup {None}, meta : Versions \cup {None}, read : BOOLEAN]

\* A read takes the entry, then the bytes.
Fetched(b) ==
  /\ fetch[b].at \in {"half", "bytes"} => fetch[b].etag <= disk
  /\ fetch[b].at = "bytes" => /\ fetch[b].data \in Versions
                              /\ fetch[b].etag <= fetch[b].data /\ fetch[b].data <= disk

\* With no event on its way, what is cached or about to be is what is there.
Told(b) ==
  link[b] = "up" /\ news[b] = 0 =>
    /\ content[b].read => content[b].data = disk
    /\ fetch[b].at = "bytes" /\ fetch[b].fresh => fetch[b].data = disk

\* Version v is behind, or the editor of b has what another browser saved.
Seen(b, v) == v <= disk /\ (v = disk /\ disk \in own => disk \in known[b])

Knowing(b) ==
  /\ Seen(b, base[b])
  /\ saving[b].at \in {"sent", "write", "answered"} => Seen(b, saving[b].etag)
  /\ saving[b].at \in {"writing", "replacing", "saved"} => Seen(b, disk)

Fine(b) == Fetched(b) /\ Told(b) /\ Knowing(b)

\* Nothing is marked that is not on the disk yet.
Past == \A v \in own \cup blind : v <= disk

\* The inductive invariant.
FilesInv == FilesTypeOK /\ (\A b \in Browsers : Fine(b)) /\ Past /\ NoSaveIsLost

\* All that a step may change of y, against x, is what it says of b.
Only(b, x, y) == \A j \in Browsers : j # b => y[j] = x[j]

Inside == {"writing", "creating", "replacing", "saved"}

-----------------------------------------------------------------------------
(* Steps of one browser that leave the file alone *)

LEMMA LocalStep ==
  ASSUME FilesInv, NEW b \in Browsers,
         saving' \in [Browsers -> Save], Only(b, saving, saving'),
         fetch' \in [Browsers -> Fetch], Only(b, fetch, fetch'),
         base' \in [Browsers -> Versions \cup {None}], Only(b, base, base'),
         stat' \in [Browsers -> Versions \cup {None}], Only(b, stat, stat'),
         content' \in [Browsers -> Content], Only(b, content, content'),
         link' \in [Browsers -> {"down", "up", "broken", "never"}], Only(b, link, link'),
         news' \in [Browsers -> Nat], Only(b, news, news'),
         known' \in [Browsers -> SUBSET Versions], Only(b, known, known'),
         calls' \in [Browsers -> Nat],
         lock' = lock \/ (lock = Nobody /\ lock' = b) \/ (lock = b /\ lock' = Nobody),
         lock' = b <=> saving'[b].at \in Inside,
         UNCHANGED <<disk, present, own, blind>>,
         Fine(b)'
  PROVE  FilesInv'
<1>1. FilesTypeOK
  BY DEF FilesInv
<1>2. \A j \in Browsers : lock' = j <=> saving'[j].at \in Inside
  BY <1>1, FilesAssumption DEF FilesTypeOK, Only, Inside
<1>3. FilesTypeOK'
  BY <1>1, <1>2 DEF FilesTypeOK, Save, Fetch, Content, Inside
<1>4. ASSUME NEW j \in Browsers PROVE Fine(j)'
  <2>1. CASE j = b
    BY <2>1
  <2>2. CASE j # b
    <3>1. Fine(j)
      BY DEF FilesInv
    <3>2. /\ saving'[j] = saving[j] /\ fetch'[j] = fetch[j] /\ base'[j] = base[j]
          /\ content'[j] = content[j] /\ link'[j] = link[j] /\ news'[j] = news[j]
          /\ known'[j] = known[j]
      BY <2>2 DEF Only
    <3>. QED BY <3>1, <3>2 DEF Fine, Fetched, Told, Knowing, Seen
  <2>. QED BY <2>1, <2>2
<1>5. Past' /\ NoSaveIsLost'
  BY DEF FilesInv, Past, NoSaveIsLost
<1>. QED BY <1>3, <1>4, <1>5 DEF FilesInv

\* The types of the invariant, by the names above.
LEMMA Typed ==
  ASSUME FilesInv
  PROVE  /\ disk \in Versions /\ disk \in Nat /\ disk > 0 /\ FilesTypeOK
         /\ saving \in [Browsers -> Save] /\ fetch \in [Browsers -> Fetch]
         /\ content \in [Browsers -> Content]
         /\ base \in [Browsers -> Versions \cup {None}]
         /\ stat \in [Browsers -> Versions \cup {None}]
         /\ link \in [Browsers -> {"down", "up", "broken", "never"}]
         /\ news \in [Browsers -> Nat] /\ calls \in [Browsers -> Nat]
         /\ known \in [Browsers -> SUBSET Versions]
         /\ \A b \in Browsers : lock = b <=> saving[b].at \in Inside
  BY FilesAssumption DEF FilesInv, FilesTypeOK, Save, Fetch, Content, Inside, Versions

LEMMA StaleMark ==
  ASSUME FilesInv, NEW b \in Browsers, MarkStale(b)
  PROVE  /\ fetch' \in [Browsers -> Fetch] /\ Only(b, fetch, fetch')
         /\ fetch'[b].fresh = FALSE /\ fetch'[b].at = fetch[b].at
         /\ fetch'[b].etag = fetch[b].etag /\ fetch'[b].data = fetch[b].data
<1>. DEFINE f == [fetch[b] EXCEPT !.fresh = FALSE]
<1>1. fetch[b] \in Fetch
  BY Typed
<1>2. /\ f \in Fetch /\ f.fresh = FALSE /\ f.at = fetch[b].at
      /\ f.etag = fetch[b].etag /\ f.data = fetch[b].data
  BY <1>1 DEF Fetch
<1>3. fetch' = [fetch EXCEPT ![b] = f]
  BY DEF MarkStale
<1>. HIDE DEF f
<1>. QED BY <1>2, <1>3, Typed DEF Only

\* What the caches are after an invalidation.
LEMMA Invalidated ==
  ASSUME FilesInv, NEW b \in Browsers, Invalidate(b)
  PROVE  /\ stat' \in [Browsers -> Versions \cup {None}] /\ Only(b, stat, stat')
         /\ content' \in [Browsers -> Content] /\ Only(b, content, content')
         /\ fetch' \in [Browsers -> Fetch] /\ Only(b, fetch, fetch')
         /\ base' \in [Browsers -> Versions \cup {None}] /\ Only(b, base, base')
         /\ base'[b] = base[b] /\ content'[b].read = FALSE /\ fetch'[b].fresh = FALSE
         /\ fetch'[b].at = fetch[b].at /\ fetch'[b].etag = fetch[b].etag
         /\ fetch'[b].data = fetch[b].data
<1>1. stat' \in [Browsers -> Versions \cup {None}] /\ Only(b, stat, stat')
  BY Typed DEF Invalidate, Only
<1>2. NoContent \in Content /\ NoContent.read = FALSE
  BY DEF NoContent, Content
<1>3. /\ content' \in [Browsers -> Content] /\ Only(b, content, content')
      /\ content'[b].read = FALSE
  BY <1>2, Typed DEF Invalidate, Only
<1>4. /\ fetch' \in [Browsers -> Fetch] /\ Only(b, fetch, fetch')
      /\ fetch'[b].fresh = FALSE /\ fetch'[b].at = fetch[b].at
      /\ fetch'[b].etag = fetch[b].etag /\ fetch'[b].data = fetch[b].data
  BY Typed, StaleMark DEF Invalidate
<1>. QED BY <1>1, <1>3, <1>4, Typed DEF Invalidate, Only

-----------------------------------------------------------------------------
(* Reading *)

\* Only the request in flight changes.
LEMMA FetchGoesOn ==
  ASSUME FilesInv, NEW b \in Browsers, NEW f \in Fetch,
         fetch' = [fetch EXCEPT ![b] = f],
         f.at \in {"half", "bytes"} => f.etag <= disk,
         f.at = "bytes" => f.data = disk,
         calls' \in [Browsers -> Nat],
         UNCHANGED <<files, saving, caches, link, news, marks>>
  PROVE  FilesInv'
<1>. USE DEF files, caches, marks
<1>1. /\ fetch' \in [Browsers -> Fetch] /\ fetch'[b] = f /\ Only(b, fetch, fetch')
      /\ disk \in Versions /\ disk \in Nat
  BY Typed DEF Only
<1>2. Fine(b)
  BY DEF FilesInv
<1>3. Fine(b)'
  BY <1>1, <1>2 DEF Fine, Fetched, Told, Knowing, Seen
<1>4. lock' = b <=> saving'[b].at \in Inside
  BY Typed
<1>. QED BY <1>1, <1>3, <1>4, Typed, LocalStep DEF Only

LEMMA CallsCounted ==
  ASSUME FilesInv, NEW b \in Browsers, Calls(b)
  PROVE  calls' \in [Browsers -> Nat]
  BY Typed DEF Calls

LEMMA FetchBegun ==
  ASSUME FilesInv, NEW b \in Browsers, FetchBegin(b)
  PROVE  FilesInv'
<1>1. ASSUME NEW p \in {"read", "stat"},
             fetch' = [fetch EXCEPT ![b].at = p, ![b].fresh = TRUE]
      PROVE  FilesInv'
  <2>. DEFINE f == [fetch[b] EXCEPT !.at = p, !.fresh = TRUE]
  <2>1. fetch[b] \in Fetch
    BY Typed
  <2>2. f \in Fetch /\ f.at = p
    BY <2>1 DEF Fetch
  <2>3. fetch' = [fetch EXCEPT ![b] = f]
    BY <1>1
  <2>. HIDE DEF f
  <2>. QED BY <1>1, <2>2, <2>3, CallsCounted, FetchGoesOn DEF FetchBegin
<1>. QED BY <1>1 DEF FetchBegin

LEMMA FetchAnswered ==
  ASSUME FilesInv, NEW b \in Browsers, FetchServed(b)
  PROVE  FilesInv'
<1>. DEFINE f == fetch[b]
<1>1. f \in Fetch /\ disk \in Versions /\ disk <= disk /\ calls' \in [Browsers -> Nat]
  BY Typed DEF FetchServed
<1>2. f.at = "half" => f.etag <= disk
  BY DEF FilesInv, Fine, Fetched
<1>3. CASE ~present
  <2>. DEFINE g == [f EXCEPT !.at = IF f.at = "stat" THEN "gone" ELSE "failed"]
  <2>1. fetch' = [fetch EXCEPT ![b] = g]
    BY <1>3 DEF FetchServed
  <2>2. g \in Fetch /\ g.at \in {"gone", "failed"}
    BY <1>1 DEF Fetch
  <2>. HIDE DEF g
  <2>. QED BY <1>1, <2>1, <2>2, FetchGoesOn DEF FetchServed
<1>4. CASE present /\ f.at = "read"
  <2>. DEFINE g == [[f EXCEPT !.etag = disk] EXCEPT !.at = "half"]
  <2>1. fetch' = [fetch EXCEPT ![b] = g]
    BY <1>4 DEF FetchServed, EntryThenBytes
  <2>2. g \in Fetch /\ g.at = "half" /\ g.etag = disk
    BY <1>1 DEF Fetch
  <2>. HIDE DEF g
  <2>. QED BY <1>1, <2>1, <2>2, FetchGoesOn DEF FetchServed
<1>5. CASE present /\ f.at = "half"
  <2>. DEFINE g == [[f EXCEPT !.data = disk] EXCEPT !.at = "bytes"]
  <2>1. fetch' = [fetch EXCEPT ![b] = g]
    BY <1>5 DEF FetchServed, EntryThenBytes
  <2>2. g \in Fetch /\ g.at = "bytes" /\ g.data = disk /\ g.etag = f.etag
    BY <1>1 DEF Fetch
  <2>3. g.etag <= disk
    BY <1>2, <1>5, <2>2
  <2>. HIDE DEF g
  <2>. QED BY <1>1, <2>1, <2>2, <2>3, FetchGoesOn DEF FetchServed
<1>6. CASE present /\ f.at = "stat"
  <2>. DEFINE g == [f EXCEPT !.etag = disk, !.at = "entry"]
  <2>1. fetch' = [fetch EXCEPT ![b] = g]
    BY <1>6 DEF FetchServed
  <2>2. g \in Fetch /\ g.at = "entry"
    BY <1>1 DEF Fetch
  <2>. HIDE DEF g
  <2>. QED BY <1>1, <2>1, <2>2, FetchGoesOn DEF FetchServed
<1>. QED BY <1>3, <1>4, <1>5, <1>6 DEF FetchServed

\* The caches, when an answer fills them.
LEMMA Remembered ==
  ASSUME FilesInv, NEW b \in Browsers, NEW etag \in Versions \cup {None},
         NEW data \in Versions \cup {None}, NEW read \in BOOLEAN,
         Remember(b, etag, data, read)
  PROVE  /\ stat' \in [Browsers -> Versions \cup {None}] /\ Only(b, stat, stat')
         /\ content' \in [Browsers -> Content] /\ Only(b, content, content')
         /\ base' \in [Browsers -> Versions \cup {None}] /\ Only(b, base, base')
         /\ base'[b] = etag /\ content'[b].read = read /\ content'[b].data = data
<1>. DEFINE c == [data |-> data, meta |-> etag, read |-> read]
<1>1. c \in Content /\ c.read = read /\ c.data = data
  BY DEF Content
<1>2. content' = [content EXCEPT ![b] = c]
  BY DEF Remember
<1>3. /\ content' \in [Browsers -> Content] /\ Only(b, content, content')
      /\ content'[b].read = read /\ content'[b].data = data
  <2>. HIDE DEF c
  <2>. QED BY <1>1, <1>2, Typed DEF Only
<1>. QED BY <1>3, Typed DEF Remember, Only

\* ... and when the path is forgotten.
LEMMA Forgotten ==
  ASSUME FilesInv, NEW b \in Browsers, Forget(b)
  PROVE  /\ stat' \in [Browsers -> Versions \cup {None}] /\ Only(b, stat, stat')
         /\ content' \in [Browsers -> Content] /\ Only(b, content, content')
         /\ base' \in [Browsers -> Versions \cup {None}] /\ Only(b, base, base')
         /\ base'[b] = None /\ content'[b].read = FALSE
<1>1. NoContent \in Content /\ NoContent.read = FALSE
  BY DEF NoContent, Content
<1>. QED BY <1>1, Typed DEF Forget, Only

LEMMA NoFetchTyped ==
  ASSUME FilesInv, NEW b \in Browsers, fetch' = [fetch EXCEPT ![b] = NoFetch]
  PROVE  fetch' \in [Browsers -> Fetch] /\ Only(b, fetch, fetch') /\ fetch'[b].at = "idle"
<1>1. NoFetch \in Fetch /\ NoFetch.at = "idle"
  BY DEF NoFetch, Fetch
<1>. QED BY <1>1, Typed DEF Only

LEMMA FetchEnds ==
  ASSUME FilesInv, NEW b \in Browsers, ReadDone(b) \/ StatDone(b) \/ FetchFails(b)
  PROVE  FilesInv'
<1>. USE DEF files, caches, marks
<1>1. /\ fetch' \in [Browsers -> Fetch] /\ Only(b, fetch, fetch') /\ fetch'[b].at = "idle"
      /\ UNCHANGED <<files, saving, link, news, own, blind, calls>>
  BY NoFetchTyped DEF ReadDone, StatDone, FetchFails
<1>2. Fine(b) /\ disk \in Nat /\ fetch[b] \in Fetch
  BY Typed DEF FilesInv
<1>3. CASE ReadDone(b)
  <2>1. /\ known' \in [Browsers -> SUBSET Versions] /\ Only(b, known, known')
        /\ known[b] \subseteq known'[b] /\ fetch[b].data \in known'[b]
    BY <1>2, <1>3, Typed DEF ReadDone, Gives, Only, Fine, Fetched
  <2>2. CASE fetch[b].fresh
    <3>1. fetch[b].etag \in Versions \cup {None} /\ fetch[b].data \in Versions \cup {None}
      BY <1>2 DEF Fetch
    <3>2. /\ stat' \in [Browsers -> Versions \cup {None}] /\ Only(b, stat, stat')
          /\ content' \in [Browsers -> Content] /\ Only(b, content, content')
          /\ base' \in [Browsers -> Versions \cup {None}] /\ Only(b, base, base')
          /\ base'[b] = fetch[b].etag /\ content'[b].data = fetch[b].data
      <4>1. Remember(b, fetch[b].etag, fetch[b].data, TRUE) /\ TRUE \in BOOLEAN
        BY <1>3, <2>2 DEF ReadDone
      <4>. QED BY <3>1, <4>1, Remembered, Zenon
    <3>3. Fetched(b)' /\ Told(b)'
      BY <1>1, <1>2, <1>3, <2>2, <3>2 DEF ReadDone, Fine, Fetched, Told
    <3>4. /\ fetch[b].etag <= disk'
          /\ fetch[b].etag = disk' /\ disk' \in own' => disk' \in known'[b]
      <4>1. /\ fetch[b].etag <= fetch[b].data /\ fetch[b].data <= disk
            /\ fetch[b].etag \in Nat /\ fetch[b].data \in Nat
        BY <1>2, <1>3, <3>1, FilesAssumption
           DEF ReadDone, Fine, Fetched, Versions, None
      <4>2. fetch[b].etag <= disk /\ (fetch[b].etag = disk => fetch[b].data = disk)
        BY <1>2, <4>1
      <4>. QED BY <1>1, <2>1, <4>2
    <3>5. Knowing(b)'
      BY <1>1, <1>2, <2>1, <3>2, <3>4 DEF Fine, Knowing, Seen
    <3>. QED BY <1>1, <2>1, <3>2, <3>3, <3>5, Typed, LocalStep DEF Fine, Only
  <2>3. CASE ~fetch[b].fresh
    <3>1. UNCHANGED caches
      BY <1>3, <2>3 DEF ReadDone
    <3>2. Fine(b)'
      BY <1>1, <1>2, <2>1, <3>1 DEF Fine, Fetched, Told, Knowing, Seen
    <3>. QED BY <1>1, <2>1, <3>1, <3>2, Typed, LocalStep DEF Only
  <2>. QED BY <2>2, <2>3
<1>4. CASE StatDone(b)
  <2>1. /\ stat' \in [Browsers -> Versions \cup {None}] /\ Only(b, stat, stat')
        /\ content' \in [Browsers -> Content] /\ Only(b, content, content')
        /\ content'[b] \in {content[b], NoContent}
    <3>1. NoContent \in Content /\ fetch[b].etag \in Versions \cup {None}
      BY <1>2 DEF NoContent, Content, Fetch
    <3>. QED BY <1>4, <3>1, Typed DEF StatDone, Only
  <2>2. NoContent.read = FALSE
    BY DEF NoContent
  <2>3. Fine(b)'
    BY <1>1, <1>2, <1>4, <2>1, <2>2 DEF StatDone, Fine, Fetched, Told, Knowing, Seen
  <2>. QED BY <1>1, <1>4, <2>1, <2>3, Typed, LocalStep DEF StatDone, Only
<1>5. CASE FetchFails(b)
  <2>1. /\ stat' \in [Browsers -> Versions \cup {None}] /\ Only(b, stat, stat')
        /\ content' \in [Browsers -> Content] /\ Only(b, content, content')
        /\ base' \in [Browsers -> Versions \cup {None}] /\ Only(b, base, base')
        /\ base'[b] \in {base[b], None} /\ (content'[b].read => content'[b] = content[b])
    BY <1>5, Forgotten, Typed DEF FetchFails, Only
  <2>2. Seen(b, None)
    BY Typed DEF Seen, None
  <2>3. Fine(b)'
    BY <1>1, <1>2, <1>5, <2>1, <2>2 DEF FetchFails, Fine, Fetched, Told, Knowing, Seen
  <2>. QED BY <1>1, <1>5, <2>1, <2>3, Typed, LocalStep DEF FetchFails, Only
<1>. QED BY <1>3, <1>4, <1>5

LEMMA CacheRead ==
  ASSUME FilesInv, NEW b \in Browsers, ReadCached(b)
  PROVE  FilesInv'
<1>. USE DEF ReadCached, files, caches
<1>1. content[b].data \in Versions
  BY Typed DEF Hit, Content
<1>2. /\ known' \in [Browsers -> SUBSET Versions] /\ Only(b, known, known')
      /\ known[b] \subseteq known'[b]
  BY <1>1, Typed DEF Gives, Only
<1>3. Fine(b)'
  BY <1>2 DEF FilesInv, Fine, Fetched, Told, Knowing, Seen
<1>. QED BY <1>2, <1>3, Typed, LocalStep DEF Only
-----------------------------------------------------------------------------
(* Saving *)

\* Only the call and the lock change.
LEMMA SaveGoesOn ==
  ASSUME FilesInv, NEW b \in Browsers, NEW s \in Save,
         saving' = [saving EXCEPT ![b] = s],
         s.at \in {"sent", "write", "answered"} => Seen(b, s.etag),
         s.at \in {"writing", "replacing", "saved"} => Seen(b, disk),
         lock' = lock \/ (lock = Nobody /\ lock' = b) \/ (lock = b /\ lock' = Nobody),
         lock' = b <=> s.at \in Inside,
         calls' \in [Browsers -> Nat],
         UNCHANGED <<disk, present, fetch, caches, link, news, marks>>
  PROVE  FilesInv'
<1>. USE DEF caches, marks
<1>1. saving' \in [Browsers -> Save] /\ saving'[b] = s /\ Only(b, saving, saving')
  BY Typed DEF Only
<1>2. Fine(b)
  BY DEF FilesInv
<1>3. Fine(b)'
  BY <1>1, <1>2 DEF Fine, Fetched, Told, Knowing, Seen
<1>. QED BY <1>1, <1>3, Typed, LocalStep DEF Only

\* What is known of the call of b.
LEMMA SaveTyped ==
  ASSUME FilesInv, NEW b \in Browsers
  PROVE  /\ saving[b] \in Save /\ base[b] \in Versions \cup {None} /\ Seen(b, base[b])
         /\ saving[b].at \in {"sent", "write", "answered"} => Seen(b, saving[b].etag)
         /\ saving[b].at \in {"writing", "replacing", "saved"} => Seen(b, disk)
         /\ lock = b <=> saving[b].at \in Inside
         /\ disk \in Versions /\ calls \in [Browsers -> Nat] /\ b # Nobody
  BY Typed, FilesAssumption DEF FilesInv, Fine, Knowing

\* A call that goes on as it is, outside of the lock or leaving it.
LEMMA SavePlaced ==
  ASSUME FilesInv, NEW b \in Browsers, NEW p \in {"write", "create", "failed", "delete"},
         Goes(b, p),
         p = "write" => saving[b].at = "sent",
         IF saving[b].at \in Inside THEN lock' = Nobody ELSE lock' = lock,
         calls' \in [Browsers -> Nat],
         UNCHANGED <<disk, present, fetch, caches, link, news, marks>>
  PROVE  FilesInv'
<1>. DEFINE s == [saving[b] EXCEPT !.at = p]
<1>1. s \in Save /\ s.at = p /\ s.etag = saving[b].etag
  BY SaveTyped DEF Save
<1>2. saving' = [saving EXCEPT ![b] = s]
  BY DEF Goes
<1>3. lock' = lock \/ (lock = b /\ lock' = Nobody)
  BY SaveTyped
<1>4. lock' # b /\ s.at \notin Inside
  BY <1>1, SaveTyped DEF Inside
<1>. HIDE DEF s
<1>5. s.at \in {"sent", "write", "answered"} => Seen(b, s.etag)
  BY <1>1, SaveTyped
<1>. QED BY <1>1, <1>2, <1>3, <1>4, <1>5, SaveGoesOn

LEMMA SaveBegun ==
  ASSUME FilesInv, NEW b \in Browsers, SaveBegin(b) \/ DeleteBegin(b)
  PROVE  FilesInv'
<1>. USE DEF files
<1>1. calls' \in [Browsers -> Nat]
  BY CallsCounted DEF SaveBegin, DeleteBegin
<1>2. CASE SaveBegin(b)
  <2>. DEFINE s == [saving[b] EXCEPT !.at = "sent", !.etag = base[b]]
  <2>1. s \in Save /\ s.at = "sent" /\ s.etag = base[b]
    BY SaveTyped DEF Save
  <2>2. saving' = [saving EXCEPT ![b] = s]
    BY <1>2 DEF SaveBegin
  <2>3. lock' = lock /\ lock # b /\ s.at \notin Inside
    BY <1>2, <2>1, SaveTyped DEF SaveBegin, Inside
  <2>. HIDE DEF s
  <2>. QED BY <1>1, <1>2, <2>1, <2>2, <2>3, SaveTyped, SaveGoesOn DEF SaveBegin
<1>3. CASE DeleteBegin(b)
  BY <1>1, <1>3, SavePlaced DEF DeleteBegin, Inside
<1>. QED BY <1>2, <1>3

LEMMA SaveWorks ==
  ASSUME FilesInv, NEW b \in Browsers,
         SaveChecked(b) \/ SaveLocks(b) \/ SaveRechecks(b) \/ SaveBreaks(b) \/ SaveAnswers(b)
  PROVE  FilesInv'
<1>. USE DEF files, Fails, Unlock
<1>1. calls' \in [Browsers -> Nat] /\ saving[b] \in Save /\ disk \in Versions
  BY SaveTyped DEF SaveChecked, SaveLocks, SaveRechecks, SaveBreaks, SaveAnswers
<1>2. CASE SaveChecked(b)
  BY <1>1, <1>2, SavePlaced DEF SaveChecked, Inside
<1>3. CASE SaveLocks(b)
  <2>1. CASE Fails(b) /\ UNCHANGED lock
    BY <1>1, <1>3, <2>1, SavePlaced DEF SaveLocks, Inside
  <2>2. CASE /\ saving[b].at = "write" => ExpectedRevision(b)
             /\ lock' = b
             /\ saving' = [saving EXCEPT ![b].at =
                    IF @ = "write" THEN "writing" ELSE "creating", ![b].found = disk]
    <3>. DEFINE s == [saving[b] EXCEPT !.at = IF @ = "write" THEN "writing" ELSE "creating",
                                       !.found = disk]
    <3>1. /\ s \in Save /\ s.at \in {"writing", "creating"}
          /\ s.at = "writing" => saving[b].at = "write"
      BY <1>1 DEF Save
    <3>2. saving' = [saving EXCEPT ![b] = s]
      BY <2>2
    <3>3. s.at \in Inside
      BY <3>1 DEF Inside
    <3>. HIDE DEF s
    <3>4. s.at = "writing" => Seen(b, disk)
      BY <2>2, <3>1, SaveTyped DEF ExpectedRevision
    <3>. QED BY <1>1, <1>3, <2>2, <3>1, <3>2, <3>3, <3>4, SaveGoesOn DEF SaveLocks
  <2>. QED BY <1>3, <2>1, <2>2 DEF SaveLocks
<1>4. CASE SaveRechecks(b)
  <2>1. CASE Fails(b) /\ Unlock
    BY <1>1, <1>4, <2>1, SavePlaced DEF SaveRechecks, Inside
  <2>2. CASE Goes(b, "replacing") /\ UNCHANGED lock
    <3>. DEFINE s == [saving[b] EXCEPT !.at = "replacing"]
    <3>1. s \in Save /\ s.at = "replacing"
      BY <1>1 DEF Save
    <3>2. saving' = [saving EXCEPT ![b] = s]
      BY <2>2 DEF Goes
    <3>3. s.at \in Inside /\ lock = b /\ Seen(b, disk)
      BY <1>4, <3>1, SaveTyped DEF SaveRechecks, Inside
    <3>. HIDE DEF s
    <3>. QED BY <1>1, <1>4, <2>2, <3>1, <3>2, <3>3, SaveGoesOn DEF SaveRechecks
  <2>. QED BY <1>4, <2>1, <2>2 DEF SaveRechecks
<1>5. CASE SaveBreaks(b)
  BY <1>1, <1>5, SavePlaced DEF SaveBreaks, Inside
<1>6. CASE SaveAnswers(b)
  <2>. DEFINE s == [saving[b] EXCEPT !.at = IF present THEN "answered" ELSE "failed",
                                     !.etag = disk]
  <2>1. s \in Save /\ s.at \in {"answered", "failed"} /\ s.etag = disk
    BY <1>1 DEF Save
  <2>2. saving' = [saving EXCEPT ![b] = s]
    BY <1>6 DEF SaveAnswers
  <2>3. s.at \notin Inside /\ lock = b /\ lock' = Nobody /\ b # Nobody /\ Seen(b, disk)
    BY <1>6, <2>1, SaveTyped DEF SaveAnswers, Inside
  <2>. HIDE DEF s
  <2>. QED BY <1>1, <1>6, <2>1, <2>2, <2>3, SaveGoesOn DEF SaveAnswers
<1>. QED BY <1>2, <1>3, <1>4, <1>5, <1>6

LEMMA NoSaveTyped ==
  ASSUME FilesInv, NEW b \in Browsers, saving' = [saving EXCEPT ![b] = NoSave]
  PROVE  saving' \in [Browsers -> Save] /\ Only(b, saving, saving') /\ saving'[b].at = "idle"
<1>1. NoSave \in Save /\ NoSave.at = "idle"
  BY DEF NoSave, Save
<1>. QED BY <1>1, Typed DEF Only

LEMMA SaveEnds ==
  ASSUME FilesInv, NEW b \in Browsers, SaveDone(b) \/ DeleteDone(b) \/ CallFails(b)
  PROVE  FilesInv'
<1>. USE DEF files, marks
<1>1. /\ saving' \in [Browsers -> Save] /\ Only(b, saving, saving') /\ saving'[b].at = "idle"
      /\ UNCHANGED <<files, link, news, marks, calls>>
  BY NoSaveTyped DEF SaveDone, DeleteDone, CallFails
<1>2. Fine(b) /\ disk \in Nat /\ saving[b] \in Save
  BY Typed DEF FilesInv
<1>3. lock # b /\ lock' = lock /\ saving'[b].at \notin Inside
  BY <1>1, SaveTyped DEF SaveDone, DeleteDone, CallFails, Inside
<1>4. CASE CallFails(b)
  <2>1. Fine(b)'
    BY <1>1, <1>2, <1>4 DEF CallFails, caches, Fine, Fetched, Told, Knowing, Seen
  <2>. QED BY <1>1, <1>3, <1>4, <2>1, Typed, LocalStep DEF CallFails, caches, Only
<1>5. CASE SaveDone(b) \/ DeleteDone(b)
  <2>1. /\ fetch' \in [Browsers -> Fetch] /\ Only(b, fetch, fetch')
        /\ fetch'[b].fresh = FALSE /\ fetch'[b].at = fetch[b].at
        /\ fetch'[b].etag = fetch[b].etag /\ fetch'[b].data = fetch[b].data
    BY <1>5, StaleMark DEF SaveDone, DeleteDone
  <2>2. /\ stat' \in [Browsers -> Versions \cup {None}] /\ Only(b, stat, stat')
        /\ content' \in [Browsers -> Content] /\ Only(b, content, content')
        /\ base' \in [Browsers -> Versions \cup {None}] /\ Only(b, base, base')
        /\ content'[b].read = FALSE /\ Seen(b, base'[b])
    <3>1. CASE SaveDone(b)
      <4>1. /\ saving[b].etag \in Versions \cup {None} /\ saving[b].found \in Versions \cup {None}
            /\ Seen(b, saving[b].etag)
        BY <1>2, <3>1, SaveTyped DEF SaveDone, Save
      <4>. QED BY <3>1, <4>1, Remembered DEF SaveDone
    <3>2. CASE DeleteDone(b)
      <4>1. Seen(b, None)
        BY Typed DEF Seen, None
      <4>. QED BY <3>2, <4>1, Forgotten DEF DeleteDone
    <3>. QED BY <1>5, <3>1, <3>2
  <2>3. Fine(b)'
    BY <1>1, <1>2, <2>1, <2>2 DEF Fine, Fetched, Told, Knowing, Seen
  <2>. QED BY <1>1, <1>3, <2>1, <2>2, <2>3, Typed, LocalStep DEF Only
<1>. QED BY <1>4, <1>5, <1>1

-----------------------------------------------------------------------------
(* The feed of a browser *)

LEMMA FeedSteps ==
  ASSUME FilesInv, NEW b \in Browsers, Listens(b)
  PROVE  FilesInv'
<1>. USE DEF files, caches, marks
<1>1. Fine(b) /\ news[b] \in Nat /\ UNCHANGED <<files, saving, marks, calls>>
  BY Typed DEF FilesInv, Listens, Connect, Breaks, Hears, Disconnect, Resume
<1>2. CASE Connect(b) \/ Breaks(b)
  <2>1. /\ link' \in [Browsers -> {"down", "up", "broken", "never"}] /\ Only(b, link, link')
        /\ news' \in [Browsers -> Nat] /\ Only(b, news, news')
        /\ link'[b] = "up" => news'[b] > 0
    BY <1>1, <1>2, Typed DEF Connect, Breaks, Only
  <2>2. Fine(b)' /\ UNCHANGED <<fetch, caches>>
    BY <1>1, <1>2, <2>1 DEF Connect, Breaks, Fine, Fetched, Told, Knowing, Seen
  <2>. QED BY <1>1, <2>1, <2>2, Typed, LocalStep DEF Only
<1>3. CASE Invalidate(b)
  <2>1. /\ link' \in [Browsers -> {"down", "up", "broken", "never"}] /\ Only(b, link, link')
        /\ news' \in [Browsers -> Nat] /\ Only(b, news, news')
    BY <1>1, Typed DEF Listens, Connect, Breaks, Hears, Disconnect, Resume, Only
  <2>2. Fine(b)'
    BY <1>1, <1>3, Invalidated DEF Fine, Fetched, Told, Knowing, Seen
  <2>. QED BY <1>1, <1>3, <2>1, <2>2, Invalidated, Typed, LocalStep DEF Only
<1>. QED BY <1>2, <1>3 DEF Listens, Hears, Disconnect, Resume
-----------------------------------------------------------------------------
(* The file changes *)

LEMMA ChangeMade ==
  ASSUME FilesInv, NEW there \in BOOLEAN, Change(there)
  PROVE  /\ disk' = disk + 1 /\ disk' \in Versions /\ disk \in Nat /\ present' \in BOOLEAN
         /\ news' \in [Browsers -> Nat]
         /\ \A j \in Browsers : link[j] = "up" => news'[j] > 0
         /\ \A v \in own \cup blind : v # disk + 1
         /\ own \cup blind \subseteq Versions
<1>1. disk' = disk + 1 /\ disk' \in Versions /\ disk \in Nat
  BY Typed, FilesAssumption DEF Change, Versions
<1>2. news' \in [Browsers -> Nat] /\ \A j \in Browsers : link[j] = "up" => news'[j] > 0
  BY Typed DEF Change
<1>3. own \cup blind \subseteq Versions
  BY DEF FilesInv, FilesTypeOK
<1>4. \A v \in own \cup blind : v <= disk /\ v \in Nat
  BY <1>3 DEF FilesInv, Past, Versions
<1>. QED BY <1>1, <1>2, <1>3, <1>4 DEF Change

\* By another program, or by a deletion, which asks for no revision.
LEMMA ChangedByOthers ==
  ASSUME FilesInv, ChangedOutside \/ \E b \in Browsers : DeleteServed(b)
  PROVE  FilesInv'
<1>1. ASSUME NEW there \in BOOLEAN, Change(there),
             saving' \in [Browsers -> Save],
             \A j \in Browsers : saving'[j] = saving[j]
                \/ (saving'[j].at = "deleted" /\ saving[j].at = "delete"),
             UNCHANGED <<lock, fetch, caches, link, marks, calls>>
      PROVE  FilesInv'
  <2>. USE DEF caches, marks
  <2>1. /\ disk' = disk + 1 /\ disk' \in Versions /\ disk \in Nat /\ present' \in BOOLEAN
        /\ news' \in [Browsers -> Nat] /\ \A j \in Browsers : link[j] = "up" => news'[j] > 0
        /\ disk' \notin own /\ own \cup blind \subseteq Versions
    BY <1>1, ChangeMade
  <2>2. \A j \in Browsers : lock' = j <=> saving'[j].at \in Inside
    BY <1>1, Typed DEF Inside
  <2>3. FilesTypeOK'
    BY <1>1, <2>1, <2>2, Typed DEF FilesTypeOK, Save, Fetch, Content, Inside
  <2>4. ASSUME NEW j \in Browsers PROVE Fine(j)'
    <3>1. /\ Fine(j) /\ base[j] \in Nat /\ saving[j].etag \in Nat /\ fetch[j] \in Fetch
          /\ saving'[j].at = saving[j].at => saving'[j] = saving[j]
      BY <1>1, Typed, FilesAssumption DEF FilesInv, Save, Versions, None
    <3>2. fetch[j].etag \in Nat /\ fetch[j].data \in Nat
      BY <3>1, FilesAssumption DEF Fetch, Versions, None
    <3>3. Fetched(j)'
      BY <1>1, <2>1, <3>1, <3>2 DEF Fine, Fetched
    <3>4. Told(j)'
      BY <1>1, <2>1 DEF Told
    <3>5. Knowing(j)'
      <4>1. Seen(j, disk)'
        BY <1>1, <2>1 DEF Seen
      <4>2. Seen(j, base[j])'
        BY <1>1, <2>1, <3>1 DEF Seen, Fine, Knowing
      <4>3. saving'[j].at \in {"sent", "write", "answered"} => Seen(j, saving[j].etag)'
        BY <1>1, <2>1, <3>1 DEF Seen, Fine, Knowing
      <4>. QED BY <4>1, <4>2, <4>3 DEF Knowing
    <3>. QED BY <3>3, <3>4, <3>5 DEF Fine
  <2>5. Past' /\ NoSaveIsLost'
    <3>1. \A v \in own \cup blind : v <= disk /\ v \in Nat
      BY <2>1 DEF FilesInv, Past, Versions
    <3>. QED BY <1>1, <2>1, <3>1 DEF FilesInv, Past, NoSaveIsLost
  <2>. QED BY <2>3, <2>4, <2>5 DEF FilesInv
<1>2. CASE ChangedOutside
  <2>1. PICK there \in BOOLEAN : Change(there)
    BY <1>2 DEF ChangedOutside
  <2>. QED BY <1>1, <1>2, <2>1, Typed DEF ChangedOutside
<1>3. ASSUME NEW b \in Browsers, DeleteServed(b) PROVE FilesInv'
  <2>1. CASE Change(FALSE) /\ Goes(b, "deleted")
    <3>. DEFINE s == [saving[b] EXCEPT !.at = "deleted"]
    <3>1. s \in Save /\ s.at = "deleted"
      BY SaveTyped DEF Save
    <3>2. saving' = [saving EXCEPT ![b] = s]
      BY <2>1 DEF Goes
    <3>. HIDE DEF s
    <3>3. /\ saving' \in [Browsers -> Save] /\ saving'[b].at = "deleted"
          /\ saving[b].at = "delete" /\ \A j \in Browsers : j # b => saving'[j] = saving[j]
      BY <1>3, <3>1, <3>2, Typed DEF DeleteServed
    <3>. QED BY <1>1, <1>3, <2>1, <3>3 DEF DeleteServed
  <2>2. CASE Fails(b) /\ UNCHANGED <<disk, present, news>>
    <3>1. saving[b].at = "delete" /\ lock' = lock /\ UNCHANGED <<fetch, caches, link, marks, calls>>
      BY <1>3 DEF DeleteServed
    <3>. QED BY <2>2, <3>1, SavePlaced, Typed DEF Fails, Inside
  <2>. QED BY <1>3, <2>1, <2>2 DEF DeleteServed
<1>. QED BY <1>2, <1>3

\* By a save, which holds the lock: no other save is inside.
LEMMA ChangedBySave ==
  ASSUME FilesInv, NEW b \in Browsers, SaveReplaces(b) \/ SaveCreates(b)
  PROVE  FilesInv'
<1>. USE DEF caches
<1>. DEFINE s == [saving[b] EXCEPT !.at = "saved", !.found = disk + 1]
<1>1. /\ Change(TRUE) /\ saving' = [saving EXCEPT ![b] = s]
      /\ own' = own \cup {disk + 1} /\ Gives(b, disk + 1)
      /\ UNCHANGED <<lock, fetch, caches, link, calls>>
  BY DEF SaveReplaces, SaveCreates, Saved
<1>2. /\ disk' = disk + 1 /\ disk' \in Versions /\ disk \in Nat /\ present' \in BOOLEAN
      /\ news' \in [Browsers -> Nat] /\ \A j \in Browsers : link[j] = "up" => news'[j] > 0
      /\ disk' \notin own \cup blind /\ own \cup blind \subseteq Versions
  BY <1>1, ChangeMade
<1>3. s \in Save /\ s.at = "saved"
  BY <1>2, SaveTyped DEF Save
<1>. HIDE DEF s
<1>4. /\ saving' \in [Browsers -> Save] /\ saving'[b].at = "saved"
      /\ \A j \in Browsers : j # b => saving'[j] = saving[j]
  BY <1>1, <1>3, Typed
<1>5. lock = b /\ saving[b].at \in {"replacing", "creating"}
  BY SaveTyped DEF SaveReplaces, SaveCreates, Inside
<1>6. /\ known' \in [Browsers -> SUBSET Versions] /\ disk' \in known'[b]
      /\ \A j \in Browsers : known[j] \subseteq known'[j]
  BY <1>1, <1>2, Typed DEF Gives
<1>7. blind' = blind \/ (blind' = blind \cup {disk} /\ disk \notin own)
  <2>1. CASE SaveCreates(b)
    BY <2>1 DEF SaveCreates
  <2>2. CASE SaveReplaces(b)
    <3>1. Seen(b, disk)
      BY <2>2, SaveTyped DEF SaveReplaces
    <3>. QED BY <2>2, <3>1 DEF SaveReplaces, Seen
  <2>. QED BY <2>1, <2>2
<1>8. \A j \in Browsers : lock' = j <=> saving'[j].at \in Inside
  BY <1>1, <1>4, <1>5, Typed DEF Inside
<1>9. FilesTypeOK'
  BY <1>1, <1>2, <1>4, <1>6, <1>7, <1>8, Typed DEF FilesTypeOK, Save, Fetch, Content, Inside
<1>10. ASSUME NEW j \in Browsers PROVE Fine(j)'
  <2>1. /\ Fine(j) /\ base[j] \in Nat /\ saving[j].etag \in Nat /\ fetch[j] \in Fetch
    BY Typed, FilesAssumption DEF FilesInv, Save, Versions, None
  <2>2. fetch[j].etag \in Nat /\ fetch[j].data \in Nat
    BY <2>1, FilesAssumption DEF Fetch, Versions, None
  <2>3. Fetched(j)'
    BY <1>1, <1>2, <2>1, <2>2 DEF Fine, Fetched
  <2>4. Told(j)'
    BY <1>1, <1>2 DEF Told
  <2>5. Seen(j, base[j])'
    BY <1>1, <1>2, <2>1 DEF Seen, Fine, Knowing
  <2>6. CASE j = b
    <3>1. Seen(j, disk)'
      BY <1>2, <1>6, <2>6 DEF Seen
    <3>. QED BY <1>4, <2>3, <2>4, <2>5, <2>6, <3>1 DEF Fine, Knowing
  <2>7. CASE j # b
    <3>1. saving'[j] = saving[j] /\ saving[j].at \notin Inside
      BY <1>4, <1>5, <2>7, Typed
    <3>2. saving'[j].at \in {"sent", "write", "answered"} => Seen(j, saving[j].etag)'
      BY <1>2, <2>1, <3>1 DEF Seen, Fine, Knowing
    <3>. QED BY <2>3, <2>4, <2>5, <3>1, <3>2 DEF Fine, Knowing, Inside
  <2>. QED BY <2>6, <2>7
<1>11. Past' /\ NoSaveIsLost'
  <2>1. \A v \in own \cup blind : v <= disk /\ v \in Nat
    BY <1>2 DEF FilesInv, Past, Versions
  <2>. QED BY <1>1, <1>2, <1>7, <2>1 DEF FilesInv, Past, NoSaveIsLost
<1>. QED BY <1>9, <1>10, <1>11 DEF FilesInv

-----------------------------------------------------------------------------

LEMMA FilesInvInit == FilesInit => FilesInv
<1>. SUFFICES ASSUME FilesInit PROVE FilesInv
  OBVIOUS
<1>1. PICK s \in Scenarios : link = s.link /\ calls = s.calls /\ disk = s.disk
  BY DEF FilesInit
<1>2. /\ link \in [Browsers -> {"down", "up", "never"}] /\ calls \in [Browsers -> Nat]
      /\ disk \in Versions
  BY <1>1, FilesAssumption
<1>3. disk \in Nat /\ None <= disk /\ None # disk
  BY <1>2, FilesAssumption DEF Versions, None
<1>4. /\ NoSave.at = "idle" /\ NoSave \in Save /\ NoFetch.at = "idle" /\ NoFetch \in Fetch
      /\ NoContent.read = FALSE /\ NoContent \in Content
  BY DEF NoSave, NoFetch, NoContent, Save, Fetch, Content
<1>5. FilesTypeOK
  BY <1>2, <1>4, FilesAssumption DEF FilesInit, FilesTypeOK, Save, Fetch, Content
<1>6. ASSUME NEW b \in Browsers PROVE Fine(b)
  BY <1>3, <1>4 DEF FilesInit, Fine, Fetched, Told, Knowing, Seen
<1>7. Past /\ NoSaveIsLost
  BY DEF FilesInit, Past, NoSaveIsLost
<1>. QED BY <1>5, <1>6, <1>7 DEF FilesInv

LEMMA FilesInvStep == FilesInv /\ [FilesNext]_filesVars => FilesInv'
<1>. SUFFICES ASSUME FilesInv, [FilesNext]_filesVars PROVE FilesInv'
  OBVIOUS
<1>1. CASE ChangedOutside
  BY <1>1, ChangedByOthers
<1>2. ASSUME NEW b \in Browsers, Fetches(b) PROVE FilesInv'
  BY <1>2, CacheRead, FetchBegun, FetchAnswered, FetchEnds DEF Fetches
<1>3. ASSUME NEW b \in Browsers, Saves(b) PROVE FilesInv'
  BY <1>3, SaveBegun, SaveWorks, ChangedBySave, SaveEnds DEF Saves
<1>4. ASSUME NEW b \in Browsers, Deletes(b) PROVE FilesInv'
  BY <1>4, SaveBegun, ChangedByOthers, SaveEnds DEF Deletes
<1>5. ASSUME NEW b \in Browsers, Listens(b) PROVE FilesInv'
  BY <1>5, FeedSteps
<1>6. CASE UNCHANGED filesVars
  <2>. USE <1>6 DEF filesVars, files, caches, marks
  <2>1. FilesTypeOK'
    BY DEF FilesInv, FilesTypeOK
  <2>2. ASSUME NEW b \in Browsers PROVE Fine(b)'
    <3>1. Fine(b)
      BY DEF FilesInv
    <3>. QED BY <3>1 DEF Fine, Fetched, Told, Knowing, Seen
  <2>3. Past' /\ NoSaveIsLost'
    BY DEF FilesInv, Past, NoSaveIsLost
  <2>. QED BY <2>1, <2>2, <2>3 DEF FilesInv
<1>. QED BY <1>1, <1>2, <1>3, <1>4, <1>5, <1>6 DEF FilesNext

(* The inductive invariant holds of every state the editing can be in.       *)
THEOREM FilesInvariant == FilesSpec => []FilesInv
  BY FilesInvInit, FilesInvStep, PTL DEF FilesSpec

(* Every variable keeps its type, and the lock of the Store is held by the   *)
(* one call that is inside it (Store.locks).                                 *)
THEOREM FilesTypes == FilesSpec => []FilesTypeOK
<1>1. FilesInv => FilesTypeOK
  BY DEF FilesInv
<1>. QED BY <1>1, FilesInvariant, PTL

(* What another browser saved is replaced only by a save whose editor was    *)
(* given it (Store.Read, Store.Write), for any number of browsers.           *)
THEOREM SavesAreKept == FilesSpec => []NoSaveIsLost
<1>1. FilesInv => NoSaveIsLost
  BY DEF FilesInv
<1>. QED BY <1>1, FilesInvariant, PTL

(* Bytes that a read cached are those on the disk while the feed is up, or   *)
(* an event that drops them is on its way (applyWorkspaceChange).            *)
THEOREM CachesAreTold == FilesSpec => []CacheIsTold
<1>1. ASSUME FilesInv PROVE CacheIsTold
  <2>. SUFFICES ASSUME NEW b \in Browsers, link[b] = "up", content[b].read,
                       content[b].data # disk
                PROVE  news[b] > 0
    BY DEF CacheIsTold
  <2>1. Told(b) /\ news[b] \in Nat
    BY <1>1, Typed DEF FilesInv, Fine
  <2>. QED BY <2>1 DEF Told
<1>. QED BY <1>1, FilesInvariant, PTL
==============================================================================
