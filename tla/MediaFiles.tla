----------------------------- MODULE MediaFiles -----------------------------
(***************************************************************************)
(* The media service: uploads, the processor that cleans an original of    *)
(* its metadata and makes its previews, and the cleaner of orphans.        *)
(*                                                                         *)
(* rows     the table media; "old" is a row older than MEDIA_ORPHAN_TTL    *)
(* objects  the bucket: <<media, 0>> is the original, <<media, s>> the     *)
(*          preview of size s; "raw" has the metadata of the camera        *)
(* mail     the media.uploaded messages, and how often each may be given   *)
(* inbox    processed_events of the consumer media-processor               *)
(* work     of each goroutine, the message or the sweep it has in hand     *)
(*                                                                         *)
(* A picture is its longer side; 0 is one that does not decode.            *)
(***************************************************************************)
EXTENDS StoreRequests

CONSTANTS Goroutine, PreviewSizes, AllowedTypes, MaxSizeBytes, MaxPerAd, MaxDeliver, Batch

ASSUME MediaAssumption == /\ PreviewSizes \subseteq Nat \ {0} /\ IsFiniteSet(PreviewSizes)
                          /\ MaxPerAd \in Nat /\ MaxDeliver \in Nat /\ Batch \in Nat \ {0}

VARIABLES rows, objects, mail, inbox, work

(* History.                                                                *)
VARIABLES
  told,      \* <<event, media>> of the outbox, with how often it was written
  given,     \* media whose message has gone to the dead letters
  crowded,   \* ads to which two uploads were made at once
  torn,      \* media whose row and objects were parted by a failure
  spilled    \* media of which an object may be left without a row

mediaTables == <<rows, objects, mail, inbox, work>>
mediaHistory == <<told, given, crowded, torn, spilled>>
mediaVars == <<mediaTables, mediaHistory>>

MediaInit ==
  /\ rows = <<>> /\ objects = <<>> /\ mail = {} /\ inbox = {}
  /\ work = [w \in Goroutine |-> Idle]
  /\ told = <<>> /\ given = {} /\ crowded = {} /\ torn = {} /\ spilled = {}

Without(f, keys) == [k \in DOMAIN f \ keys |-> f[k]]
Tell(e) == told' = Put(told, e, IF e \in DOMAIN told THEN told[e] + 1 ELSE 1)

(***************************************************************************)
(* POST /media.                                                            *)
(***************************************************************************)
ValidateUpload(f) == f.size \in 1..MaxSizeBytes /\ f.type \in AllowedTypes

Upload(q, f) ==
  /\ Fresh(q) /\ May("uploads") /\ Spend("uploads")
  /\ Turn(q, IF ~ValidateUpload(f) THEN Done
             ELSE [op |-> "upload", step |-> IF f.ad = None THEN "put" ELSE "count", file |-> f])
  /\ UNCHANGED mediaVars

OfAd(a) == {m \in DOMAIN rows : rows[m].ad = a}
Counted(a) == {p \in Request : /\ req[p].op = "upload" /\ req[p].file.ad = a
                               /\ req[p].step \in {"put", "insert"}}

(* Mutant: the limit is compared with the wrong bound.                     *)
CountOneTooMany(q) ==
  LET a == req[q].file.ad IN
  /\ Asks(q, "upload", "count")
  /\ IF Cardinality(OfAd(a)) > MaxPerAd THEN Turn(q, Done) ELSE Proceed(q, "put")
  /\ crowded' = IF Counted(a) # {} THEN crowded \cup {a} ELSE crowded
  /\ UNCHANGED <<budget, mediaTables, told, given, torn, spilled>>

CountByAd(q) ==
  LET a == req[q].file.ad IN
  /\ Asks(q, "upload", "count")
  /\ IF Cardinality(OfAd(a)) >= MaxPerAd THEN Turn(q, Done) ELSE Proceed(q, "put")
  /\ crowded' = IF Counted(a) # {} THEN crowded \cup {a} ELSE crowded
  /\ UNCHANGED <<budget, mediaTables, told, given, torn, spilled>>

PutOriginal(q) ==
  /\ Asks(q, "upload", "put")
  /\ objects' = Put(objects, <<q, 0>>, "raw")
  /\ Proceed(q, "insert")
  /\ UNCHANGED <<budget, rows, mail, inbox, work, mediaHistory>>

Inserted(q) ==
  /\ rows' = Put(rows, q, [ad |-> req[q].file.ad, side |-> req[q].file.side,
                            status |-> "uploaded", previews |-> {}, old |-> FALSE])
  /\ mail' = mail \cup {[media |-> q, left |-> MaxDeliver]}
  /\ Tell(<<"uploaded", q>>)

InsertWithEvent(q) ==
  /\ Asks(q, "upload", "insert")
  /\ Inserted(q) /\ Turn(q, Done)
  /\ UNCHANGED <<budget, objects, inbox, work, given, crowded, torn, spilled>>

(* The INSERT fails; or it is reported as failed, but took place.          *)
InsertFails(q) ==
  /\ Asks(q, "upload", "insert") /\ May("failures") /\ Spend("failures")
  /\ Proceed(q, "compensate")
  /\ UNCHANGED mediaVars

InsertUnknown(q) ==
  /\ Asks(q, "upload", "insert") /\ May("failures") /\ Spend("failures")
  /\ Inserted(q) /\ Proceed(q, "compensate")
  /\ torn' = torn \cup {q}
  /\ UNCHANGED <<objects, inbox, work, given, crowded, spilled>>

(* Mutant: a failed INSERT leaves the object where it is.                  *)
CompensateNothing(q) ==
  /\ Asks(q, "upload", "compensate")
  /\ Turn(q, Done)
  /\ UNCHANGED <<budget, mediaVars>>

Compensate(q) ==
  /\ Asks(q, "upload", "compensate")
  /\ objects' = Without(objects, {<<q, 0>>})
  /\ Turn(q, Done)
  /\ UNCHANGED <<budget, rows, mail, inbox, work, mediaHistory>>

(* The object is not removed, or the process dies.                         *)
UploadDies(q) ==
  /\ req[q].op = "upload" /\ May("failures") /\ Spend("failures")
  /\ Turn(q, Done)
  /\ spilled' = IF <<q, 0>> \in DOMAIN objects THEN spilled \cup {q} ELSE spilled
  /\ UNCHANGED <<mediaTables, told, given, crowded, torn>>

(* GET /media/{id}: the objects the answer points to.                      *)
Shown(m) == {<<m, 0>>} \cup {<<m, s>> : s \in rows[m].previews}

(***************************************************************************)
(* The processor: Handle of media.uploaded, statement by statement.  What  *)
(* the inbox has is acknowledged at once.                                  *)
(***************************************************************************)
In(w, op, step) == work[w].op = op /\ work[w].step = step
Go(w, step) == work' = [work EXCEPT ![w].step = step]
InHand(m) == {w \in Goroutine : work[w].op = "process" /\ work[w].media = m}
MessageOf(w) == {x \in mail : x.media = work[w].media}

Give(w, x) ==
  /\ work[w] = Idle /\ x \in mail /\ x.left > 0
  /\ InHand(x.media) # {} => May("retakes")
  /\ budget' = IF InHand(x.media) = {} THEN budget ELSE [budget EXCEPT !.retakes = @ - 1]
  /\ mail' = (mail \ {x}) \cup {[x EXCEPT !.left = @ - 1]}
  /\ work' = [work EXCEPT ![w] = [op |-> "process", media |-> x.media,
                                 step |-> IF x.media \in inbox THEN "over" ELSE "row"]]
  /\ UNCHANGED <<req, rows, objects, inbox, mediaHistory>>

Acknowledge(w) ==
  /\ In(w, "process", "over")
  /\ mail' = mail \ MessageOf(w)
  /\ work' = [work EXCEPT ![w] = Idle]
  /\ UNCHANGED <<inputs, rows, objects, inbox, mediaHistory>>

(* Mutant: a message whose handler has failed is acknowledged.             *)
HandleForgets(w) ==
  /\ work' = [work EXCEPT ![w] = Idle]
  /\ mail' = mail \ MessageOf(w)
  /\ spilled' = IF work[w].step = "previews" THEN spilled \cup {work[w].media} ELSE spilled
  /\ UNCHANGED <<rows, objects, inbox, told, given, crowded, torn>>

(* The handler returns an error: the message comes again, or has been      *)
(* given often enough and goes to the dead letters.                        *)
HandleFails(w) ==
  LET m == work[w].media
      last == {x \in MessageOf(w) : x.left = 0 /\ InHand(m) = {w}} IN
  /\ work' = [work EXCEPT ![w] = Idle]
  /\ mail' = mail \ last
  /\ given' = given \cup {x.media : x \in last}
  /\ spilled' = IF work[w].step = "previews" THEN spilled \cup {m} ELSE spilled
  /\ UNCHANGED <<rows, objects, inbox, told, crowded, torn>>

(* GetByID: only a row that is still "uploaded" is worked on.              *)
ReadRow(w) ==
  LET m == work[w].media IN
  /\ In(w, "process", "row")
  /\ IF m \in DOMAIN rows /\ rows[m].status = "uploaded"
     THEN work' = [work EXCEPT ![w] = With(@, [step |-> "get", side |-> rows[m].side])]
     ELSE Go(w, "skip")
  /\ UNCHANGED <<inputs, rows, objects, mail, inbox, mediaHistory>>

MarkEventProcessed(w) ==
  /\ In(w, "process", "skip")
  /\ inbox' = inbox \cup {work[w].media}
  /\ Go(w, "over")
  /\ UNCHANGED <<inputs, rows, objects, mail, mediaHistory>>

(* The original is read and decoded; neither may be possible.              *)
GetOriginal(w) ==
  /\ In(w, "process", "get")
  /\ IF <<work[w].media, 0>> \in DOMAIN objects /\ work[w].side # 0
     THEN Go(w, "clean") /\ UNCHANGED <<rows, objects, mail, inbox, mediaHistory>>
     ELSE HandleFails(w)
  /\ UNCHANGED inputs

(* Fit never enlarges: a size that gives the picture of a smaller one is   *)
(* left out.                                                               *)
Fit(side, s) == IF side < s THEN side ELSE s
Previews(side) ==
  {s \in PreviewSizes : \A t \in PreviewSizes : t < s => Fit(side, t) # Fit(side, s)}

(* The original is overwritten without its metadata, under the same key.   *)
CleanOriginal(w) ==
  /\ In(w, "process", "clean")
  /\ objects' = Put(objects, <<work[w].media, 0>>, "clean")
  /\ work' = [work EXCEPT ![w] = With(@, [step |-> "previews", todo |-> Previews(@.side)])]
  /\ UNCHANGED <<inputs, rows, mail, inbox, mediaHistory>>

PutPreview(w) ==
  /\ In(w, "process", "previews") /\ work[w].todo # {}
  /\ LET s == CHOOSE s \in work[w].todo : \A t \in work[w].todo : s <= t IN
     /\ objects' = Put(objects, <<work[w].media, s>>, "clean")
     /\ work' = [work EXCEPT ![w].todo = @ \ {s}]
  /\ UNCHANGED <<inputs, rows, mail, inbox, mediaHistory>>

Swept(m) == \E w \in Goroutine : work[w].op = "sweep" /\ \E c \in work[w].left : c.media = m

(* Mutant: the row lists every size, made or not.                          *)
MarkAllSizes(w) ==
  LET m == work[w].media IN
  /\ In(w, "process", "previews") /\ work[w].todo = {}
  /\ IF m \in DOMAIN rows /\ rows[m].status = "uploaded"
     THEN /\ rows' = [rows EXCEPT ![m].status = "ready", ![m].previews = PreviewSizes]
          /\ Tell(<<"processed", m>>)
     ELSE UNCHANGED <<rows, told>>
  /\ inbox' = inbox \cup {m}
  /\ spilled' = IF m \in DOMAIN rows /\ ~Swept(m) THEN spilled ELSE spilled \cup {m}
  /\ Go(w, "over")
  /\ UNCHANGED <<inputs, objects, mail, given, crowded, torn>>

(* Mutant: the status of the row is not looked at again.                   *)
MarkAnyStatus(w) ==
  LET m == work[w].media IN
  /\ In(w, "process", "previews") /\ work[w].todo = {}
  /\ IF m \in DOMAIN rows
     THEN /\ rows' = [rows EXCEPT ![m].status = "ready", ![m].previews = Previews(work[w].side)]
          /\ Tell(<<"processed", m>>)
     ELSE UNCHANGED <<rows, told>>
  /\ inbox' = inbox \cup {m}
  /\ spilled' = IF m \in DOMAIN rows /\ ~Swept(m) THEN spilled ELSE spilled \cup {m}
  /\ Go(w, "over")
  /\ UNCHANGED <<inputs, objects, mail, given, crowded, torn>>

MarkProcessedWithEvent(w) ==
  LET m == work[w].media IN
  /\ In(w, "process", "previews") /\ work[w].todo = {}
  /\ IF m \in DOMAIN rows /\ rows[m].status = "uploaded"
     THEN /\ rows' = [rows EXCEPT ![m].status = "ready", ![m].previews = Previews(work[w].side)]
          /\ Tell(<<"processed", m>>)
     ELSE UNCHANGED <<rows, told>>
  /\ inbox' = inbox \cup {m}
  /\ spilled' = IF m \in DOMAIN rows /\ ~Swept(m) THEN spilled ELSE spilled \cup {m}
  /\ Go(w, "over")
  /\ UNCHANGED <<inputs, objects, mail, given, crowded, torn>>

(***************************************************************************)
(* The cleaner.  A sweep takes the oldest rows without an ad; of each, the *)
(* objects are removed, then the row.                                      *)
(***************************************************************************)
GrowOld(m) ==
  /\ m \in DOMAIN rows /\ ~rows[m].old
  /\ rows' = [rows EXCEPT ![m].old = TRUE]
  /\ UNCHANGED <<inputs, objects, mail, inbox, work, mediaHistory>>

(* Mutant: only media that became ready are orphans.                       *)
ReadyOrphans == {m \in DOMAIN rows : rows[m].ad = None /\ rows[m].old /\ rows[m].status = "ready"}
Orphans == {m \in DOMAIN rows : rows[m].ad = None /\ rows[m].old}
Oldest(S, n) == {m \in S : Cardinality({k \in S : k < m}) < n}
Copy(m) == [media |-> m, shown |-> Shown(m), keys |-> Shown(m)]

Sweep(w) ==
  /\ work[w] = Idle /\ Orphans # {}
  /\ work' = [work EXCEPT ![w] = [op |-> "sweep", left |-> {Copy(m) : m \in Oldest(Orphans, Batch)}]]
  /\ UNCHANGED <<inputs, rows, objects, mail, inbox, mediaHistory>>

Current(w) == CHOOSE c \in work[w].left : \A d \in work[w].left : c.media <= d.media
Sweeping(w) == work[w].op = "sweep" /\ work[w].left # {}
Rest(w, c) == (work[w].left \ {Current(w)}) \cup c

NextKey(w) == CHOOSE k \in Current(w).keys : \A l \in Current(w).keys : k[2] <= l[2]
WithoutKey(w) == Rest(w, {[Current(w) EXCEPT !.keys = @ \ {NextKey(w)}]})

RemoveBlob(w) ==
  /\ Sweeping(w) /\ Current(w).keys # {}
  /\ objects' = Without(objects, {NextKey(w)})
  /\ work' = [work EXCEPT ![w].left = WithoutKey(w)]
  /\ UNCHANGED <<inputs, rows, mail, inbox, mediaHistory>>

(* A failure is logged, and the sweep goes on.                             *)
RemoveBlobFails(w) ==
  /\ Sweeping(w) /\ Current(w).keys # {} /\ May("failures") /\ Spend("failures")
  /\ work' = [work EXCEPT ![w].left = WithoutKey(w)]
  /\ spilled' = spilled \cup {Current(w).media}
  /\ UNCHANGED <<req, rows, objects, mail, inbox, told, given, crowded, torn>>

(* Mutant: the row is deleted whatever is left of its objects.             *)
DeleteRowFirst(w) ==
  LET m == Current(w).media IN
  /\ Sweeping(w)
  /\ IF m \in DOMAIN rows
     THEN rows' = Without(rows, {m}) /\ Tell(<<"deleted", m>>)
     ELSE UNCHANGED <<rows, told>>
  /\ work' = [work EXCEPT ![w] = IF Rest(w, {}) = {} THEN Idle ELSE [@ EXCEPT !.left = Rest(w, {})]]
  /\ UNCHANGED <<inputs, objects, mail, inbox, given, crowded, torn, spilled>>

(* What a processor has in hand, or has made since the rows were listed,   *)
(* is left behind.                                                         *)
DeleteWithEvent(w) ==
  LET m == Current(w).media IN
  /\ Sweeping(w) /\ Current(w).keys = {}
  /\ IF m \in DOMAIN rows
     THEN /\ rows' = Without(rows, {m}) /\ Tell(<<"deleted", m>>)
          /\ spilled' = IF InHand(m) # {} \/ Shown(m) # Current(w).shown
                        THEN spilled \cup {m} ELSE spilled
     ELSE UNCHANGED <<rows, told, spilled>>
  /\ work' = [work EXCEPT ![w] = IF Rest(w, {}) = {} THEN Idle ELSE [@ EXCEPT !.left = Rest(w, {})]]
  /\ UNCHANGED <<inputs, objects, mail, inbox, given, crowded, torn>>

(* The row stays without its objects, and the sweep goes on; or the        *)
(* process dies.                                                           *)
DeleteFails(w) ==
  /\ Sweeping(w) /\ Current(w).keys = {} /\ May("failures") /\ Spend("failures")
  /\ torn' = torn \cup {Current(w).media}
  /\ work' = [work EXCEPT ![w] = IF Rest(w, {}) = {} THEN Idle ELSE [@ EXCEPT !.left = Rest(w, {})]]
  /\ UNCHANGED <<req, rows, objects, mail, inbox, told, given, crowded, spilled>>

Break(w) ==
  /\ work[w] # Idle /\ May("failures") /\ Spend("failures")
  /\ IF work[w].op = "process" THEN HandleFails(w)
     ELSE /\ work' = [work EXCEPT ![w] = Idle]
          /\ torn' = torn \cup {Current(w).media}
          /\ UNCHANGED <<rows, objects, mail, inbox, told, given, crowded, spilled>>
  /\ UNCHANGED req

UploadRequest(q) ==
  \/ \E f \in budget.files : Upload(q, f)
  \/ CountByAd(q) \/ PutOriginal(q) \/ InsertWithEvent(q) \/ InsertFails(q) \/ InsertUnknown(q)
  \/ Compensate(q) \/ UploadDies(q)

(* The steps that go on by themselves.                                     *)
MediaWork(w) ==
  \/ \E x \in mail : Give(w, x)
  \/ Acknowledge(w) \/ ReadRow(w) \/ MarkEventProcessed(w) \/ GetOriginal(w)
  \/ CleanOriginal(w) \/ PutPreview(w) \/ MarkProcessedWithEvent(w)
  \/ Sweep(w) \/ RemoveBlob(w) \/ DeleteWithEvent(w)

MediaFaults(w) == RemoveBlobFails(w) \/ DeleteFails(w) \/ Break(w)

MediaNext ==
  \/ \E q \in Request : UploadRequest(q)
  \/ \E w \in Goroutine : MediaWork(w) \/ MediaFaults(w)
  \/ \E m \in Request : GrowOld(m)

(***************************************************************************)
(* Properties.                                                             *)
(***************************************************************************)
MediaKeys == Request \X ({0} \cup PreviewSizes)
MediaTypeOK ==
  /\ DOMAIN rows \subseteq Request
  /\ \A m \in DOMAIN rows : /\ rows[m].status \in {"uploaded", "ready"}
                            /\ rows[m].previews \subseteq PreviewSizes /\ rows[m].old \in BOOLEAN
  /\ DOMAIN objects \subseteq MediaKeys /\ \A k \in DOMAIN objects : objects[k] \in {"raw", "clean"}
  /\ mail \subseteq [media : Request, left : 0..MaxDeliver]
  /\ inbox \subseteq Request /\ torn \subseteq Request /\ spilled \subseteq Request
  /\ \A w \in Goroutine : work[w].op \in {"idle", "process", "sweep"}

(* What GET /media/{id} points to is in the bucket, and once the media is  *)
(* ready its original and every preview it lists are free of metadata;     *)
(* unless a sweep is removing it, or a failed statement parted the row     *)
(* from its objects.                                                       *)
QuietMediaIsWhole ==
  \A m \in DOMAIN rows \ torn : ~Swept(m) =>
    /\ Shown(m) \subseteq DOMAIN objects
    /\ rows[m].status = "ready" => /\ \A k \in Shown(m) : objects[k] = "clean"
                                   /\ rows[m].previews = Previews(rows[m].side)

(* No object outlives its row, which the bucket would keep for ever since  *)
(* nothing lists it: but for the failures the code only logs, and for a    *)
(* processor that was at work when the cleaner removed its media.          *)
WorkedOn(m) == Swept(m) \/ InHand(m) # {} \/ req[m].op = "upload"
NoObjectIsForgotten ==
  \A k \in DOMAIN objects :
    k[1] \notin DOMAIN rows /\ ~WorkedOn(k[1]) => k[1] \in spilled

(* media.processed and media.deleted are written once, whichever handlers  *)
(* and sweeps have the same media in hand.                                 *)
MediaEventsAreToldOnce == \A e \in DOMAIN told : told[e] = 1

(* An ad has at most MaxPerAd media, unless two uploads for it counted     *)
(* before either had inserted.                                             *)
AdMediaAreLimited ==
  \A a \in {rows[m].ad : m \in DOMAIN rows} \ (crowded \cup {None}) :
    Cardinality(OfAd(a)) <= MaxPerAd

(* A media without an ad does not stay: it grows old, and a sweep takes    *)
(* it, although others are older, and whatever has failed before.          *)
OrphansAreRemoved == <>[](\A m \in DOMAIN rows : rows[m].ad # None)

(* Every upload is settled: the media becomes ready or is removed, or its  *)
(* message has gone to the dead letters.                                   *)
UploadsAreSettled == <>[](\A m \in DOMAIN rows : rows[m].status = "ready" \/ m \in given)

(* The rows of media and the objects of the bucket belong together,        *)
(* whatever runs at once and whatever fails, with the exceptions of the    *)
(* parts.                                                                  *)
MediaIsWhole ==
  /\ MediaTypeOK
  /\ QuietMediaIsWhole
  /\ NoObjectIsForgotten
  /\ MediaEventsAreToldOnce
  /\ AdMediaAreLimited
=============================================================================
