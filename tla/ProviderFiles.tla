---------------------------- MODULE ProviderFiles ----------------------------
(***************************************************************************)
(* upload_file and the other file operations of ferrin-core over the file  *)
(* services of ferrin-google, ferrin-openai and ferrin-anthropic, and the  *)
(* video operations of ferrin-google: what is sent where and with what,    *)
(* and when a file that is still processed is taken for ready; the         *)
(* downloads of files a prompt refers to; and batches of requests.         *)
(***************************************************************************)
EXTENDS Naturals, Sequences, SequencesExt, FiniteSets

CONSTANTS
    FileJobs,             \* what the application may ask for
    MaxFetches            \* bound on the requests for the state of a file

\* kind: the protocol; zero: a poll interval or timeout of zero was asked for;
\* url: where the provider wants the bytes;
\* samples: the addresses of the videos it made.
Origins == {"own", "credentialed", "foreign", "unsafe", "missing"}
ASSUME FileJobsAssumption ==
    \A j \in FileJobs :
        /\ j.kind \in {"resumable", "form", "video"} /\ j.zero \in BOOLEAN
        /\ j.url \in Origins /\ j.samples \in Seq({"own", "foreign", "invalid"})

VARIABLES
    job,                  \* what was asked
    file,                 \* the provider's file or operation, and its state
    up,                   \* the client
    shown                 \* history: what went where, of the key and the caller's headers

fileVars == <<job, file, up, shown>>

FilesInit ==
    /\ job \in FileJobs
    /\ file = "none"
    /\ up = [at |-> "ready", seen |-> "none", late |-> FALSE, cut |-> FALSE,
             posts |-> 0, fetches |-> 0, lateFetches |-> 0, result |-> <<>>]
    /\ shown = {}

ends(r) == up' = [up EXCEPT !.at = "over", !.result = <<r>>]
fails(e) == ends([error |-> e, videos |-> <<>>])
Show(what) == shown' = shown \cup ({"own"} \X what)

-----------------------------------------------------------------------------
(* Uploads.                                                                *)

\* The bytes are collected first, which cancellation ends.
CollectUpload ==
    /\ up.at = "ready" /\ job.kind = "resumable"
    /\ \/ job.zero /\ fails("argument")
       \/ ~job.zero /\ up.cut /\ fails("cancelled")
       \/ ~job.zero /\ fails("data")
       \/ ~job.zero /\ up' = [up EXCEPT !.at = "collected"]
    /\ UNCHANGED <<job, file, shown>>

\* The session: a post with the key, whose answer names where the bytes go.
StartUpload ==
    /\ up.at = "collected" /\ ~up.cut
    /\ Show({"key", "headers"})
    /\ \/ fails("provider")
       \/ job.url \in {"missing", "unsafe"} /\ fails("url")
       \/ job.url \notin {"missing", "unsafe"} /\ up' = [up EXCEPT !.at = "started"]
    /\ UNCHANGED <<job, file>>

\* The key never goes with the bytes; the headers only to those who may see
\* them.
FinalizeHeaders_All == {"headers"}
FinalizeHeaders == IF job.url \in {"own", "credentialed"} THEN {"headers"} ELSE {}

\* The state the client was told; a file without one counts as ready.
Finalize ==
    /\ up.at = "started" /\ ~up.cut
    /\ shown' = shown \cup ({job.url} \X FinalizeHeaders)
    /\ \/ \E s \in {"PROCESSING", "ACTIVE", "FAILED"} :
            /\ file' = s
            /\ up' = [up EXCEPT !.at = "seen", !.seen = s, !.posts = @ + 1]
       \/ fails("provider") /\ UNCHANGED file
    /\ UNCHANGED job

\* The poll loop of upload_bytes: it ends on the state, then on the time, and
\* sleeps before it asks again.
Polled_NoFailure ==
    /\ up.at = "seen"
    /\ CASE up.seen # "PROCESSING" -> ends([error |-> "none", videos |-> <<>>])
         [] up.late -> fails("timeout")
         [] OTHER -> up' = [up EXCEPT !.at = "sleeping"]
    /\ UNCHANGED <<job, file, shown>>
Polled_NoTimeout ==
    /\ up.at = "seen"
    /\ CASE up.seen = "PROCESSING" -> up' = [up EXCEPT !.at = "sleeping"]
         [] up.seen = "FAILED" -> fails("failed")
         [] OTHER -> ends([error |-> "none", videos |-> <<>>])
    /\ UNCHANGED <<job, file, shown>>
Polled ==
    /\ up.at = "seen"
    /\ CASE up.seen = "PROCESSING" /\ up.late -> fails("timeout")
         [] up.seen = "PROCESSING" -> up' = [up EXCEPT !.at = "sleeping"]
         [] up.seen = "FAILED" -> fails("failed")
         [] OTHER -> ends([error |-> "none", videos |-> <<>>])
    /\ UNCHANGED <<job, file, shown>>

SleepEnds ==
    /\ up.at = "sleeping"
    /\ \/ up.cut /\ fails("cancelled")
       \/ up.fetches < MaxFetches /\ up' = [up EXCEPT !.at = "fetching"]
    /\ UNCHANGED <<job, file, shown>>

FetchFile ==
    /\ up.at = "fetching" /\ ~up.cut
    /\ Show({"key", "headers"})
    /\ \/ fails("provider")
       \/ up' = [up EXCEPT !.at = "seen", !.seen = file, !.fetches = @ + 1,
                           !.lateFetches = @ + (IF up.late THEN 1 ELSE 0)]
    /\ UNCHANGED <<job, file>>

\* One post carries the file and the metadata.
PostForm ==
    /\ up.at = "ready" /\ job.kind = "form" /\ ~up.cut
    /\ Show({"key", "headers"})
    /\ \/ /\ ends([error |-> "none", videos |-> <<>>]) /\ file' = "ACTIVE"
       \/ /\ fails("provider") /\ file' \in {"none", "ACTIVE"}
    /\ UNCHANGED job

Processes ==
    /\ file = "PROCESSING"
    /\ file' \in {"ACTIVE", "FAILED"}
    /\ UNCHANGED <<job, up, shown>>

-----------------------------------------------------------------------------
(* Videos of ferrin-google.                                                *)

do_start ==
    /\ up.at = "ready" /\ job.kind = "video" /\ ~up.cut
    /\ Show({"key", "headers"})
    /\ \/ fails("provider") /\ file' \in {"none", "PROCESSING"}
       \/ up' = [up EXCEPT !.at = "fetching", !.posts = @ + 1] /\ file' = "PROCESSING"
    /\ UNCHANGED job

\* An address that is none is skipped; the key is part of the address of a
\* video only on the provider's own origin.
KeyInAddress_Always(s) == TRUE
KeyInAddress(s) == s = "own"
completed ==
    LET valid == SelectSeq(job.samples, LAMBDA s : s # "invalid")
    IN  IF valid = <<>> THEN fails("no videos")
        ELSE ends([error |-> "none", videos |-> [k \in DOMAIN valid |-> <<valid[k], KeyInAddress(valid[k])>>]])

do_status ==
    /\ up.at = "fetching" /\ job.kind = "video" /\ ~up.cut
    /\ Show({"key", "headers"})
    /\ \/ file = "PROCESSING" /\ up.fetches < MaxFetches /\ up' = [up EXCEPT !.fetches = @ + 1]
       \/ file = "FAILED" /\ fails("failed")
       \/ file = "ACTIVE" /\ completed
       \/ fails("provider")
    /\ UNCHANGED <<job, file>>

-----------------------------------------------------------------------------
FileInterrupted ==
    /\ up.cut /\ up.at \in {"collected", "started", "fetching"}
    /\ fails("cancelled")
    /\ UNCHANGED <<job, file, shown>>

PollTimeOver ==
    /\ ~up.late /\ up.at \in {"seen", "sleeping", "fetching"} /\ job.kind = "resumable"
    /\ up' = [up EXCEPT !.late = TRUE]
    /\ UNCHANGED <<job, file, shown>>

CutFiles ==
    /\ ~up.cut /\ up.at # "over"
    /\ up' = [up EXCEPT !.cut = TRUE]
    /\ UNCHANGED <<job, file, shown>>

FilesNext ==
    \/ CollectUpload \/ StartUpload \/ Finalize \/ Polled \/ SleepEnds
    \/ job.kind = "resumable" /\ FetchFile
    \/ PostForm \/ Processes \/ do_start \/ do_status
    \/ FileInterrupted \/ PollTimeOver \/ CutFiles

-----------------------------------------------------------------------------
\* A file that is returned is one the provider is done with and that did not
\* fail; a video that is returned is one of the provider's, in its order.
FileResultInOrder ==
    \A k \in DOMAIN up.result :
        LET r == up.result[k] IN
        r.error = "none" =>
            /\ file = "ACTIVE"
            /\ [v \in DOMAIN r.videos |-> r.videos[v][1]] = SelectSeq(job.samples, LAMBDA s : s # "invalid")

\* Nothing is uploaded twice, and once the time to wait is over the state is
\* asked at most once more: by the request whose sleep had begun.
FilesStopWhenTold ==
    up'.posts <= 1 /\ up'.lateFetches <= 1

\* The key goes to the provider, and the caller's headers to it and to the
\* origins the application trusts with them; neither goes elsewhere by an
\* address the provider names, nor as a part of such an address.
FileCredentialsStay ==
    /\ \A s \in shown : s[2] = "key" => s[1] = "own"
    /\ \A s \in shown : s[1] \in {"own", "credentialed"}
    /\ \A k \in DOMAIN up.result : \A v \in DOMAIN up.result[k].videos :
        up.result[k].videos[v][2] => up.result[k].videos[v][1] = "own"

-----------------------------------------------------------------------------
(***************************************************************************)
(* The default downloader of ferrin-core (prompt/download.rs) over the     *)
(* secure downloads of ferrin-provider-util (secure_url): files a prompt   *)
(* refers to and the model cannot fetch, some at a time, each along        *)
(* redirects that are validated and lose what is not public.               *)
(***************************************************************************)

CONSTANTS
    Prompts,              \* the files that may be asked for: [files, parallel]
    MaxHops               \* UrlPolicy::max_redirects

\* Where an address leads: two public origins, one of them trusted with the
\* caller's credentials, one exempt from the network check, a private one, and
\* one the policy has no scheme for.
Places == {"public", "credentialed", "trusted", "private", "scheme"}

\* files: where each file is and whether the model fetches it itself; headers:
\* what the caller gives along, past the ones that are never sent.
ASSUME PromptsAssumption ==
    \A p \in Prompts :
        /\ p.parallel \in Nat \ {0} /\ p.headers \subseteq {"authorization", "other", "public"}
        /\ \A k \in DOMAIN p.files : p.files[k] \in [place : Places, supported : BOOLEAN]

VARIABLES
    prompt,               \* what was asked
    fetch,                \* the download of each file
    files,                \* the results, by place; <<>> for none
    download,             \* the call: whether it is over and how
    requested             \* history: what was sent where, and from where it came

downloadVars == <<prompt, fetch, files, download, requested>>

Wanted == {k \in DOMAIN prompt.files : ~prompt.files[k].supported}

\* fetch_with_headers: credentials only with origins the application trusts
\* with them.
FirstHeaders(place) == IF place = "credentialed" THEN prompt.headers ELSE prompt.headers \ {"authorization"}

DownloadsInit ==
    /\ prompt \in Prompts
    /\ fetch = [k \in DOMAIN prompt.files |->
                  [at |-> "waiting", place |-> prompt.files[k].place, hops |-> 0,
                   headers |-> FirstHeaders(prompt.files[k].place)]]
    /\ files = [k \in DOMAIN prompt.files |-> <<>>]
    /\ download = [over |-> FALSE, error |-> "none", cut |-> FALSE]
    /\ requested = {}

Active == {k \in DOMAIN fetch : fetch[k].at \in {"validating", "sent", "ended", "failed"}}
update(k, f) == fetch' = [fetch EXCEPT ![k] = f]
DownloadsKept == UNCHANGED <<prompt, files, download>>

\* The next file in order, when fewer than max_parallel are under way.
Spawn(k) ==
    /\ ~download.over /\ k \in Wanted /\ fetch[k].at = "waiting"
    /\ \A j \in Wanted : j < k => fetch[j].at # "waiting"
    /\ Cardinality(Active) < prompt.parallel
    /\ update(k, [fetch[k] EXCEPT !.at = "validating"])
    /\ DownloadsKept /\ UNCHANGED requested

\* validate_url, before every hop.
validate_url(place) == place \in {"public", "credentialed", "trusted"}
Hop(k) ==
    LET f == fetch[k] IN
    /\ ~download.over /\ f.at = "validating"
    /\ IF ~validate_url(f.place)
       THEN update(k, [f EXCEPT !.at = "failed"]) /\ UNCHANGED requested
       ELSE IF download.cut THEN update(k, [f EXCEPT !.at = "failed"]) /\ UNCHANGED requested
       ELSE /\ update(k, [f EXCEPT !.at = "sent"])
            /\ requested' = requested \cup {[of |-> k, to |-> f.place, headers |-> f.headers, hops |-> f.hops]}
    /\ DownloadsKept

\* A redirect: to another origin only what is public goes along, and what was
\* dropped does not come back.
Kept_All(f, to) == f.headers
Kept(f, to) == IF f.place = to THEN f.headers ELSE f.headers \cap {"public"}
Redirected_OffByOne(k) ==
    LET f == fetch[k] IN
    /\ ~download.over /\ f.at = "sent"
    /\ \E to \in Places :
        update(k, IF f.hops > MaxHops THEN [f EXCEPT !.at = "failed"]
                  ELSE [f EXCEPT !.at = "validating", !.place = to, !.hops = @ + 1, !.headers = Kept(f, to)])
    /\ DownloadsKept /\ UNCHANGED requested
RedirectedTo(k) ==
    LET f == fetch[k] IN
    /\ ~download.over /\ f.at = "sent"
    /\ \E to \in Places :
        update(k, IF f.hops + 1 > MaxHops THEN [f EXCEPT !.at = "failed"]
                  ELSE [f EXCEPT !.at = "validating", !.place = to, !.hops = @ + 1, !.headers = Kept(f, to)])
    /\ DownloadsKept /\ UNCHANGED requested

\* A body within the limit; or a status, a location or a body that is none,
\* a transport error, or cancellation.
Fetched(k) ==
    /\ ~download.over /\ fetch[k].at = "sent"
    /\ \E at \in {"ended", "failed"} : update(k, [fetch[k] EXCEPT !.at = at])
    /\ DownloadsKept /\ UNCHANGED requested

\* A download that is joined goes to its place in the results; one that failed
\* ends the call and aborts the others.
Slot_NextFree(k) == CHOOSE j \in DOMAIN files : files[j] = <<>> /\ \A i \in 1..(j - 1) : files[i] # <<>>
Slot(k) == k
JoinFetched(k) ==
    /\ ~download.over
    /\ \/ /\ fetch[k].at = "ended"
          /\ files' = [files EXCEPT ![Slot(k)] = <<k>>]
          /\ update(k, [fetch[k] EXCEPT !.at = "joined"]) /\ UNCHANGED download
       \/ /\ fetch[k].at = "failed"
          /\ download' = [download EXCEPT !.over = TRUE, !.error = IF download.cut THEN "cancelled" ELSE "download"]
          /\ UNCHANGED <<files, fetch>>
    /\ UNCHANGED <<prompt, requested>>

AllJoined ==
    /\ ~download.over /\ \A k \in Wanted : fetch[k].at = "joined"
    /\ download' = [download EXCEPT !.over = TRUE]
    /\ UNCHANGED <<prompt, fetch, files, requested>>

CutDownloads ==
    /\ ~download.over /\ ~download.cut
    /\ download' = [download EXCEPT !.cut = TRUE]
    /\ UNCHANGED <<prompt, fetch, files, requested>>

DownloadsNext ==
    \/ \E k \in DOMAIN fetch : Spawn(k) \/ Hop(k) \/ RedirectedTo(k) \/ Fetched(k) \/ JoinFetched(k)
    \/ AllJoined
    \/ CutDownloads

-----------------------------------------------------------------------------
\* The files come back in the places they were asked for, one for each the model
\* does not fetch itself and none for the others.
FilesInOrder ==
    download.over /\ download.error = "none" =>
        \A k \in DOMAIN files : files[k] = IF k \in Wanted THEN <<k>> ELSE <<>>

\* Nothing that is private, or that the policy has no scheme for, is asked for;
\* authorization goes to the origin it was meant for and not by way of another,
\* the caller's other headers do not leave the first origin.
DownloadCredentialsStay ==
    \A r \in requested :
        /\ r.to \notin {"private", "scheme"}
        /\ "authorization" \in r.headers => r.to = "credentialed"
        /\ "other" \in r.headers => r.to = prompt.files[r.of].place

\* No more hops than the policy allows, no more downloads at once than asked
\* for, and none begun after the call is over or its token cancelled.
DownloadsStopWhenTold ==
    /\ \A r \in requested' \ requested : r.hops <= MaxHops /\ ~download.cut /\ ~download.over
    /\ Cardinality(Active') <= prompt.parallel

-----------------------------------------------------------------------------
(***************************************************************************)
(* Batches: start_batch, get_batch_results and cancel_batch of ferrin-core *)
(* over the batch services of ferrin-anthropic, ferrin-google and          *)
(* ferrin-openai.  The requests of a batch go out together, sometimes as   *)
(* an uploaded file, are answered by the provider in any order, and come   *)
(* back as a stream of lines told by the id of their request.              *)
(***************************************************************************)

CONSTANTS
    Batches,              \* the batches that may be asked for
    ResultRetries         \* the retries of the call that opens the results

VARIABLES
    batch,                \* what was asked
    service,              \* the provider's side: what was posted, the answers
    reading,              \* the client: where it is, and who was sent the key
    told                  \* the items and errors the consumer was told

batchVars == <<batch, service, reading, told>>

\* A request: its id, its type, its model, the definition of one tool, and what
\* an adapter refuses about it.  large: more than fits a request; url: where the
\* provider keeps the results.
Quirks == {"none", "bad_id", "beta", "json_tool", "alias", "speed"}
Urls == {"own", "credentialed", "foreign", "unsafe", "none"}

ASSUME BatchesAssumption ==
    \A b \in Batches :
        /\ b.provider \in {"google", "openai", "anthropic"} /\ b.large \in BOOLEAN /\ b.url \in Urls
        /\ \A k \in DOMAIN b.requests : b.requests[k].image \in BOOLEAN /\ b.requests[k].quirk \in Quirks

-----------------------------------------------------------------------------
(* What is refused before anything is sent.                                *)

Of(field(_)) == {field(batch.requests[k]) : k \in DOMAIN batch.requests}

\* The core: at least one request, ids that differ, one definition for a tool.
validate_requests_AnyId == batch.requests # <<>>
validate_requests ==
    /\ batch.requests # <<>>
    /\ \A j, k \in DOMAIN batch.requests : batch.requests[j].id = batch.requests[k].id => j = k
validate_compatible_tools == Cardinality(Of(LAMBDA r : r.tool) \ {"none"}) <= 1

\* The adapters: one model where it is part of the endpoint or of the file, and
\* no request whose result could not be told apart or converted later.
batch_model_id == Cardinality(Of(LAMBDA r : r.model)) = 1
Accepted ==
    CASE batch.provider = "google" -> batch_model_id
      [] batch.provider = "openai" -> batch_model_id /\ Of(LAMBDA r : r.image) = {FALSE}
      [] batch.provider = "anthropic" -> Of(LAMBDA r : r.image) = {FALSE} /\ Of(LAMBDA r : r.quirk) = {"none"}

RequestIds == Of(LAMBDA r : r.id)

\* A file is uploaded first by one always, by another when the requests are
\* too large to be sent inline, by the third never.
Uploads == batch.provider = "openai" \/ (batch.provider = "google" /\ batch.large)

-----------------------------------------------------------------------------
BatchInit ==
    /\ batch \in Batches
    /\ service = [created |-> 0, uploaded |-> 0, state |-> "none", answers |-> <<>>, archived |-> FALSE]
    /\ reading = [pc |-> "validating", tries |-> 0, left |-> {}, file |-> 0, cut |-> FALSE, keyed |-> {}]
    /\ told = <<>>

\* What the reader sees: place', and the error if it is one.
stop(e) == reading' = [reading EXCEPT !.pc = "over"] /\ told' = Append(told, [id |-> "none", status |-> e])
goOn(pc) == reading' = [reading EXCEPT !.pc = pc, !.tries = 0] /\ UNCHANGED told

Validate ==
    /\ reading.pc = "validating"
    /\ IF validate_requests /\ validate_compatible_tools /\ Accepted
       THEN goOn(IF Uploads THEN "uploading" ELSE "creating") ELSE stop("refused")
    /\ UNCHANGED <<batch, service>>

\* Neither post is tried again: what was sent may have been done even when
\* the answer is an error.
Upload ==
    /\ reading.pc = "uploading" /\ ~reading.cut
    /\ \/ goOn("creating") /\ service' = [service EXCEPT !.uploaded = @ + 1]
       \/ stop("failed") /\ \E n \in 0..1 : service' = [service EXCEPT !.uploaded = @ + n]
    /\ UNCHANGED batch

Create_Again ==
    /\ reading.pc = "creating" /\ ~reading.cut
    /\ \E n \in 0..1 :
        /\ service' = [service EXCEPT !.created = @ + n, !.state = IF n = 1 THEN "pending" ELSE @]
        /\ \/ n = 1 /\ goOn("started")
           \/ reading.tries < 1 /\ reading' = [reading EXCEPT !.tries = @ + 1] /\ UNCHANGED told
    /\ UNCHANGED batch
Create ==
    /\ reading.pc = "creating" /\ ~reading.cut
    /\ \E n \in 0..1 :
        /\ service' = [service EXCEPT !.created = @ + n, !.state = IF n = 1 THEN "pending" ELSE @]
        /\ \/ n = 1 /\ goOn("started")
           \/ stop("failed")
    /\ UNCHANGED batch

\* The caller's token or deadline: noticed before and inside every call.
CutBatch ==
    /\ reading.pc # "over" /\ ~reading.cut
    /\ reading' = [reading EXCEPT !.cut = TRUE]
    /\ UNCHANGED <<batch, service, told>>

\* What was posted before may still be done.
Interrupt ==
    /\ reading.cut /\ reading.pc \notin {"over", "validating"}
    /\ stop("cancelled")
    /\ \/ UNCHANGED service
       \/ reading.pc = "uploading" /\ service' = [service EXCEPT !.uploaded = @ + 1]
       \/ reading.pc = "creating" /\ service' = [service EXCEPT !.created = @ + 1, !.state = "pending"]
    /\ UNCHANGED batch

-----------------------------------------------------------------------------
(* The provider.                                                           *)

\* The outcomes a provider reports of one request.
Outcomes == CASE batch.provider = "google" -> {"succeeded", "errored", "cancelled", "blocked", "image", "custom"}
              [] batch.provider = "openai" -> {"succeeded", "errored", "cancelled", "expired", "status", "custom"}
              [] batch.provider = "anthropic" -> {"succeeded", "errored", "cancelled", "expired", "custom"}

\* It ends with an answer for every request, or without output, or with the
\* answers there were when it failed.
Ends ==
    /\ service.state = "pending"
    /\ \E state \in {"completed", "failed"}, answered \in SUBSET RequestIds :
        /\ state = "completed" => answered = RequestIds
        /\ batch.provider = "anthropic" => state = "completed"
        /\ \E answers \in [answered -> Outcomes] :
            service' = [service EXCEPT !.state = state, !.answers = answers]
    /\ UNCHANGED <<batch, reading, told>>

Archive ==
    /\ batch.provider = "anthropic" /\ service.state = "completed" /\ ~service.archived
    /\ service' = [service EXCEPT !.archived = TRUE]
    /\ UNCHANGED <<batch, reading, told>>

\* cancel_batch: one post, not retried; the batch fails with what it has, or
\* ends with its requests cancelled.
CancelBatch ==
    /\ reading.pc = "started" /\ service.state = "pending"
    /\ \E answers \in [RequestIds -> {"cancelled"}] :
        service' = [service EXCEPT !.state = IF batch.provider = "anthropic" THEN "completed" ELSE "failed",
                                   !.answers = IF batch.provider = "anthropic" THEN answers ELSE <<>>]
    /\ UNCHANGED <<batch, reading, told>>

-----------------------------------------------------------------------------
(* get_batch_results                                                       *)

AskResults ==
    /\ reading.pc = "started" /\ ~reading.cut
    /\ goOn("opening")
    /\ UNCHANGED <<batch, service>>

\* The lines are in one file, or in two at one provider: what was answered and
\* what was not; written in any order.
Files == IF batch.provider = "openai"
         THEN LET output == {r \in DOMAIN service.answers : service.answers[r] \in {"succeeded", "status", "custom"}}
              IN  SelectSeq(<<output, DOMAIN service.answers \ output>>, LAMBDA f : f # {})
         ELSE IF DOMAIN service.answers = {} THEN <<>> ELSE <<DOMAIN service.answers>>

\* The results of one provider are at an address it names: there the key goes
\* only with its own origin and the origins the application trusts with it.
Keyed_Always == IF batch.provider = "anthropic" THEN {batch.url} ELSE {}
Keyed == IF batch.provider = "anthropic" THEN {batch.url} \cap {"own", "credentialed"} ELSE {}

\* The batch is retrieved, under the retries of the call, and must be over;
\* a failed one may have no output.
Retrieve ==
    /\ reading.pc = "opening" /\ ~reading.cut
    /\ \/ /\ reading.tries < ResultRetries
          /\ reading' = [reading EXCEPT !.tries = @ + 1] /\ UNCHANGED told
       \/ reading.tries = ResultRetries /\ stop("failed")
       \/ service.state = "pending" /\ stop("not complete")
       \/ service.archived /\ stop("archived")
       \/ /\ service.state # "pending" /\ ~service.archived
          /\ IF \/ service.state = "completed" /\ Files = <<>>
                \/ batch.provider = "anthropic" /\ batch.url \in {"none", "unsafe"}
             THEN stop("no output")
             ELSE reading' = [reading EXCEPT !.pc = "streaming", !.keyed = Keyed] /\ UNCHANGED told
    /\ UNCHANGED <<batch, service>>

\* The next file of the stream, once the one before is read; a download that
\* fails is the last the stream tells.
NextFile ==
    /\ reading.pc = "streaming" /\ ~reading.cut /\ reading.left = {} /\ reading.file < Len(Files)
    /\ \/ /\ reading' = [reading EXCEPT !.file = @ + 1, !.left = Files[reading.file + 1]]
          /\ UNCHANGED told
       \/ stop("failed")
    /\ UNCHANGED <<batch, service>>

\* The line a provider writes: an error with its code, a response with its
\* status, or the type of the result.
Line(outcome) ==
    CASE outcome \in {"cancelled", "expired", "errored"} -> [error |-> outcome, body |-> "none"]
      [] outcome = "status" -> [error |-> "none", body |-> "error"]
      [] outcome = "blocked" -> [error |-> "none", body |-> "no candidates"]
      [] OTHER -> [error |-> "none", body |-> outcome]

\* What the adapters make of it.  Content that a text batch cannot carry fails
\* its request at two of the providers.
convert_line_NoExpiry(line) ==
    IF line.error = "cancelled" THEN "Cancelled" ELSE IF line.error = "none" THEN "Succeeded" ELSE "Failed"
convert_line(line) ==
    CASE line.error = "cancelled" -> "Cancelled"
      [] line.error = "expired" -> "Expired"
      [] line.error = "errored" -> "Failed"
      [] line.body \in {"error", "no candidates"} -> "Failed"
      [] line.body = "custom" /\ batch.provider # "anthropic" -> "Failed"
      [] OTHER -> "Succeeded"
\* convert_item adds nothing but the calls it parses; a line that cannot be
\* read is an error, and the core tells no more after an error.
NextLine_GoOn ==
    /\ reading.pc = "streaming" /\ ~reading.cut
    /\ \E r \in reading.left :
        /\ reading' = [reading EXCEPT !.left = @ \ {r}]
        /\ told' = Append(told, [id |-> r, status |-> convert_line(Line(service.answers[r]))]) \/ UNCHANGED told
    /\ UNCHANGED <<batch, service>>
NextLine ==
    /\ reading.pc = "streaming" /\ ~reading.cut
    /\ \E r \in reading.left :
        \/ /\ told' = Append(told, [id |-> r, status |-> convert_line(Line(service.answers[r]))])
           /\ reading' = [reading EXCEPT !.left = @ \ {r}]
        \/ stop("malformed")
    /\ UNCHANGED <<batch, service>>
StreamOver ==
    /\ reading.pc = "streaming" /\ ~reading.cut /\ reading.left = {} /\ reading.file = Len(Files)
    /\ reading' = [reading EXCEPT !.pc = "over"]
    /\ UNCHANGED <<batch, service, told>>

BatchNext ==
    \/ Validate \/ Upload \/ Create \/ CutBatch \/ Interrupt
    \/ Ends \/ Archive \/ CancelBatch
    \/ AskResults \/ Retrieve \/ NextFile \/ NextLine \/ StreamOver

-----------------------------------------------------------------------------
Told == {k \in DOMAIN told : told[k].id # "none"}
StatusOf(outcome) ==
    CASE outcome = "succeeded" -> {"Succeeded"}
      [] outcome = "cancelled" -> {"Cancelled"}
      [] outcome = "expired" -> {"Expired"}
      [] outcome \in {"errored", "status", "blocked"} -> {"Failed"}
      [] OTHER -> {"Succeeded", "Failed"}

\* Every item is of a request of the batch, with the outcome the provider gave
\* to that request and to no other, and at most one for each; a stream of a
\* completed batch that ends without an error has told all of them.
BatchResultInOrder ==
    /\ \A k \in Told : told[k].id \in DOMAIN service.answers /\ told[k].status \in StatusOf(service.answers[told[k].id])
    /\ \A j, k \in Told : told[j].id = told[k].id => j = k
    /\ Cardinality(RequestIds) < Len(batch.requests) => service.created = 0
    /\ reading.pc = "over" /\ Cardinality(Told) = Len(told) /\ service.state = "completed"
            => {told[k].id : k \in Told} = RequestIds

\* The key of the provider goes to no other origin for the results.
BatchCredentialsStay == reading.keyed \cap {"foreign", "unsafe", "none"} = {}

\* A batch is created once, and its file uploaded once, whatever the answer, and
\* after an error or a cancellation nothing more is told.
BatchStopsWhenTold ==
    /\ service.created' <= 1 /\ service.uploaded' <= 1
    /\ told' # told => /\ \A k \in DOMAIN told : told[k].id # "none"
                       /\ reading.cut => Last(told').id = "none"
=============================================================================
