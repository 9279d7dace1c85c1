---------------------------- MODULE RequestCache ----------------------------
(***************************************************************************)
(* The cache of model replies of headless runs (request_cache.go): several *)
(* calls, in one process or in many, ask a provider, pass its stream on,   *)
(* and keep the replies that ended well as files.  A call may be cancelled *)
(* at any point and its process may die at any point.  The key of a        *)
(* request is a digest of the operation, the provider, the configuration   *)
(* without its secrets and the request in canonical form: here requests    *)
(* with one key are one request.                                           *)
(***************************************************************************)
EXTENDS Naturals, Sequences

CONSTANTS
  Calls,    \* calls to Complete or Stream, each made once
  Requests, \* requests that differ in their key
  Replies   \* replies: their blocks, but those of empty text, and whether they were cut off

ASSUME CacheAssumption ==
  \A y \in Replies : y.cut \in BOOLEAN /\ y.blocks \in Seq({"text", "tool"})

VARIABLES
  cached,    \* the files of the cache directory: per request, NoReply or a reply
  call,      \* per call: where it stands
  asked,     \* the request it makes
  cancelled, \* calls whose context is done
  inner,     \* the events its channel has yet to bring
  reply,     \* the reply that comes with the provider's done event
  completed, \* Stream's finalResponse is there and no error came after it
  temp,      \* its temporary file: "none", "part", "whole"
  told       \* history: per request, the replies some caller was given to the end

cacheVars == <<cached, call, asked, cancelled, inner, reply, completed, temp, told>>
fileVars == <<cached, temp>>

NoReply == [blocks |-> <<>>, cut |-> TRUE, kept |-> FALSE]

CacheTypeOK ==
  /\ cached \in [Requests -> Replies \cup {NoReply}]
  /\ call \in [Calls -> {"new", "complete", "stream", "replay", "write", "rename", "over"}]
  /\ asked \in [Calls -> Requests] /\ cancelled \subseteq Calls
  /\ inner \in [Calls -> Seq({"text", "tool", "done", "error"})]
  /\ reply \in [Calls -> Replies \cup {NoReply}] /\ completed \in [Calls -> BOOLEAN]
  /\ temp \in [Calls -> {"none", "part", "whole"}]
  /\ told \in [Requests -> SUBSET Replies]

CacheInit ==
  /\ cached = [r \in Requests |-> NoReply]
  /\ call = [c \in Calls |-> "new"]
  /\ asked \in [Calls -> Requests] /\ cancelled = {}
  /\ inner = [c \in Calls |-> <<>>] /\ reply = [c \in Calls |-> NoReply]
  /\ completed = [c \in Calls |-> FALSE]
  /\ temp = [c \in Calls |-> "none"]
  /\ told = [r \in Requests |-> {}]

\* The digest stands for the request.  An entry of another schema, key or operation, and one
\* that cannot be parsed, is no entry.
CacheKey(c) == asked[c]
Read(c) == cached[CacheKey(c)]

Goes(c, where) == call' = [call EXCEPT ![c] = where]
Tell(c, y) == told' = [told EXCEPT ![CacheKey(c)] = @ \cup {y}]

\* cacheableCompletionResponse
Cacheable(y) == y # NoReply /\ ~y.cut

-----------------------------------------------------------------------------
(* Complete and Stream look into the cache first.                           *)

CompleteHits(c) ==
  /\ call[c] = "new" /\ Read(c) # NoReply
  /\ Goes(c, "over") /\ Tell(c, Read(c))
  /\ UNCHANGED <<fileVars, asked, cancelled, inner, reply, completed>>

\* The answer is written before it is returned; a refused call is not kept.
CompleteAsks(c) ==
  /\ call[c] = "new" /\ Read(c) = NoReply
  /\ \/ Goes(c, "over") /\ UNCHANGED <<reply, told>>
     \/ \E y \in Replies :
          /\ reply' = [reply EXCEPT ![c] = y] /\ Tell(c, y)
          /\ Goes(c, IF Cacheable(y) THEN "write" ELSE "over")
  /\ UNCHANGED <<fileVars, asked, cancelled, inner, completed>>

\* replayCachedStream skips blocks of empty text and ends with the reply as it was kept.
Replayed(y) == y.blocks \o <<"done">>

StreamHits(c) ==
  /\ call[c] = "new" /\ Read(c) # NoReply
  /\ Goes(c, "replay")
  /\ reply' = [reply EXCEPT ![c] = Read(c)]
  /\ inner' = [inner EXCEPT ![c] = Replayed(Read(c))]
  /\ UNCHANGED <<fileVars, asked, cancelled, completed, told>>

\* The provider (external): blocks, then a reply, an error, both, or neither.
ProviderStream(y) ==
  {y.blocks \o e : e \in {<<"done">>, <<"error">>, <<"done", "error">>, <<>>}}

StreamAsks(c) ==
  /\ call[c] = "new" /\ Read(c) = NoReply
  /\ \/ Goes(c, "over") /\ UNCHANGED <<inner, reply>>
     \/ \E y \in Replies :
          /\ reply' = [reply EXCEPT ![c] = y] /\ Goes(c, "stream")
          /\ \E events \in ProviderStream(y) : inner' = [inner EXCEPT ![c] = events]
  /\ UNCHANGED <<fileVars, asked, cancelled, completed, told>>

\* History: the stream's last event was its reply, so nothing contradicted it.
ToldByLast(c) == IF inner[c] = <<"done">> THEN Tell(c, reply[c]) ELSE UNCHANGED told

\* Not the code: an error after the reply changes nothing.
StreamPassesErrors(c) ==
  /\ call[c] \in {"stream", "replay"} /\ inner[c] # <<>>
  /\ completed' = [completed EXCEPT ![c] = @ \/ Head(inner[c]) = "done"]
  /\ inner' = [inner EXCEPT ![c] = Tail(@)] /\ ToldByLast(c)
  /\ UNCHANGED <<fileVars, call, asked, cancelled, reply>>

\* An event is passed on; with a cancelled context it may be, or the stream ends.
StreamPasses(c) ==
  /\ call[c] \in {"stream", "replay"} /\ inner[c] # <<>>
  /\ completed' = [completed EXCEPT ![c] =
       call[c] = "stream" /\ (Head(inner[c]) = "done" \/ (@ /\ Head(inner[c]) # "error"))]
  /\ inner' = [inner EXCEPT ![c] = Tail(@)] /\ ToldByLast(c)
  /\ UNCHANGED <<fileVars, call, asked, cancelled, reply>>

StreamAbandoned(c) ==
  /\ call[c] \in {"stream", "replay"} /\ inner[c] # <<>> /\ c \in cancelled
  /\ Goes(c, "over")
  /\ UNCHANGED <<fileVars, asked, cancelled, inner, reply, completed, told>>

StreamEnds(c) ==
  /\ call[c] \in {"stream", "replay"} /\ inner[c] = <<>>
  /\ Goes(c, IF completed[c] /\ Cacheable(reply[c]) THEN "write" ELSE "over")
  /\ UNCHANGED <<fileVars, asked, cancelled, inner, reply, completed, told>>

CallerCancels(c) ==
  /\ call[c] \notin {"new", "over"} /\ c \notin cancelled
  /\ cancelled' = cancelled \cup {c}
  /\ UNCHANGED <<fileVars, call, asked, inner, reply, completed, told>>

-----------------------------------------------------------------------------
(* write: a temporary file of its own, renamed when it is whole             *)

\* Not the code: the entry is written under its own name.
WriteInPlace(c) ==
  /\ call[c] = "write"
  /\ \/ temp[c] = "none" /\ temp' = [temp EXCEPT ![c] = "part"] /\ UNCHANGED call
        /\ cached' = [cached EXCEPT ![CacheKey(c)] = [reply[c] EXCEPT !.blocks = <<>>]]
     \/ temp[c] = "part" /\ temp' = [temp EXCEPT ![c] = "none"] /\ Goes(c, "over")
        /\ cached' = [cached EXCEPT ![CacheKey(c)] = reply[c]]
  /\ UNCHANGED <<asked, cancelled, inner, reply, completed, told>>

\* A failure at any point gives up; the temporary file is removed.
Write(c) ==
  /\ call[c] = "write"
  /\ \/ temp[c] = "none" /\ temp' = [temp EXCEPT ![c] = "part"] /\ UNCHANGED call
     \/ temp[c] = "part" /\ temp' = [temp EXCEPT ![c] = "whole"] /\ Goes(c, "rename")
     \/ temp' = [temp EXCEPT ![c] = "none"] /\ Goes(c, "over")
  /\ UNCHANGED <<cached, asked, cancelled, inner, reply, completed, told>>

Rename(c) ==
  /\ call[c] = "rename"
  /\ cached' = [cached EXCEPT ![CacheKey(c)] = reply[c]] \/ UNCHANGED cached
  /\ temp' = [temp EXCEPT ![c] = "none"] /\ Goes(c, "over")
  /\ UNCHANGED <<asked, cancelled, inner, reply, completed, told>>

\* The process is killed: its temporary file stays, and is never read.
Killed(c) ==
  /\ call[c] # "over" /\ Goes(c, "over")
  /\ UNCHANGED <<fileVars, asked, cancelled, inner, reply, completed, told>>

CacheNext ==
  \E c \in Calls :
    \/ CompleteHits(c) \/ CompleteAsks(c) \/ StreamHits(c) \/ StreamAsks(c)
    \/ StreamPasses(c) \/ StreamAbandoned(c) \/ StreamEnds(c) \/ CallerCancels(c)
    \/ Write(c) \/ Rename(c) \/ Killed(c)

CacheSpec == CacheInit /\ [][CacheNext]_cacheVars

-----------------------------------------------------------------------------
(* Properties *)

\* What the cache answers, a caller has once been given to the end by the provider: no
\* reply that was cut off, contradicted by an error, abandoned or half written.
KeptWasTold == \A r \in Requests : cached[r] # NoReply => cached[r] \in told[r] /\ ~cached[r].cut

\* The cache answers nothing that was not told, in every state, also after a crash.
CacheInv == CacheTypeOK /\ KeptWasTold
=============================================================================
