---------------------------- MODULE SumcheckChunks ----------------------------
(***************************************************************************)
(* A sumcheck round on the GPUs (sxt/proof/sumcheck): sum_gpu and fold_gpu *)
(* run for_each_device over the halves of the multilinear extensions.      *)
(*                                                                         *)
(* A chunk of sum_gpu looks the product table up in a device_cache, waits  *)
(* for alt_future and adds its partial sum to the result.  A chunk of      *)
(* fold_gpu needs no table, does not wait, and writes its own part of the  *)
(* result.  awaitsAlt tells the two apart.                                 *)
(*                                                                         *)
(* Each chunk works on a stream of its own.  The first chunk that looks    *)
(* the table up on a device enqueues its copy there, on its own stream,    *)
(* and the others take the device pointer from the cache; nothing orders   *)
(* their kernels behind that copy except the waits of for_each_device.     *)
(* Operations of one stream are carried out in order, those of different   *)
(* streams in any order.                                                   *)
(***************************************************************************)
EXTENDS ForEachDevice

VARIABLES
  cached,   \* device_cache::data_: the chunk that made the device's copy
  copied,   \* devices on which that copy has been carried out
  kernel,   \* each chunk's kernel: not run, or what it found in the table's memory
  result,   \* how often p or mles_p contains each chunk's contribution, and
            \* at NoChunk what the memory contained before
  counter

roundVars == <<cached, copied, kernel, result, counter>>
allVars == <<vars, roundVars>>

RoundInit ==
  /\ Init
  /\ cached = [d \in Devices |-> NoChunk]
  /\ copied = {}
  /\ kernel = [c \in Chunks |-> "not run"]
  /\ result = [c \in Chunks \cup {NoChunk} |-> IF awaitsAlt /\ c = NoChunk THEN 1 ELSE 0]
  /\ counter = 0

-----------------------------------------------------------------------------
(* sum_gpu *)

(* device_cache::lookup, on the active device *)
Lookup(c, d) ==
  cached' = IF cached[d] = NoChunk THEN [cached EXCEPT ![d] = c] ELSE cached

SumLoaded(c) ==
  /\ awaitsAlt
  /\ Loaded(c)
  /\ Lookup(c, device')
  /\ UNCHANGED <<copied, kernel, result, counter>>

(* The stream of the chunk that made the copy gets to it. *)
TableCopied(d) ==
  /\ cached[d] # NoChunk
  /\ d \notin copied
  /\ copied' = copied \cup {d}
  /\ UNCHANGED <<vars, cached, kernel, result, counter>>

(* partial_sum's kernel runs, after what is before it on the same stream. *)
SumKernel(c) ==
  LET d == passed[c][1] IN
  /\ awaitsAlt
  /\ chunk[c] = "computing"
  /\ kernel[c] = "not run"
  /\ cached[d] = c => d \in copied
  /\ kernel' = [kernel EXCEPT ![c] = IF d \in copied THEN "read table" ELSE "read garbage"]
  /\ UNCHANGED <<vars, cached, copied, result, counter>>

(***************************************************************************)
(* A slip one could make in SumComputed.  No specification uses it; it     *)
(* shows that the properties below would notice.                           *)
(***************************************************************************)
BugAddsToOldContents(c) ==
  /\ awaitsAlt
  /\ kernel[c] # "not run"
  /\ Computed(c)
  /\ result' = [result EXCEPT ![c] = @ + 1]
  /\ counter' = counter + 1
  /\ UNCHANGED <<cached, copied, kernel>>

(* partial_sum has returned: fill in the result. *)
SumComputed(c) ==
  /\ awaitsAlt
  /\ kernel[c] # "not run"
  /\ Computed(c)
  /\ result' = IF counter = 0
               THEN [b \in DOMAIN result |-> IF b = c THEN 1 ELSE 0]
               ELSE [result EXCEPT ![c] = @ + 1]
  /\ counter' = counter + 1
  /\ UNCHANGED <<cached, copied, kernel>>

-----------------------------------------------------------------------------
(* fold_gpu *)

FoldLoaded(c) ==
  /\ ~awaitsAlt
  /\ Loaded(c)
  /\ UNCHANGED roundVars

(* The folded values are copied back to the chunk's part of mles_p. *)
FoldComputed(c) ==
  /\ ~awaitsAlt
  /\ Computed(c)
  /\ result' = [result EXCEPT ![c] = @ + 1]
  /\ UNCHANGED <<cached, copied, kernel, counter>>

-----------------------------------------------------------------------------

ForEachStep ==
  /\ \/ ParentStep
     \/ \E d \in Devices : ImplStep(d)
     \/ \E c \in Chunks : ChunkResumed(c)
  /\ UNCHANGED roundVars

LoadedStep(c) == SumLoaded(c) \/ FoldLoaded(c)

ComputedStep(c) == SumComputed(c) \/ FoldComputed(c)

RoundNext ==
  \/ ForEachStep
  \/ \E c \in Chunks : LoadedStep(c) \/ SumKernel(c) \/ ComputedStep(c)
  \/ \E d \in Devices : TableCopied(d)

(* The thread runs, and the GPU gets to every operation of every stream. *)
RoundFairness ==
  /\ WF_allVars(ForEachStep)
  /\ \A c \in Chunks :
       WF_allVars(LoadedStep(c)) /\ WF_allVars(SumKernel(c)) /\ WF_allVars(ComputedStep(c))
  /\ \A d \in Devices : WF_allVars(TableCopied(d))

RoundSpec == RoundInit /\ [][RoundNext]_allVars /\ RoundFairness

-----------------------------------------------------------------------------
(* Properties *)

(***************************************************************************)
(* When the round returns, no chunk is at work on what is freed then, and  *)
(* the result contains the contribution of every chunk once, and nothing   *)
(* of what was in the caller's memory, whichever chunk finished first.     *)
(***************************************************************************)
EachChunkCountedOnce ==
  parent.at = "done" =>
    /\ \A c \in Chunks : chunk[c] = "done"
    /\ result = [c \in Chunks \cup {NoChunk} |-> IF c = NoChunk THEN 0 ELSE 1]

(***************************************************************************)
(* A chunk that finds a table copied on behalf of a chunk launched before  *)
(* it reads it complete: it has waited for that chunk (alt_future), or for *)
(* one that did.                                                           *)
(***************************************************************************)
EarlierCopySeen ==
  \A c \in Chunks : kernel[c] = "read garbage" => cached[passed[c][1]] > c

(***************************************************************************)
(* "we can chunk sums" (sum_gpu.t.cc): the result of a sum over several    *)
(* chunks is that of the whole: each kernel reads the product table.       *)
(***************************************************************************)
ChunksReadTable == \A c \in Chunks : kernel[c] # "read garbage"
=============================================================================
