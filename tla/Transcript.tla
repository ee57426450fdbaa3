------------------------------ MODULE Transcript ------------------------------
(***************************************************************************)
(* The transcripts of prover and verifier, sxt/proof/transcript: messages  *)
(* and challenges framed by labels and lengths (transcript.cc), on top of  *)
(* a STROBE duplex, which absorbs bytes into a block, marks in it where    *)
(* operations begin, and runs the permutation when the block is full or    *)
(* output is wanted (strobe128.cc).                                        *)
(*                                                                         *)
(* The permutation is a formal symbol: its output is known by the blocks   *)
(* that went into it since the start, and two outputs are equal only if    *)
(* those are.  What is left to find out is whether different protocols can *)
(* make the same blocks.                                                   *)
(***************************************************************************)
EXTENDS Integers, Sequences, SequencesExt, Bitwise

CONSTANTS
  Rate,           \* strobe_r_v, 166 in the code
  Parties,        \* who has a transcript
  StrobeLabel,    \* "Merlin v1.0"
  DomainLabel,    \* "dom-sep"
  Labels,         \* labels of transcripts, messages and challenges: sequences of bytes
  Messages,       \* sequences of bytes
  ChallengeSizes, \* sizes of dest in challenge_bytes
  MaxOperations   \* bound on the operations of a transcript, for TLC

ASSUME TranscriptAssumption ==
  /\ Rate \in Nat \ {0} /\ MaxOperations \in Nat
  /\ ChallengeSizes \subseteq Nat \ {0}

VARIABLES
  strobe,    \* of every party: the strobe128 of its transcript, NotConstructed before
  history,   \* of every party: the operations of its transcript
  challenge  \* of every party: the last challenge and the operations up to it

transcriptVars == <<strobe, history, challenge>>

NotConstructed == <<>>

-----------------------------------------------------------------------------
(* strobe128 *)

(* A byte of the state is a byte of the permutation's output, if it has    *)
(* not been overwritten, with x added (^) to it.                           *)
Output == [permuted |-> TRUE, x |-> 0]

FlagI == 1
FlagA == 2
FlagC == 4
FlagM == 16

AddTo(byte, x) == [byte EXCEPT !.x = @ ^^ x]

(* state_bytes_ is the output for the blocks up to now with what has been  *)
(* done to it since                                                        *)
Permuted(blocks, flags) ==
  [blocks |-> blocks, bytes |-> [i \in 0 .. Rate + 1 |-> Output],
   pos |-> 0, pos_begin |-> 0, cur_flags |-> flags]

RunF(s) ==
  LET begun  == [s.bytes EXCEPT ![s.pos] = AddTo(@, s.pos_begin)]
      ended  == [begun EXCEPT ![s.pos + 1] = AddTo(@, 4)]
      padded == [ended EXCEPT ![Rate + 1] = AddTo(@, 128)]
  IN  Permuted(Append(s.blocks, padded), s.cur_flags)

(* One byte further, with what is put at the place of the last one *)
Advance(s, byte) ==
  LET t == [s EXCEPT !.bytes[s.pos] = byte, !.pos = @ + 1]
  IN  IF t.pos = Rate THEN RunF(t) ELSE t

Absorb(s, data) ==
  FoldLeft(LAMBDA t, byte : Advance(t, AddTo(t.bytes[t.pos], byte)), s, data)

(* The bytes squeezed out, each known by the output it belongs to *)
Squeeze(s, size) ==
  FoldLeft(LAMBDA r, i :
             [strobe |-> Advance(r.strobe, [permuted |-> FALSE, x |-> 0]),
              data |-> Append(r.data, <<r.strobe.blocks, r.strobe.pos, r.strobe.bytes[r.strobe.pos]>>)],
           [strobe |-> s, data |-> <<>>], [i \in 1 .. size |-> i])

BeginOp(s, flags) ==
  LET t == Absorb([s EXCEPT !.pos_begin = s.pos + 1, !.cur_flags = flags],
                  <<s.pos_begin, flags>>)
  IN  IF (flags \div FlagC) % 2 = 1 /\ t.pos # 0 THEN RunF(t) ELSE t

(* An operation with more goes on with the one before *)
MetaAd(s, data) == Absorb(BeginOp(s, FlagM + FlagA), data)
MetaAdMore(s, data) == Absorb(s, data)
Ad(s, data) == Absorb(BeginOp(s, FlagA), data)
Prf(s, size) == Squeeze(BeginOp(s, FlagI + FlagA + FlagC), size)

NewStrobe(label) == MetaAd(Permuted(<<>>, 0), label)

-----------------------------------------------------------------------------
(* transcript *)

(* One byte in place of four *)
EncodeUsizeAsU32(n) == <<n>>

AppendMessage(s, label, message) ==
  Ad(MetaAdMore(MetaAd(s, label), EncodeUsizeAsU32(Len(message))), message)

(* A slip one could make in ChallengeBytes.  No specification uses it; it  *)
(* shows that the property below would notice.                             *)
BugSizeLeftOut(s, label, size) == Prf(MetaAd(s, label), size)

ChallengeBytes(s, label, size) ==
  Prf(MetaAdMore(MetaAd(s, label), EncodeUsizeAsU32(size)), size)

NewTranscript(label) == AppendMessage(NewStrobe(StrobeLabel), DomainLabel, label)

-----------------------------------------------------------------------------
TranscriptsIdle ==
  /\ strobe = [t \in Parties |-> NotConstructed]
  /\ history = [t \in Parties |-> <<>>]
  /\ challenge = [t \in Parties |-> [bytes |-> <<>>, after |-> <<>>]]

Does(t, operation) ==
  /\ Len(history[t]) < MaxOperations
  /\ history' = [history EXCEPT ![t] = Append(@, operation)]

Construct(t, label) ==
  /\ strobe[t] = NotConstructed
  /\ Does(t, <<"transcript", label>>)
  /\ strobe' = [strobe EXCEPT ![t] = NewTranscript(label)]
  /\ UNCHANGED challenge

Message(t, label, message) ==
  /\ strobe[t] # NotConstructed
  /\ Does(t, <<"message", label, message>>)
  /\ strobe' = [strobe EXCEPT ![t] = AppendMessage(@, label, message)]
  /\ UNCHANGED challenge

Challenge(t, label, size) ==
  /\ strobe[t] # NotConstructed
  /\ Does(t, <<"challenge", label, size>>)
  /\ LET drawn == ChallengeBytes(strobe[t], label, size)
     IN  /\ strobe' = [strobe EXCEPT ![t] = drawn.strobe]
         /\ challenge' = [challenge EXCEPT ![t] =
                            [bytes |-> drawn.data, after |-> history'[t]]]

TranscriptNext ==
  \E t \in Parties, label \in Labels :
    \/ Construct(t, label)
    \/ \E message \in Messages : Message(t, label, message)
    \/ \E size \in ChallengeSizes : Challenge(t, label, size)

TranscriptSpec == TranscriptsIdle /\ [][TranscriptNext]_transcriptVars

-----------------------------------------------------------------------------
(* Properties *)

(* A challenge is bound to everything before it: if challenges of prover   *)
(* and verifier have a byte in common, both have done the same, the size   *)
(* and label of the challenge included; and transcripts that compare equal *)
(* (operator==) have the same history.  Blocks that end in the middle of   *)
(* an operation, messages of any length and labels that are the beginning  *)
(* of others lead to no confusion.                                         *)
ChallengesBind ==
  \A t, u \in Parties :
    /\ ToSet(challenge[t].bytes) \intersect ToSet(challenge[u].bytes) # {}
         => challenge[t].after = challenge[u].after
    /\ strobe[t] = strobe[u] => history[t] = history[u]

===============================================================================
