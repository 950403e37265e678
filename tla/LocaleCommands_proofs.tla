------------------------ MODULE LocaleCommands_proofs ------------------------
(* Proofs about the commands that write locale files: generate, in          *)
(* GenerateRun, and sync, missing and cleanup, in LocaleEdits. The two      *)
(* specifications share no state; what is proved of one is of its own Spec. *)
(* For any number of targets, leaves, segments, providers, runs and         *)
(* policies, and any keys, scans and documents.                             *)
EXTENDS GenerateRun, LocaleEdits, SequenceTheorems, WellFoundedInduction, TLAPS

AtWork == pc \in {"attempt", "pick", "incomplete", "write"}

(* The position is one of the chain wherever a provider is read from it.    *)
ChainInv ==
    /\ ChainSound
    /\ pc \in {"attempt", "pick"} => pi \in 1 .. Len(chain)
    /\ pc = "attempt" => attemptsRemaining # 0

(* What the run has not reported is as it was, but for the target that is   *)
(* being written, or was when a write failed or the process was killed.     *)
Pristine(u) == mode[u] = "none" /\ results[u] = "none" /\ disk[u] = before[u]

FilesInv ==
    /\ pc # "idle" => ended = "none" /\ results[t] = "none"
    /\ pc \notin {"idle", "write"} => unwritten = {}
    /\ \A u \in Target :
           results[u] = "none" /\ ended # "crashed" /\ ~(u = t /\ (pc = "write" \/ unwritten # {}))
           => disk[u] = before[u]
    /\ \A u \in Target : u > t \/ (u = t /\ pc = "target") => Pristine(u)

AbortInv ==
    aborted => \/ t = abortedAt
               \/ t = abortedAt + 1 /\ pc \in {"target", "idle"} /\ Pristine(t)

(* The document a target is built in, compared with what the run read of    *)
(* the files at its start.                                                  *)
Began(l) == Seen(before[t])[l]

WorkInv ==
    AtWork =>
        /\ mode[t] \in {"fresh", "fill", "force", "resume"}
        /\ mode[t] = "fresh" =>
               \/ \A l \in Leaf : Began(l) = "absent"
               \/ \E l \in Leaf : Began(l) = "leak"
        /\ mode[t] = "fresh" =>
               \A l \in Leaf : Began(l) \in Translated => working[l] \in {"absent", Began(l)}
        /\ mode[t] \in {"fill", "resume"} =>
               \A l \in Leaf : Began(l) \in Translated => working[l] = Began(l)
        /\ mode[t] = "fill" =>
               \A l \in Leaf : Began(l) \notin {"absent", "leak"} => working[l] = Began(l)

(* What has been written of it, segment by segment.                         *)
WriteInv ==
    pc = "write" =>
        /\ disk[t].broken \subseteq before[t].broken
        /\ \A s \in unwritten : Untouched(s)
        /\ mode[t] # "resume" \/ unwritten # {} => \A s \in Segment \ unwritten : Rewritten(s)
        /\ mode[t] # "resume" /\ ~partial => \A l \in Leaf : working[l] # "absent"

IInv ==
    /\ TypeOK /\ ChainInv /\ FilesInv /\ AbortInv /\ WorkInv /\ WriteInv
    /\ KeepsText /\ WrittenIsComplete /\ ThrowKeepsFiles

-----------------------------------------------------------------------------
(* Lemmas about the chain.                                                  *)

LEMMA RemovedIs ==
    ASSUME NEW S, NEW c \in Seq(S), NEW k \in 1 .. Len(c)
    PROVE  /\ Removed(c, k) \in Seq(S)
           /\ Len(Removed(c, k)) = Len(c) - 1
           /\ \A n \in 1 .. Len(c) - 1 :
                  Removed(c, k)[n] = IF n < k THEN c[n] ELSE c[n + 1]
<1> DEFINE a == SubSeq(c, 1, k - 1)
           b == SubSeq(c, k + 1, Len(c))
<1>1. Len(c) \in Nat
  OBVIOUS
<1>2. a \in Seq(S) /\ Len(a) = k - 1 /\ \A n \in 1 .. k - 1 : a[n] = c[n]
  BY <1>1
<1>3. b \in Seq(S) /\ Len(b) = Len(c) - k /\ \A n \in 1 .. Len(c) - k : b[n] = c[k + n]
  BY <1>1
<1>4. Removed(c, k) = a \o b
  BY DEF Removed
<1> HIDE DEF a, b
<1> DEFINE d == a \o b
<1>5. /\ d \in Seq(S) /\ Len(d) = Len(a) + Len(b)
      /\ \A n \in 1 .. Len(a) + Len(b) : d[n] = IF n <= Len(a) THEN a[n] ELSE b[n - Len(a)]
  BY <1>2, <1>3, ConcatProperties
<1> HIDE DEF d
<1>6. ASSUME NEW n \in 1 .. Len(c) - 1
      PROVE  d[n] = IF n < k THEN c[n] ELSE c[n + 1]
  <2>1. d[n] = IF n <= k - 1 THEN a[n] ELSE b[n - (k - 1)]
    BY <1>1, <1>2, <1>3, <1>5
  <2>2. CASE n < k
    BY <1>1, <1>2, <2>1, <2>2
  <2>3. CASE ~(n < k)
    <3>1. n - (k - 1) \in 1 .. Len(c) - k
      BY <1>1, <2>3
    <3>2. b[n - (k - 1)] = c[k + (n - (k - 1))] /\ k + (n - (k - 1)) = n + 1
      BY <1>1, <1>3, <3>1
    <3> QED
      BY <1>1, <2>1, <2>3, <3>2
  <2> QED
    BY <2>2, <2>3
<1>7. Removed(c, k) = d
  BY <1>4 DEF d
<1>8. Len(d) = Len(c) - 1
  BY <1>1, <1>2, <1>3, <1>5
<1> HIDE DEF Removed
<1> QED
  BY <1>5, <1>6, <1>7, <1>8

LEMMA InsertedIs ==
    ASSUME NEW S, NEW c \in Seq(S), NEW k \in 1 .. Len(c), NEW p \in S
    PROVE  /\ Inserted(c, k, p) \in Seq(S)
           /\ Len(Inserted(c, k, p)) = Len(c) + 1
           /\ \A n \in 1 .. Len(c) + 1 :
                  Inserted(c, k, p)[n] = IF n <= k THEN c[n] ELSE IF n = k + 1 THEN p ELSE c[n - 1]
<1> DEFINE a == SubSeq(c, 1, k) \o <<p>>
           b == SubSeq(c, k + 1, Len(c))
<1>1. Len(c) \in Nat
  OBVIOUS
<1>2. /\ SubSeq(c, 1, k) \in Seq(S) /\ Len(SubSeq(c, 1, k)) = k
      /\ \A n \in 1 .. k : SubSeq(c, 1, k)[n] = c[n]
  BY <1>1
<1>3. a \in Seq(S) /\ Len(a) = k + 1 /\ a[k + 1] = p /\ \A n \in 1 .. k : a[n] = c[n]
  BY <1>1, <1>2
<1>4. b \in Seq(S) /\ Len(b) = Len(c) - k /\ \A n \in 1 .. Len(c) - k : b[n] = c[k + n]
  BY <1>1
<1>5. Inserted(c, k, p) = a \o b
  BY DEF Inserted
<1> HIDE DEF a, b
<1> DEFINE d == a \o b
<1>6. /\ d \in Seq(S) /\ Len(d) = Len(a) + Len(b)
      /\ \A n \in 1 .. Len(a) + Len(b) : d[n] = IF n <= Len(a) THEN a[n] ELSE b[n - Len(a)]
  BY <1>3, <1>4, ConcatProperties
<1> HIDE DEF d
<1>7. ASSUME NEW n \in 1 .. Len(c) + 1
      PROVE  d[n] = IF n <= k THEN c[n] ELSE IF n = k + 1 THEN p ELSE c[n - 1]
  <2>1. d[n] = IF n <= k + 1 THEN a[n] ELSE b[n - (k + 1)]
    BY <1>1, <1>3, <1>4, <1>6
  <2>2. CASE n <= k + 1
    BY <1>1, <1>3, <2>1, <2>2
  <2>3. CASE ~(n <= k + 1)
    <3>1. n - (k + 1) \in 1 .. Len(c) - k
      BY <1>1, <2>3
    <3>2. b[n - (k + 1)] = c[k + (n - (k + 1))] /\ k + (n - (k + 1)) = n - 1
      BY <1>1, <1>4, <3>1
    <3> QED
      BY <1>1, <2>1, <2>3, <3>2
  <2> QED
    BY <2>2, <2>3
<1>8. Inserted(c, k, p) = d
  BY <1>5 DEF d
<1> QED
  BY <1>1, <1>3, <1>4, <1>6, <1>7, <1>8

Once(c) == \A i, j \in 1 .. Len(c) : i # j => c[i] # c[j]
Elements(c) == {c[i] : i \in 1 .. Len(c)}

LEMMA RemovedKeeps ==
    ASSUME NEW S, NEW c \in Seq(S), NEW k \in 1 .. Len(c), Once(c)
    PROVE  /\ Once(Removed(c, k))
           /\ Elements(Removed(c, k)) = Elements(c) \ {c[k]}
<1> DEFINE r == Removed(c, k)
<1>1. /\ Len(r) = Len(c) - 1 /\ Len(c) \in Nat
      /\ \A n \in 1 .. Len(c) - 1 : r[n] = IF n < k THEN c[n] ELSE c[n + 1]
  BY RemovedIs
<1> HIDE DEF r
<1>2. Once(r)
  BY <1>1 DEF Once
<1>3. ASSUME NEW x \in Elements(r) PROVE x \in Elements(c) \ {c[k]}
  <2>1. PICK n \in 1 .. Len(c) - 1 : x = r[n]
    BY <1>1, <1>3 DEF Elements
  <2> QED
    BY <1>1, <2>1 DEF Elements, Once
<1>4. ASSUME NEW x \in Elements(c) \ {c[k]} PROVE x \in Elements(r)
  <2>1. PICK n \in 1 .. Len(c) : x = c[n]
    BY <1>4 DEF Elements
  <2>2. CASE n < k
    BY <1>1, <2>1, <2>2 DEF Elements
  <2>3. CASE n > k
    <3>1. n - 1 \in 1 .. Len(c) - 1 /\ r[n - 1] = c[n]
      BY <1>1, <2>1, <2>3
    <3> QED
      BY <1>1, <2>1, <3>1 DEF Elements
  <2> QED
    BY <1>4, <2>1, <2>2, <2>3
<1> QED
  BY <1>2, <1>3, <1>4 DEF r

LEMMA InsertedKeeps ==
    ASSUME NEW S, NEW c \in Seq(S), NEW k \in 1 .. Len(c), NEW p \in S,
           Once(c), p \notin Elements(c)
    PROVE  /\ Once(Inserted(c, k, p))
           /\ Elements(c) \subseteq Elements(Inserted(c, k, p))
           /\ p \in Elements(Inserted(c, k, p))
<1> DEFINE r == Inserted(c, k, p)
<1>1. /\ Len(r) = Len(c) + 1 /\ Len(c) \in Nat
      /\ \A n \in 1 .. Len(c) + 1 :
             r[n] = IF n <= k THEN c[n] ELSE IF n = k + 1 THEN p ELSE c[n - 1]
  BY InsertedIs
<1> HIDE DEF r
<1>2. Once(r)
  BY <1>1 DEF Once, Elements
<1>3. ASSUME NEW n \in 1 .. Len(c) PROVE c[n] \in Elements(r)
  <2>1. CASE n <= k
    BY <1>1, <2>1 DEF Elements
  <2>2. CASE n > k
    <3>1. n + 1 \in 1 .. Len(r) /\ r[n + 1] = c[n]
      BY <1>1, <2>2
    <3> QED
      BY <3>1 DEF Elements
  <2> QED
    BY <2>1, <2>2
<1>4. k + 1 \in 1 .. Len(r) /\ r[k + 1] = p
  BY <1>1
<1> QED
  BY <1>2, <1>3, <1>4 DEF Elements, r

(* A handoff moves or adds one provider.                                    *)
LEMMA PrioritizeKeeps ==
    ASSUME NEW S, NEW c \in Seq(S), Once(c), NEW i \in 1 .. Len(c), NEW p \in S, p # c[i]
    PROVE  /\ Prioritize(c, i, p) \in Seq(S)
           /\ Once(Prioritize(c, i, p))
           /\ Elements(c) \subseteq Elements(Prioritize(c, i, p))
<1> DEFINE rest == IF \E k \in 1 .. Len(c) : c[k] = p THEN Removed(c, Position(c, p)) ELSE c
           j == Position(rest, c[i])
<1>1. /\ rest \in Seq(S) /\ Once(rest)
      /\ Elements(rest) = Elements(c) \ {p}
  <2>1. CASE \E k \in 1 .. Len(c) : c[k] = p
    <3>1. Position(c, p) \in 1 .. Len(c) /\ c[Position(c, p)] = p
      BY <2>1 DEF Position
    <3>2. rest = Removed(c, Position(c, p))
      BY <2>1
    <3> HIDE DEF rest
    <3>3. rest \in Seq(S)
      BY <3>1, <3>2, RemovedIs
    <3>4. Once(rest) /\ Elements(rest) = Elements(c) \ {c[Position(c, p)]}
      BY <3>1, <3>2, RemovedKeeps
    <3> QED
      BY <3>1, <3>3, <3>4
  <2>2. CASE ~ \E k \in 1 .. Len(c) : c[k] = p
    BY <2>2 DEF Elements
  <2> QED
    BY <2>1, <2>2
<1> HIDE DEF rest
<1>2. j \in 1 .. Len(rest)
  <2>1. c[i] \in Elements(rest)
    BY <1>1 DEF Elements
  <2>2. \E k \in 1 .. Len(rest) : rest[k] = c[i]
    BY <2>1 DEF Elements
  <2> QED
    BY <2>2 DEF Position
<1>3. Prioritize(c, i, p) = Inserted(rest, j, p)
  BY DEF Prioritize, rest
<1> HIDE DEF j
<1>4. p \notin Elements(rest)
  BY <1>1
<1>5. Inserted(rest, j, p) \in Seq(S)
  BY <1>1, <1>2, InsertedIs
<1>6. /\ Once(Inserted(rest, j, p))
      /\ Elements(rest) \subseteq Elements(Inserted(rest, j, p))
      /\ p \in Elements(Inserted(rest, j, p))
  BY <1>1, <1>2, <1>4, InsertedKeeps
<1> QED
  BY <1>1, <1>3, <1>5, <1>6

LEMMA StartChainIs ==
    ASSUME NEW q
    PROVE  /\ StartChain(q) \in Seq(Provider) /\ Len(StartChain(q)) > 0
           /\ Once(StartChain(q))
<1>1. Rows \in Seq(Provider) /\ Len(Rows) > 0 /\ Once(Rows)
  BY GenerateAssumption DEF Once
<1>2. Rows[1] \in Provider
  BY <1>1
<1>3. <<Rows[1]>> \in Seq(Provider) /\ Len(<<Rows[1]>>) = 1 /\ Once(<<Rows[1]>>)
  BY <1>2 DEF Once
<1> QED
  BY <1>1, <1>3 DEF StartChain

LEMMA ChainSoundIs == ChainSound <=> Once(chain) /\ Elements(StartChain(policy)) \subseteq Elements(chain)
BY DEF ChainSound, Once, Elements

-----------------------------------------------------------------------------
(* The steps of a run, in the groups the proofs distinguish.                *)

LEMMA EnvIs ==
    ASSUME TypeOK
    PROVE  /\ env.targets \in Target /\ env.targets <= NTargets /\ NTargets \in Nat
           /\ policy \in Policy /\ t \in Target
           /\ env.documents \subseteq [Target -> Document(env)]
           /\ env.segments \in Nat \ {0} /\ \A l \in Leaf : SegmentOf(l) \in Segment
<1>1. env \in Environments /\ policy \in env.policies /\ t \in 1 .. env.targets
  BY DEF TypeOK
<1>2. env.targets \in 1 .. NTargets /\ env.policies \subseteq Policy /\ NTargets \in Nat
      /\ env.documents \subseteq [Target -> Document(env)]
      /\ env.segments \in Nat \ {0} /\ env.segmentOf \in [Leaf -> 1 .. env.segments]
  BY <1>1, GenerateAssumption DEF Target
<1> QED
  BY <1>1, <1>2 DEF Target, Segment, SegmentOf

Awaits == pc \in {"target", "attempt", "pick", "incomplete"}

(* A failed attempt or a handoff: the run goes on, gives up, or throws.     *)
Advances ==
    /\ pc \in {"attempt", "pick"}
    /\ pc' \in {"attempt", "pick", "incomplete", "idle"}
    /\ ended' = IF pc' = "idle" THEN "threw" ELSE ended
    /\ \/ UNCHANGED working
       \/ \E upto \in Todo, answer \in Answers : working' = Built(answer, upto)
    /\ UNCHANGED <<disk, env, policy, host, command, runsLeft, t, mode, unwritten, partial,
                   results, abortedAt, before>>

LEMMA FailureAdvances == ASSUME NEW o \in Outcome, AttemptFails(o) PROVE Advances
<1>1. /\ pc = "attempt"
      /\ \E upto \in Todo, answer \in Answers : working' = Built(answer, upto)
      /\ UNCHANGED <<disk, env, policy, host, command, runsLeft, t, mode, unwritten, partial,
                     results, abortedAt, before>>
  BY DEF AttemptFails, config
<1>2. /\ pc' \in {"attempt", "pick", "incomplete", "idle"}
      /\ ended' = IF pc' = "idle" THEN "threw" ELSE ended
  BY DEF AttemptFails, LoopHead, EndRun
<1> QED
  BY <1>1, <1>2 DEF Advances

LEMMA FallbackAdvances == ASSUME NEW o \in Outcome, ResumeFallsBack(o) PROVE Advances
<1>1. /\ pc = "attempt"
      /\ \E upto \in Todo, answer \in Answers : working' = Built(answer, upto)
      /\ UNCHANGED <<disk, env, policy, host, command, runsLeft, t, mode, unwritten, partial,
                     results, abortedAt, before>>
  BY DEF ResumeFallsBack, config
<1>2. /\ pc' \in {"attempt", "idle"}
      /\ ended' = IF pc' = "idle" THEN "threw" ELSE ended
  BY <1>1 DEF ResumeFallsBack, EndRun
<1> QED
  BY <1>1, <1>2 DEF Advances

LEMMA HandoffAdvances == ASSUME NEW p, HandoffPicked(p) PROVE Advances
BY DEF HandoffPicked, Advances, LoopHead, EndRun, config

LEMMA ThrowsAre ==
    ASSUME \/ MissingCredentials \/ AttemptAborted \/ TargetAborted \/ ReadFails
           \/ HandoffFails \/ Discard \/ \E o \in Outcome : ResumeGivesUp(o)
    PROVE  Throw /\ Awaits
BY DEF MissingCredentials, AttemptAborted, TargetAborted, ReadFails, HandoffFails, Discard,
       ResumeGivesUp, Awaits

(* A failed write or a kill: the run is over, and the file that was being   *)
(* written may be cut off.                                                  *)
Tears(s) == Writes(s) /\ disk' = [disk EXCEPT ![t] = Torn(@, s)]

Stops ==
    /\ pc # "idle" /\ pc' = "idle"
    /\ ended' = "crashed" \/ (ended' = "threw" /\ pc = "write" /\ unwritten # {})
    /\ UNCHANGED disk \/ \E s \in Segment : Tears(s)
    /\ UNCHANGED <<config, command, runsLeft, place, streak, working, unwritten, partial,
                   results, abortedAt, before>>

(* After a failed write only the file it was for may be torn.               *)
FailsAt(s) == Writes(s) /\ (UNCHANGED disk \/ Tears(s))

LEMMA StopsAre ==
    ASSUME Crash \/ \E s \in Segment : WriteFails(s)
    PROVE  Stops /\ (ended' = "threw" => \E s \in Segment : FailsAt(s))
<1>1. CASE Crash
  BY <1>1 DEF Crash, EndRun, Stops, Tears
<1>2. ASSUME NEW s \in Segment, WriteFails(s)
      PROVE  Stops /\ FailsAt(s)
  BY <1>2 DEF WriteFails, Writes, EndRun, Stops, Tears, FailsAt
<1> QED
  BY <1>1, <1>2

LEMMA NextSplits ==
    ASSUME [Next]_vars
    PROVE  \/ UNCHANGED vars \/ StartRun \/ SkipTarget \/ OpenTarget \/ (Throw /\ Awaits)
           \/ AttemptSucceeds
           \/ \E o \in Outcome : AttemptFails(o) \/ ResumeFallsBack(o)
           \/ \E p \in Catalog : HandoffPicked(p)
           \/ KeepPartial \/ (\E s \in Segment : WriteSegment(s)) \/ FinishTarget
           \/ Abort \/ (Stops /\ (ended' = "threw" => \E s \in Segment : FailsAt(s)))
BY ThrowsAre, StopsAre DEF Next, Step, AttemptEnds

(* The same without what happened to the chain.                             *)
LEMMA NextIs ==
    ASSUME [Next]_vars
    PROVE  \/ UNCHANGED vars \/ StartRun \/ SkipTarget \/ OpenTarget \/ (Throw /\ Awaits)
           \/ AttemptSucceeds \/ Advances
           \/ KeepPartial \/ (\E s \in Segment : WriteSegment(s)) \/ FinishTarget
           \/ Abort \/ (Stops /\ (ended' = "threw" => \E s \in Segment : FailsAt(s)))
BY NextSplits, FailureAdvances, FallbackAdvances, HandoffAdvances

-----------------------------------------------------------------------------
(* Type correctness.                                                        *)

LEMMA BuiltType ==
    ASSUME TypeOK, NEW answer \in Answers, NEW upto
    PROVE  Built(answer, upto) \in [Leaf -> Value]
<1>1. t \in Target /\ disk[t] \in Document(env) /\ working \in [Leaf -> Value]
  BY EnvIs DEF TypeOK
<1>2. Seen(disk[t]) \in [Leaf -> Value]
  BY <1>1 DEF Document, Seen, Nothing, Value
<1>3. ASSUME NEW l \in Leaf, l \in Todo PROVE answer[l] \in Value
  BY <1>3 DEF Answers, Value
<1>4. ASSUME NEW l \in Leaf PROVE Built(answer, upto)[l] \in Value
  BY <1>1, <1>2, <1>3 DEF Built
<1> QED
  BY <1>4 DEF Built

LEMMA LocaleFilesAre ==
    ASSUME TypeOK, NEW u \in Target
    PROVE  /\ disk[u].files \in SUBSET Segment /\ disk[u].broken \in SUBSET disk[u].files
           /\ disk[u].leaf \in [Leaf -> Value]
           /\ \A l \in Leaf : disk[u].leaf[l] # "absent"
                  => SegmentOf(l) \in disk[u].files \ disk[u].broken
           /\ disk[u] = [files |-> disk[u].files, broken |-> disk[u].broken, leaf |-> disk[u].leaf]
BY DEF TypeOK, Document, Segment, SegmentOf

LEMMA AreLocaleFiles ==
    ASSUME TypeOK, NEW files \in SUBSET Segment, NEW broken \in SUBSET files,
           NEW leaf \in [Leaf -> Value],
           \A l \in Leaf : leaf[l] # "absent" => SegmentOf(l) \in files \ broken
    PROVE  [files |-> files, broken |-> broken, leaf |-> leaf] \in Document(env)
BY DEF Document, Segment, SegmentOf

LEMMA WrittenDocument ==
    ASSUME TypeOK, NEW s \in Segment, WriteSegment(s)
    PROVE  /\ disk' \in [Target -> Document(env)]
           /\ \A u \in Target : u # t => disk'[u] = disk[u]
           /\ disk'[t].files = disk[t].files \cup {s}
           /\ disk'[t].broken = disk[t].broken \ {s}
           /\ \A l \in Leaf : disk'[t].leaf[l] =
                  IF SegmentOf(l) = s THEN working[l] ELSE disk[t].leaf[l]
<1> DEFINE files == disk[t].files \cup {s}
           broken == disk[t].broken \ {s}
           leaf == [l \in Leaf |-> IF SegmentOf(l) = s THEN working[l] ELSE disk[t].leaf[l]]
           d == [files |-> files, broken |-> broken, leaf |-> leaf]
<1>1. t \in Target /\ disk \in [Target -> Document(env)] /\ working \in [Leaf -> Value]
  BY EnvIs DEF TypeOK
<1>2. disk' = [disk EXCEPT ![t] = d]
  BY DEF WriteSegment, Saved
<1>3. d \in Document(env)
  <2>1. files \in SUBSET Segment /\ broken \in SUBSET files /\ leaf \in [Leaf -> Value]
    BY <1>1, LocaleFilesAre
  <2>2. \A l \in Leaf : leaf[l] # "absent" => SegmentOf(l) \in files \ broken
    BY <1>1, LocaleFilesAre
  <2> HIDE DEF files, broken, leaf
  <2> QED
    BY <2>1, <2>2, AreLocaleFiles
<1>4. disk'[t] = d /\ \A u \in Target : u # t => disk'[u] = disk[u]
  BY <1>1, <1>2
<1>5. disk' \in [Target -> Document(env)]
  BY <1>1, <1>2, <1>3
<1> QED
  BY <1>4, <1>5

LEMMA TornDocument ==
    ASSUME TypeOK, NEW s \in Segment, Tears(s)
    PROVE  /\ disk' \in [Target -> Document(env)]
           /\ \A u \in Target : u # t => disk'[u] = disk[u]
           /\ disk'[t].files = disk[t].files \cup {s}
           /\ disk'[t].broken = disk[t].broken \cup {s}
           /\ \A l \in Leaf : SegmentOf(l) # s => disk'[t].leaf[l] = disk[t].leaf[l]
<1> DEFINE files == disk[t].files \cup {s}
           broken == disk[t].broken \cup {s}
           leaf == [l \in Leaf |-> IF SegmentOf(l) = s THEN "absent" ELSE disk[t].leaf[l]]
           d == [files |-> files, broken |-> broken, leaf |-> leaf]
<1>1. t \in Target /\ disk \in [Target -> Document(env)] /\ "absent" \in Value
  BY EnvIs DEF TypeOK, Value
<1>2. disk' = [disk EXCEPT ![t] = d]
  BY DEF Tears, Torn
<1>3. d \in Document(env)
  <2>1. files \in SUBSET Segment /\ broken \in SUBSET files /\ leaf \in [Leaf -> Value]
    BY <1>1, LocaleFilesAre
  <2>2. \A l \in Leaf : leaf[l] # "absent" => SegmentOf(l) \in files \ broken
    BY <1>1, LocaleFilesAre
  <2> HIDE DEF files, broken, leaf
  <2> QED
    BY <2>1, <2>2, AreLocaleFiles
<1>4. disk'[t] = d /\ \A u \in Target : u # t => disk'[u] = disk[u]
  BY <1>1, <1>2
<1>5. disk' \in [Target -> Document(env)]
  BY <1>1, <1>2, <1>3
<1> QED
  BY <1>4, <1>5

LEMMA ChainNotEmpty == ASSUME ChainSound, chain \in Seq(Provider) PROVE Len(chain) \in Nat \ {0}
<1>1. 1 \in 1 .. Len(StartChain(policy))
  BY StartChainIs
<1>2. \E j \in 1 .. Len(chain) : chain[j] = StartChain(policy)[1]
  BY <1>1 DEF ChainSound
<1> QED
  BY <1>2

LEMMA HandoffChain ==
    ASSUME TypeOK, ChainInv, NEW p \in Catalog, HandoffPicked(p)
    PROVE  chain' \in Seq(Provider) /\ ChainSound'
<1>1. /\ pc = "pick" /\ p # chain[pi] /\ p \in Provider
      /\ chain' = Prioritize(chain, pi, p) /\ policy' = policy
  BY DEF HandoffPicked, config, Provider
<1>2. pi \in 1 .. Len(chain) /\ Once(chain) /\ chain \in Seq(Provider)
      /\ Elements(StartChain(policy)) \subseteq Elements(chain)
  BY <1>1, ChainSoundIs DEF ChainInv, TypeOK
<1>3. chain' \in Seq(Provider) /\ Once(chain') /\ Elements(chain) \subseteq Elements(chain')
  BY <1>1, <1>2, PrioritizeKeeps
<1>4. StartChain(policy') = StartChain(policy)
  BY <1>1
<1> QED
  BY <1>2, <1>3, <1>4 DEF ChainSound, Once, Elements

LEMMA TypeInit == ASSUME Init PROVE TypeOK
<1>1. env \in Environments /\ env.runs \in Nat /\ env.targets \in 1 .. NTargets
      /\ env.documents \subseteq [Target -> Document(env)] /\ NTargets \in Nat
  BY GenerateAssumption DEF Init, Target
<1>2. chain \in Seq(Provider) /\ pi \in Nat
  BY StartChainIs DEF Init
<1>3. runsLeft \in 0 .. env.runs /\ t \in 1 .. env.targets /\ abortedAt \in 0 .. NTargets
  BY <1>1 DEF Init
<1>4. streak \in [Provider -> Nat] /\ working \in [Leaf -> Value]
  BY DEF Init, Zero, Nothing, Value
<1> QED
  BY <1>1, <1>2, <1>3, <1>4 DEF Init, TypeOK

LEMMA ReportType ==
    ASSUME TypeOK, NEW row \in {"skipped", "partial", "written"}, Report(row)
    PROVE  /\ results' \in [Target -> {"none", "skipped", "partial", "written"}]
           /\ t' \in 1 .. env.targets
           /\ pc' \in {"idle", "target"} /\ ended' \in {"none", "ok", "threw", "crashed"}
<1>1. t \in 1 .. env.targets /\ env.targets \in Nat
  BY EnvIs DEF TypeOK, Target
<1>2. t' \in 1 .. env.targets
  BY <1>1 DEF Report
<1>3. results' \in [Target -> {"none", "skipped", "partial", "written"}]
  BY DEF Report, TypeOK
<1> QED
  BY <1>2, <1>3 DEF Report, EndRun, TypeOK

LEMMA TypeStep == ASSUME TypeOK, ChainInv, [Next]_vars PROVE TypeOK'
<1> USE DEF config, place, vars, Segment
<1>1. CASE UNCHANGED vars
  BY <1>1 DEF TypeOK
<1>2. CASE StartRun
  <2>1. chain' \in Seq(Provider) /\ streak' \in [Provider -> Nat] /\ working' \in [Leaf -> Value]
    BY <1>2, StartChainIs DEF StartRun, Zero, Nothing, Value
  <2>2. runsLeft' \in 0 .. env.runs /\ t' \in 1 .. env.targets /\ abortedAt' \in 0 .. NTargets
    <3>1. env.runs \in Nat /\ env.targets \in 1 .. NTargets /\ NTargets \in Nat
      BY GenerateAssumption DEF TypeOK, Target
    <3> QED
      BY <1>2, <3>1 DEF StartRun, TypeOK
  <2> QED
    BY <1>2, <2>1, <2>2 DEF StartRun, TypeOK
<1>3. CASE SkipTarget
  <2>1. Report("skipped")
    BY <1>3 DEF SkipTarget
  <2> QED
    BY <1>3, <2>1, ReportType DEF SkipTarget, TypeOK
<1>4. CASE OpenTarget
  <2>1. PICK m \in Opens \ {"skip"} :
            /\ mode' = [mode EXCEPT ![t] = m]
            /\ working' = WorkingFor(m)
            /\ chain' = IF m = "resume" THEN StartChain(policy) ELSE chain
    BY <1>4 DEF OpenTarget
  <2>2. m \in {"fresh", "fill", "force", "resume"}
    BY <2>1 DEF Opens
  <2>3. working' \in [Leaf -> Value]
    BY <2>1, EnvIs, LocaleFilesAre DEF WorkingFor, Seen, Nothing, Value
  <2>4. chain' \in Seq(Provider)
    BY <2>1, StartChainIs DEF TypeOK
  <2>5. attemptsRemaining' \in Nat /\ pi' \in Nat
    BY <1>4, EnvIs DEF OpenTarget, MaxAttempts, Policy
  <2>6. mode' \in [Target -> {"none", "fresh", "fill", "force", "resume"}]
    BY <2>1, <2>2 DEF TypeOK
  <2> QED
    BY <1>4, <2>3, <2>4, <2>5, <2>6 DEF OpenTarget, TypeOK
<1>5. CASE Throw /\ Awaits
  BY <1>5 DEF Throw, EndRun, TypeOK
<1>6. CASE AttemptSucceeds
  <2>1. working' \in [Leaf -> Value]
    BY <1>6, BuiltType DEF AttemptSucceeds
  <2>2. unwritten' \in SUBSET Segment
    BY <1>6 DEF AttemptSucceeds
  <2> QED
    BY <1>6, <2>1, <2>2 DEF AttemptSucceeds, TypeOK
<1>7. ASSUME NEW o \in Outcome, AttemptFails(o) PROVE TypeOK'
  <2>1. Advances /\ working' \in [Leaf -> Value]
    BY <1>7, FailureAdvances, BuiltType DEF AttemptFails
  <2>2. pi' \in Nat /\ attemptsRemaining' \in Nat
    BY <1>7 DEF AttemptFails, SpendAttempt, ChainInv, TypeOK
  <2>3. streak' \in [Provider -> Nat]
    <3>1. PICK p : streak' = [streak EXCEPT ![p] = @ + 1] \/ streak' = streak
      BY <1>7 DEF AttemptFails, HealthAfter
    <3>2. streak \in [Provider -> Nat]
      BY DEF TypeOK
    <3>3. ASSUME NEW q \in Provider PROVE [streak EXCEPT ![p] = @ + 1][q] \in Nat
      BY <3>2
    <3> QED
      BY <3>1, <3>2, <3>3
  <2> QED
    BY <1>7, <2>1, <2>2, <2>3 DEF AttemptFails, Advances, TypeOK
<1>8. ASSUME NEW o \in Outcome, ResumeFallsBack(o) PROVE TypeOK'
  <2>1. Advances /\ working' \in [Leaf -> Value]
    BY <1>8, FallbackAdvances, BuiltType DEF ResumeFallsBack
  <2>2. pi' \in Nat
    BY <1>8 DEF ResumeFallsBack, TypeOK
  <2> QED
    BY <1>8, <2>1, <2>2 DEF ResumeFallsBack, Advances, TypeOK
<1>9. ASSUME NEW p \in Catalog, HandoffPicked(p) PROVE TypeOK'
  <2>1. Advances /\ chain' \in Seq(Provider)
    BY <1>9, HandoffAdvances, HandoffChain
  <2>2. pi' \in Nat
    BY <1>9 DEF HandoffPicked, TypeOK
  <2> QED
    BY <1>9, <2>1, <2>2 DEF HandoffPicked, Advances, TypeOK
<1>10. CASE KeepPartial
  BY <1>10 DEF KeepPartial, FlagPartial, TypeOK
<1>11. ASSUME NEW s \in Segment, WriteSegment(s) PROVE TypeOK'
  <2>1. disk' \in [Target -> Document(env)]
    BY <1>11, WrittenDocument
  <2>2. unwritten' \in SUBSET Segment
    BY <1>11 DEF WriteSegment, TypeOK
  <2> QED
    BY <1>11, <2>1, <2>2 DEF WriteSegment, TypeOK
<1>12. CASE FinishTarget
  <2>1. PICK row \in {"skipped", "partial", "written"} : Report(row)
    BY <1>12 DEF FinishTarget
  <2> QED
    BY <1>12, <2>1, ReportType DEF FinishTarget, TypeOK
<1>13. CASE Abort
  <2>1. abortedAt' \in 0 .. NTargets
    BY <1>13, EnvIs DEF Abort, Target
  <2> QED
    BY <1>13, <2>1 DEF Abort, TypeOK
<1>14. CASE Stops
  <2>1. disk' \in [Target -> Document(env)]
    BY <1>14, TornDocument DEF Stops, TypeOK
  <2> QED
    BY <1>14, <2>1 DEF Stops, TypeOK
<1> QED
  BY <1>1, <1>2, <1>3, <1>4, <1>5, <1>6, <1>7, <1>8, <1>9, <1>10, <1>11, <1>12, <1>13, <1>14,
     NextSplits

-----------------------------------------------------------------------------
(* The chain.                                                               *)

LEMMA ChainStep == ASSUME TypeOK, TypeOK', ChainInv, [Next]_vars PROVE ChainInv'
<1> USE DEF config, place, vars
<1>1. Len(chain) \in Nat \ {0}
  BY ChainNotEmpty DEF ChainInv, TypeOK
<1>2. ASSUME UNCHANGED <<chain, policy>> PROVE ChainSound'
  BY <1>2 DEF ChainInv, ChainSound, StartChain
<1>3. ASSUME chain' = StartChain(policy), UNCHANGED policy PROVE ChainSound'
  BY <1>3, StartChainIs DEF ChainSound, StartChain, Once
<1>4. CASE UNCHANGED vars
  BY <1>2, <1>4 DEF ChainInv
<1>5. CASE StartRun
  BY <1>3, <1>5 DEF ChainInv, StartRun
<1>6. CASE OpenTarget
  <2>1. ChainSound' /\ chain' \in Seq(Provider)
    BY <1>2, <1>3, <1>6 DEF OpenTarget, TypeOK
  <2>2. Len(chain') \in Nat \ {0}
    <3>1. 1 \in 1 .. Len(StartChain(policy))
      BY StartChainIs
    <3>2. policy' = policy
      BY <1>6 DEF OpenTarget
    <3>3. StartChain(policy') = StartChain(policy)
      BY <3>2
    <3>4. \E j \in 1 .. Len(chain') : chain'[j] = StartChain(policy)[1]
      BY <2>1, <3>1, <3>3 DEF ChainSound
    <3> QED
      BY <2>1, <3>4
  <2>3. attemptsRemaining' # 0 /\ pi' = 1
    BY <1>6, EnvIs DEF OpenTarget, MaxAttempts, Policy
  <2> QED
    BY <1>6, <2>1, <2>2, <2>3 DEF ChainInv
<1>7. ASSUME NEW o \in Outcome, AttemptFails(o) PROVE ChainInv'
  <2>1. ChainSound'
    BY <1>2, <1>7 DEF AttemptFails
  <2>2. pi \in 1 .. Len(chain) /\ chain' = chain /\ pi' \in Nat
    BY <1>7 DEF AttemptFails, ChainInv, TypeOK
  <2>3. pc' \in {"attempt", "pick"} => pi' \in 1 .. Len(chain')
    BY <1>1, <1>7, <2>2 DEF AttemptFails, HasNext, LoopHead, EndRun
  <2>4. pc' = "attempt" => attemptsRemaining' # 0
    BY <1>7 DEF AttemptFails, LoopHead, EndRun
  <2> QED
    BY <2>1, <2>3, <2>4 DEF ChainInv
<1>8. ASSUME NEW o \in Outcome, ResumeFallsBack(o) PROVE ChainInv'
  <2>1. ChainSound'
    BY <1>2, <1>8 DEF ResumeFallsBack
  <2> QED
    BY <1>1, <1>8, <2>1 DEF ResumeFallsBack, HasNext, EndRun, ChainInv, TypeOK
<1>9. ASSUME NEW p \in Catalog, HandoffPicked(p) PROVE ChainInv'
  <2>1. ChainSound' /\ chain' \in Seq(Provider)
    BY <1>9, HandoffChain
  <2>2. Len(chain') \in Nat /\ pi' \in Nat /\ pi' > 0
    BY <1>9, <2>1 DEF HandoffPicked, TypeOK
  <2>3. pc' \in {"attempt", "pick"} => pc' = "attempt" /\ pi' <= Len(chain') /\ attemptsRemaining' # 0
    BY <1>9, <2>2 DEF HandoffPicked, LoopHead, EndRun
  <2> QED
    BY <2>1, <2>2, <2>3 DEF ChainInv
<1>10. CASE (Throw /\ Awaits) \/ AttemptSucceeds \/ KeepPartial \/ Stops
           \/ \E s \in Segment : WriteSegment(s)
  <2>1. UNCHANGED <<chain, policy>> /\ pc' \in {"idle", "write"}
    BY <1>10 DEF Throw, EndRun, AttemptSucceeds, KeepPartial, Stops, WriteSegment, Writes
  <2> QED
    BY <1>2, <2>1 DEF ChainInv
<1>11. CASE SkipTarget \/ FinishTarget
  <2>1. UNCHANGED <<chain, policy>> /\ pc' \in {"idle", "target"}
    BY <1>11 DEF SkipTarget, FinishTarget, Report, EndRun
  <2> QED
    BY <1>2, <2>1 DEF ChainInv
<1>12. CASE Abort
  BY <1>2, <1>12 DEF Abort, ChainInv
<1> QED
  BY <1>4, <1>5, <1>6, <1>7, <1>8, <1>9, <1>10, <1>11, <1>12, NextSplits

-----------------------------------------------------------------------------
(* What a run has not reported.                                             *)

LEMMA FilesStep == ASSUME TypeOK, TypeOK', FilesInv, [Next]_vars PROVE FilesInv'
<1> USE DEF config, place, vars
<1>0. t \in Target /\ t \in Nat /\ NTargets \in Nat /\ env.targets \in Nat /\ env.targets <= NTargets
  BY EnvIs DEF Target
<1>1. CASE UNCHANGED vars
  BY <1>1 DEF FilesInv, Pristine
<1>2. CASE StartRun
  BY <1>0, <1>2, EnvIs DEF StartRun, FilesInv, Pristine, Target
<1>3. CASE SkipTarget \/ FinishTarget
  <2>1. PICK row \in {"skipped", "partial", "written"} : Report(row)
    BY <1>3 DEF SkipTarget, FinishTarget
  <2>2. UNCHANGED <<disk, before, mode, unwritten>> /\ pc # "idle" /\ unwritten = {}
    BY <1>3 DEF SkipTarget, FinishTarget, FilesInv
  <2>3. results'[t] = row /\ \A u \in Target : u # t => results'[u] = results[u]
    BY <1>0, <2>1 DEF Report, TypeOK
  <2>4. ended = "none"
    BY <2>2 DEF FilesInv
  <2>5. ASSUME NEW u \in Target, results'[u] = "none" PROVE disk'[u] = before'[u]
    BY <2>2, <2>3, <2>4, <2>5 DEF FilesInv
  <2>6. ASSUME NEW u \in Target, u > t PROVE Pristine(u)'
    BY <1>0, <2>2, <2>3, <2>6 DEF FilesInv, Pristine, Target
  <2>7. CASE t = env.targets
    <3>1. pc' = "idle" /\ t' = t
      BY <2>1, <2>7 DEF Report, EndRun
    <3> QED
      BY <2>5, <2>6, <3>1 DEF FilesInv
  <2>8. CASE t # env.targets
    <3>1. pc' = "target" /\ t' = t + 1 /\ ended' = "none" /\ t' \in Target
      BY <1>0, <2>1, <2>4, <2>8, EnvIs DEF Report, Target, TypeOK
    <3>2. ASSUME NEW u \in Target, u > t' \/ u = t' PROVE Pristine(u)'
      BY <1>0, <2>6, <3>1, <3>2 DEF Target
    <3>3. pc' # "idle" => ended' = "none" /\ results'[t'] = "none"
      BY <3>1, <3>2 DEF Pristine
    <3> QED
      BY <2>2, <2>5, <3>1, <3>2, <3>3 DEF FilesInv
  <2> QED
    BY <2>7, <2>8
<1>4. CASE OpenTarget
  <2>1. /\ UNCHANGED <<disk, before, results, ended, t, unwritten>> /\ pc = "target" /\ pc' = "attempt"
        /\ \A u \in Target : u # t => mode'[u] = mode[u]
    BY <1>0, <1>4 DEF OpenTarget, TypeOK
  <2> QED
    BY <1>0, <2>1 DEF FilesInv, Pristine, Target
<1>5. CASE Throw /\ Awaits
  BY <1>0, <1>5 DEF Throw, Awaits, EndRun, FilesInv, Pristine
<1>6. CASE AttemptSucceeds
  BY <1>0, <1>6 DEF AttemptSucceeds, FilesInv, Pristine
<1>7. CASE Advances
  BY <1>0, <1>7 DEF Advances, FilesInv, Pristine
<1>8. CASE KeepPartial
  BY <1>0, <1>8 DEF KeepPartial, FilesInv, Pristine
<1>9. ASSUME NEW s \in Segment, WriteSegment(s) PROVE FilesInv'
  <2>1. /\ pc = "write" /\ UNCHANGED <<pc, before, results, ended, t, mode>>
        /\ \A u \in Target : u # t => disk'[u] = disk[u]
    BY <1>9, WrittenDocument DEF WriteSegment, Writes
  <2> QED
    BY <1>0, <2>1 DEF FilesInv, Pristine, Target
<1>10. CASE Abort
  BY <1>0, <1>10 DEF Abort, FilesInv, Pristine
<1>11. CASE Stops
  <2>1. /\ pc # "idle" /\ pc' = "idle" /\ UNCHANGED <<before, results, t, mode, unwritten>>
        /\ ended' = "crashed" \/ unwritten # {}
        /\ \A u \in Target : u # t => disk'[u] = disk[u]
    BY <1>11, TornDocument DEF Stops
  <2>2. ended = "none" /\ \A u \in Target : u > t => Pristine(u)
    BY <2>1 DEF FilesInv
  <2>3. \A u \in Target : u # t /\ results[u] = "none" => disk[u] = before[u]
    BY <2>2 DEF FilesInv
  <2> QED
    BY <1>0, <2>1, <2>2, <2>3 DEF FilesInv, Pristine, Target
<1> QED
  BY <1>1, <1>2, <1>3, <1>4, <1>5, <1>6, <1>7, <1>8, <1>9, <1>10, <1>11, NextIs

LEMMA AbortStep == ASSUME TypeOK, FilesInv, AbortInv, [Next]_vars PROVE AbortInv'
<1> USE DEF config, place, vars
<1>0. t \in Target /\ t \in Nat /\ NTargets \in Nat /\ env.targets \in Nat /\ env.targets <= NTargets
      /\ abortedAt \in Nat
  BY EnvIs DEF Target, TypeOK
<1>1. CASE UNCHANGED vars
  BY <1>1 DEF AbortInv, Pristine, aborted
<1>2. CASE StartRun
  BY <1>2 DEF StartRun, AbortInv, aborted
<1>3. CASE SkipTarget \/ OpenTarget
  BY <1>0, <1>3 DEF SkipTarget, OpenTarget, ThrowIfAborted, AbortInv, aborted
<1>4. CASE FinishTarget
  <2>1. UNCHANGED <<disk, before, mode, abortedAt>> /\ pc = "write"
    BY <1>4 DEF FinishTarget
  <2>2. PICK row \in {"partial", "written"} : Report(row)
    BY <1>4 DEF FinishTarget
  <2>3. SUFFICES ASSUME aborted PROVE AbortInv'
    BY <2>1 DEF AbortInv, aborted
  <2>4. t = abortedAt
    BY <2>1, <2>3 DEF AbortInv
  <2>5. CASE t = env.targets
    BY <2>1, <2>2, <2>4, <2>5 DEF Report, EndRun, AbortInv
  <2>6. CASE t # env.targets
    <3>1. pc' = "target" /\ t' = t + 1
      BY <2>2, <2>6 DEF Report
    <3>2. t + 1 \in Target /\ t + 1 > t
      BY <1>0, <2>6, EnvIs DEF Target, TypeOK
    <3>3. Pristine(t + 1)
      BY <3>2 DEF FilesInv
    <3>4. results'[t + 1] = results[t + 1]
      BY <1>0, <2>2, <3>2 DEF Report, TypeOK
    <3> QED
      BY <2>1, <2>4, <3>1, <3>3, <3>4 DEF AbortInv, Pristine
  <2> QED
    BY <2>5, <2>6
<1>5. CASE (Throw /\ Awaits)
  BY <1>0, <1>5 DEF Throw, Awaits, EndRun, AbortInv, Pristine, aborted
<1>8. CASE Stops
  <2>1. CASE UNCHANGED disk
    BY <1>0, <1>8, <2>1 DEF Stops, AbortInv, Pristine, aborted
  <2>2. CASE \E s \in Segment : Tears(s)
    BY <1>0, <1>8, <2>2 DEF Stops, Tears, Writes, AbortInv, aborted
  <2> QED
    BY <1>8, <2>1, <2>2 DEF Stops
<1>6. CASE AttemptSucceeds \/ Advances \/ KeepPartial \/ \E s \in Segment : WriteSegment(s)
  BY <1>0, <1>6 DEF AttemptSucceeds, Advances, KeepPartial, WriteSegment, Writes,
                      AbortInv, aborted
<1>7. CASE Abort
  BY <1>0, <1>7 DEF Abort, AbortInv, aborted
<1> QED
  BY <1>1, <1>2, <1>3, <1>4, <1>5, <1>6, <1>7, <1>8, NextIs

LEMMA AbortIs == ASSUME TypeOK, FilesInv, AbortInv PROVE AbortStopsTargets
<1>1. t \in Nat /\ NTargets \in Nat /\ abortedAt \in Nat /\ t \in Target
  BY EnvIs DEF Target, TypeOK
<1> SUFFICES ASSUME aborted, NEW u \in abortedAt + 1 .. NTargets PROVE Pristine(u)
  BY DEF AbortStopsTargets, Pristine
<1>2. u \in Target
  BY <1>1 DEF Target
<1>3. CASE t = abortedAt
  BY <1>1, <1>2, <1>3 DEF FilesInv
<1>4. CASE t = abortedAt + 1 /\ Pristine(t)
  BY <1>1, <1>2, <1>4 DEF FilesInv
<1> QED
  BY <1>3, <1>4 DEF AbortInv

-----------------------------------------------------------------------------
(* The document being built.                                                *)

(* Between two runs of the pool the file is as it was when the run began.   *)
LEMMA FileIs ==
    ASSUME TypeOK, FilesInv, pc # "idle", pc # "write"
    PROVE  disk[t] = before[t] /\ t \in Target /\ results[t] = "none"
BY EnvIs DEF FilesInv

(* One run of the pool keeps every text the mode promises to keep, and all  *)
(* of it leaves no leaf out.                                                *)
Promise(w) ==
    /\ mode[t] = "fresh" =>
           \A l \in Leaf : Began(l) \in Translated => w[l] \in {"absent", Began(l)}
    /\ mode[t] \in {"fill", "resume"} =>
           \A l \in Leaf : Began(l) \in Translated => w[l] = Began(l)
    /\ mode[t] = "fill" =>
           \A l \in Leaf : Began(l) \notin {"absent", "leak"} => w[l] = Began(l)

LEMMA BuiltIs ==
    ASSUME TypeOK, NEW answer \in Answers, NEW upto, NEW l \in Leaf
    PROVE  Built(answer, upto)[l] =
               IF l >= upto \/ l \notin ActiveIn(mode[t]) THEN working[l]
               ELSE IF l \in Todo THEN answer[l]
               ELSE IF KeepsDisk(l) THEN Seen(disk[t])[l] ELSE working[l]
BY DEF Built

LEMMA BuiltPromise ==
    ASSUME TypeOK, FilesInv, WorkInv, AtWork, pc # "write", NEW answer \in Answers, NEW upto
    PROVE  Promise(Built(answer, upto))
<1>1. disk[t] = before[t] /\ t \in Target
  BY FileIs DEF AtWork
<1>2. \A l \in Leaf : Seen(disk[t])[l] # "absent" => disk[t].files # {}
  BY <1>1, LocaleFilesAre DEF Seen, Nothing
<1>3. ASSUME NEW l \in Leaf, Began(l) \in Translated, mode[t] # "force" PROVE KeepsDisk(l) /\ l \notin Todo
  <2>1. KeepsDisk(l)
    BY <1>1, <1>3 DEF KeepsDisk, Began
  <2>2. Seen(disk[t])[l] \notin {"same", "leak", "absent"}
    BY <1>1, <1>3 DEF Began, Translated
  <2>3. disk[t].files # {}
    BY <1>2, <2>2
  <2> QED
    BY <2>1, <2>2, <2>3 DEF Todo
<1>4. ASSUME NEW l \in Leaf, Began(l) \notin {"absent", "leak"}, mode[t] = "fill"
      PROVE  l \notin ActiveIn(mode[t])
  BY <1>1, <1>4 DEF ActiveIn, Began
<1>5. Promise(working)
  BY DEF WorkInv, Promise
<1>6. ASSUME NEW l \in Leaf, Began(l) \in Translated, mode[t] # "force"
      PROVE  Built(answer, upto)[l] \in {working[l], Began(l)}
  BY <1>1, <1>3, <1>6, BuiltIs DEF Began
<1>7. ASSUME NEW l \in Leaf, Began(l) \notin {"absent", "leak"}, mode[t] = "fill"
      PROVE  Built(answer, upto)[l] = working[l]
  BY <1>4, <1>7, BuiltIs
<1> QED
  BY <1>5, <1>6, <1>7 DEF Promise

LEMMA BuiltComplete ==
    ASSUME TypeOK, FilesInv, WorkInv, AtWork, pc # "write", mode[t] # "resume",
           NEW answer \in Answers, NEW l \in Leaf
    PROVE  Built(answer, NLeaves + 1)[l] # "absent"
<1>1. disk[t] = before[t] /\ t \in Target
  BY FileIs DEF AtWork
<1>2. ~(l >= NLeaves + 1)
  BY GenerateAssumption DEF Leaf
<1>3. CASE l \notin ActiveIn(mode[t])
  <2>1. mode[t] = "fill" /\ Began(l) \notin {"absent", "leak"}
    BY <1>1, <1>3 DEF ActiveIn, Began
  <2>2. working[l] = Began(l)
    BY <2>1 DEF WorkInv
  <2> QED
    BY <1>3, <2>1, <2>2, BuiltIs
<1>4. CASE l \in Todo
  <2>1. answer[l] \in {"new", "same"} /\ l \in ActiveIn(mode[t])
    BY <1>4 DEF Answers, Todo
  <2> QED
    BY <1>2, <1>4, <2>1, BuiltIs
<1>5. CASE l \in ActiveIn(mode[t]) /\ l \notin Todo
  <2>1. KeepsDisk(l) \/ working[l] \in Translated
    BY <1>5 DEF Todo
  <2>2. KeepsDisk(l) => Seen(disk[t])[l] \in Translated
    BY DEF KeepsDisk
  <2>3. Built(answer, NLeaves + 1)[l] = IF KeepsDisk(l) THEN Seen(disk[t])[l] ELSE working[l]
    BY <1>2, <1>5, BuiltIs
  <2> QED
    BY <2>1, <2>2, <2>3 DEF Translated
<1> QED
  BY <1>3, <1>4, <1>5

(* A target opened from scratch without --force has nothing to lose, or a   *)
(* leaked sentinel.                                                         *)
LEMMA OpensFresh ==
    ASSUME TypeOK, "fresh" \in Opens
    PROVE  \/ \A l \in Leaf : Seen(disk[t])[l] = "absent"
           \/ \E l \in Leaf : Seen(disk[t])[l] = "leak"
<1>1. \A l \in Leaf : disk[t].leaf[l] # "absent" => SegmentOf(l) \in disk[t].files
  BY EnvIs, LocaleFilesAre
<1>2. Preflight = "proceed"
  BY DEF Opens, OpensInteractively, OpensSilently
<1>3. disk[t].files = {} \/ ~IsKnown(disk[t]) \/ \E l \in Leaf : disk[t].leaf[l] = "leak"
  BY <1>2 DEF Preflight
<1> QED
  BY <1>1, <1>3 DEF IsKnown, Seen, Nothing

LEMMA WorkStep == ASSUME TypeOK, FilesInv, WorkInv, [Next]_vars PROVE WorkInv'
<1> USE DEF config, place, vars
<1>1. ASSUME UNCHANGED <<before, t, mode, working>>, AtWork PROVE WorkInv'
  BY <1>1 DEF WorkInv, Began
<1>2. CASE UNCHANGED vars
  BY <1>2 DEF WorkInv, Began, AtWork
<1>3. CASE OpenTarget
  <2>1. PICK m \in Opens \ {"skip"} : mode' = [mode EXCEPT ![t] = m] /\ working' = WorkingFor(m)
    BY <1>3 DEF OpenTarget
  <2>2. t' = t /\ UNCHANGED before /\ pc = "target" /\ t \in Target
    BY <1>3, EnvIs DEF OpenTarget
  <2>3. disk[t] = before[t]
    BY <2>2, FileIs
  <2>4. mode'[t] = m /\ m \in {"fresh", "fill", "force", "resume"}
    BY <2>1, <2>2 DEF Opens, TypeOK
  <2>5. m = "fresh" => \/ \A l \in Leaf : Began(l) = "absent"
                       \/ \E l \in Leaf : Began(l) = "leak"
    BY <2>1, <2>3, OpensFresh DEF Began
  <2>6. m = "fresh" => \A l \in Leaf : working'[l] = "absent"
    BY <2>1 DEF WorkingFor, Nothing
  <2>7. m \in {"fill", "resume"} => \A l \in Leaf : working'[l] = Began(l)
    BY <2>1, <2>3 DEF WorkingFor, Began
  <2>8. \A l \in Leaf : Began(l)' = Began(l)
    BY <2>2 DEF Began
  <2> QED
    BY <2>2, <2>4, <2>5, <2>6, <2>7, <2>8 DEF WorkInv
<1>4. CASE AttemptSucceeds
  <2>1. PICK answer \in Answers : working' = Built(answer, NLeaves + 1)
    BY <1>4 DEF AttemptSucceeds
  <2>2. AtWork /\ pc # "write" /\ UNCHANGED <<before, t, mode>>
    BY <1>4 DEF AttemptSucceeds, AtWork
  <2>3. Promise(working')
    BY <2>1, <2>2, BuiltPromise
  <2> QED
    BY <2>2, <2>3 DEF WorkInv, Promise, Began
<1>5. CASE Advances
  <2>1. AtWork /\ pc # "write" /\ UNCHANGED <<before, t, mode>>
    BY <1>5 DEF Advances, AtWork
  <2>2. CASE UNCHANGED working
    BY <1>1, <2>1, <2>2
  <2>3. ASSUME NEW upto \in Todo, NEW answer \in Answers, working' = Built(answer, upto)
        PROVE  WorkInv'
    <3>1. Promise(working')
      BY <2>1, <2>3, BuiltPromise
    <3> QED
      BY <2>1, <3>1 DEF WorkInv, Promise, Began
  <2> QED
    BY <1>5, <2>2, <2>3 DEF Advances
<1>6. CASE StartRun \/ SkipTarget \/ FinishTarget \/ (Throw /\ Awaits) \/ Stops
  <2>1. ~AtWork'
    BY <1>6 DEF StartRun, SkipTarget, FinishTarget, Report, Throw, Stops, EndRun, AtWork
  <2> QED
    BY <2>1 DEF WorkInv
<1>7. CASE KeepPartial \/ \E s \in Segment : WriteSegment(s)
  BY <1>1, <1>7 DEF KeepPartial, WriteSegment, Writes, AtWork
<1>8. CASE Abort
  BY <1>1, <1>8 DEF Abort, WorkInv, AtWork
<1> QED
  BY <1>2, <1>3, <1>4, <1>5, <1>6, <1>7, <1>8, NextIs

-----------------------------------------------------------------------------
(* The writes.                                                              *)

LEMMA WriteStep == ASSUME TypeOK, FilesInv, WorkInv, WriteInv, [Next]_vars PROVE WriteInv'
<1> USE DEF config, place, vars
<1>0. ASSUME disk[t] = before[t], UNCHANGED <<before, t, disk, env>> PROVE \A s \in Segment : Untouched(s)'
  BY <1>0 DEF Untouched, SegmentOf
<1>1. CASE UNCHANGED vars
  BY <1>1 DEF WriteInv, Untouched, Rewritten, Segment, SegmentOf
<1>2. CASE AttemptSucceeds
  <2>1. PICK answer \in Answers : working' = Built(answer, NLeaves + 1)
    BY <1>2 DEF AttemptSucceeds
  <2>2. AtWork /\ pc # "write" /\ UNCHANGED <<before, t, mode, disk, env>>
    BY <1>2 DEF AttemptSucceeds, AtWork
  <2>3. disk[t] = before[t]
    BY <2>2, FileIs DEF AtWork
  <2>4. unwritten' = Segment \/ (unwritten' = {} /\ mode[t] = "resume")
    BY <1>2 DEF AttemptSucceeds
  <2>5. mode[t] # "resume" => \A l \in Leaf : working'[l] # "absent"
    BY <2>1, <2>2, BuiltComplete
  <2>6. \A s \in Segment : Untouched(s)'
    BY <1>0, <2>2, <2>3
  <2>7. Segment' = Segment
    BY <2>2 DEF Segment
  <2> QED
    BY <2>2, <2>3, <2>4, <2>5, <2>6, <2>7 DEF WriteInv
<1>3. CASE KeepPartial
  <2>1. pc = "incomplete" /\ unwritten' = Segment /\ partial' = TRUE
        /\ UNCHANGED <<before, t, mode, disk, env>>
    BY <1>3 DEF KeepPartial, FlagPartial
  <2>2. disk[t] = before[t]
    BY <2>1, FileIs
  <2>3. \A s \in Segment : Untouched(s)'
    BY <1>0, <2>1, <2>2
  <2>4. Segment' = Segment
    BY <2>1 DEF Segment
  <2> QED
    BY <2>1, <2>2, <2>3, <2>4 DEF WriteInv
<1>4. ASSUME NEW s \in Segment, WriteSegment(s) PROVE WriteInv'
  <2>1. pc = "write" /\ UNCHANGED <<before, t, mode, working, partial, env>>
        /\ s \in unwritten /\ unwritten' = unwritten \ {s} /\ unwritten \subseteq Segment
    BY <1>4 DEF WriteSegment, Writes, TypeOK
  <2>2. /\ disk'[t].files = disk[t].files \cup {s}
        /\ disk'[t].broken = disk[t].broken \ {s}
        /\ \A l \in Leaf : disk'[t].leaf[l] =
               IF SegmentOf(l) = s THEN working[l] ELSE disk[t].leaf[l]
    BY <1>4, WrittenDocument
  <2>3. Segment' = Segment /\ \A l \in Leaf : SegmentOf(l)' = SegmentOf(l)
    BY <2>1 DEF Segment, SegmentOf
  <2>4. ASSUME NEW r \in unwritten' PROVE Untouched(r)'
    <3>1. r # s /\ Untouched(r)
      BY <2>1, <2>4 DEF WriteInv
    <3> QED
      BY <2>1, <2>2, <2>3, <3>1 DEF Untouched
  <2>5. ASSUME NEW r \in Segment, r \notin unwritten' PROVE Rewritten(r)'
    <3>1. CASE r = s
      BY <2>1, <2>2, <2>3, <3>1 DEF Rewritten
    <3>2. CASE r # s
      <4>1. Rewritten(r)
        BY <2>1, <2>5, <3>2 DEF WriteInv
      <4> QED
        BY <2>1, <2>2, <2>3, <3>2, <4>1 DEF Rewritten
    <3> QED
      BY <3>1, <3>2
  <2>6. mode[t] # "resume" /\ ~partial => \A l \in Leaf : working[l] # "absent"
    BY <2>1 DEF WriteInv
  <2>7. disk'[t].broken \subseteq before[t].broken
    BY <2>1, <2>2 DEF WriteInv
  <2> QED
    BY <2>1, <2>3, <2>4, <2>5, <2>6, <2>7 DEF WriteInv
<1>5. CASE StartRun \/ SkipTarget \/ OpenTarget \/ (Throw /\ Awaits) \/ Advances \/ FinishTarget
          \/ Abort \/ Stops
  <2>1. pc' # "write"
    BY <1>5 DEF StartRun, SkipTarget, OpenTarget, Throw, Awaits, Advances, FinishTarget, Report,
               EndRun, Abort, Stops
  <2> QED
    BY <2>1 DEF WriteInv
<1> QED
  BY <1>1, <1>2, <1>3, <1>4, <1>5, NextIs

(* The files and what is reported of them change in six actions only.       *)
LEMMA FilesStay ==
    ASSUME [Next]_vars
    PROVE  \/ StartRun \/ SkipTarget \/ FinishTarget \/ OpenTarget
           \/ \E s \in Segment : WriteSegment(s)
           \/ Stops
           \/ UNCHANGED <<env, disk, before, mode, results>>
BY NextIs DEF Throw, AttemptSucceeds, Advances, KeepPartial, Abort, config, place, vars

LEMMA TextStep ==
    ASSUME TypeOK, FilesInv, WorkInv, WriteInv, KeepsText, [Next]_vars
    PROVE  KeepsText'
<1>0. ASSUME env' = env PROVE \A l \in Leaf : SegmentOf(l)' = SegmentOf(l)
  BY <1>0 DEF SegmentOf
<1>1. CASE UNCHANGED <<env, disk, before, mode>>
  BY <1>0, <1>1 DEF KeepsText
<1>2. CASE StartRun
  <2>1. /\ UNCHANGED disk /\ before' = disk
    BY <1>2 DEF StartRun
  <2> QED
    BY <2>1 DEF KeepsText
<1>3. CASE SkipTarget \/ FinishTarget
  BY <1>1, <1>3 DEF SkipTarget, FinishTarget, config
<1>4. CASE OpenTarget
  <2>1. /\ UNCHANGED <<env, disk, before>> /\ pc = "target"
        /\ \A u \in Target : u # t => mode'[u] = mode[u]
    BY <1>4 DEF OpenTarget, TypeOK, config
  <2>2. disk[t] = before[t]
    BY <2>1, FileIs
  <2> QED
    BY <1>0, <2>1, <2>2 DEF KeepsText
<1>5. ASSUME NEW s \in Segment, WriteSegment(s) PROVE KeepsText'
  <2>1. pc = "write" /\ UNCHANGED <<env, before, mode>>
    BY <1>5 DEF WriteSegment, Writes, place, config
  <2>2. /\ \A u \in Target : u # t => disk'[u] = disk[u]
        /\ disk'[t].broken = disk[t].broken \ {s}
        /\ \A l \in Leaf : disk'[t].leaf[l] =
               IF SegmentOf(l) = s THEN working[l] ELSE disk[t].leaf[l]
    BY <1>5, WrittenDocument
  <2>3. ASSUME NEW l \in Leaf, mode[t] # "force", before[t].broken = {},
               \A k \in Leaf : before[t].leaf[k] # "leak",
               before[t].leaf[l] \in Translated
        PROVE  working[l] = before[t].leaf[l]
    <3>1. \A k \in Leaf : Began(k) = before[t].leaf[k]
      BY <2>3 DEF Began, Seen
    <3>2. mode[t] \in {"fresh", "fill", "resume"}
      BY <2>1, <2>3 DEF WorkInv, AtWork
    <3>3. mode[t] # "fresh"
      BY <2>1, <2>3, <3>1 DEF WorkInv, AtWork, Translated
    <3> QED
      BY <2>1, <2>3, <3>1, <3>2, <3>3 DEF WorkInv, AtWork
  <2>4. t \in Target
    BY EnvIs
  <2> SUFFICES ASSUME NEW u \in Target, mode[u] # "force", before[u].broken = {},
                      \A k \in Leaf : before[u].leaf[k] # "leak"
               PROVE  /\ \A l \in Leaf :
                             before[u].leaf[l] \in Translated /\ SegmentOf(l) \notin disk'[u].broken
                             => disk'[u].leaf[l] = before[u].leaf[l]
                      /\ \A q, r \in disk'[u].broken : q = r
    BY <1>0, <2>1 DEF KeepsText
  <2>5. /\ \A l \in Leaf : before[u].leaf[l] \in Translated /\ SegmentOf(l) \notin disk[u].broken
                => disk[u].leaf[l] = before[u].leaf[l]
        /\ \A q, r \in disk[u].broken : q = r
    BY DEF KeepsText
  <2> QED
    BY <2>2, <2>3, <2>5
<1>6. CASE Stops
  <2>1. UNCHANGED <<env, before, mode>>
    BY <1>6 DEF Stops, place, config
  <2>2. CASE UNCHANGED disk
    BY <1>1, <2>1, <2>2
  <2>3. ASSUME NEW s \in Segment, Tears(s) PROVE KeepsText'
    <3>1. pc = "write"
      BY <2>3 DEF Tears, Writes
    <3>2. /\ \A u \in Target : u # t => disk'[u] = disk[u]
          /\ disk'[t].broken = disk[t].broken \cup {s}
          /\ \A l \in Leaf : SegmentOf(l) # s => disk'[t].leaf[l] = disk[t].leaf[l]
      BY <2>3, TornDocument
    <3>3. disk[t].broken \subseteq before[t].broken
      BY <3>1 DEF WriteInv
    <3> SUFFICES ASSUME NEW u \in Target, mode[u] # "force", before[u].broken = {},
                        \A k \in Leaf : before[u].leaf[k] # "leak"
                 PROVE  /\ \A l \in Leaf :
                               before[u].leaf[l] \in Translated /\ SegmentOf(l) \notin disk'[u].broken
                               => disk'[u].leaf[l] = before[u].leaf[l]
                        /\ \A q, r \in disk'[u].broken : q = r
      BY <1>0, <2>1 DEF KeepsText
    <3>4. /\ \A l \in Leaf : before[u].leaf[l] \in Translated /\ SegmentOf(l) \notin disk[u].broken
                  => disk[u].leaf[l] = before[u].leaf[l]
          /\ \A q, r \in disk[u].broken : q = r
      BY DEF KeepsText
    <3> QED
      BY <3>2, <3>3, <3>4
  <2> QED
    BY <1>6, <2>2, <2>3 DEF Stops
<1> QED
  BY <1>1, <1>2, <1>3, <1>4, <1>5, <1>6, FilesStay

(* The end of a run by a throw, and what it left of the target at work.     *)
LEMMA ThrowStep ==
    ASSUME TypeOK, TypeOK', FilesInv, FilesInv', WriteInv, ThrowKeepsFiles, [Next]_vars
    PROVE  ThrowKeepsFiles'
<1> DEFINE LeftBy == WriteFailed =>
                       \A s \in Segment :
                           IF s \notin unwritten THEN Rewritten(s)
                           ELSE (\E r \in unwritten : r < s) => Untouched(s)
<1>1. SUFFICES ASSUME ended' = "threw" PROVE LeftBy'
  <2>1. ended' = "threw" => pc' = "idle"
    BY DEF FilesInv
  <2>2. ended' = "threw" => \A u \in Target :
            results'[u] = "none" /\ ~(unwritten' # {} /\ u = t') => disk'[u] = before'[u]
    BY <2>1 DEF FilesInv
  <2> QED
    BY <1>1, <2>2 DEF ThrowKeepsFiles, WriteFailed
<1> HIDE DEF LeftBy
<1>2. ASSUME UNCHANGED vars PROVE LeftBy'
  <2>1. LeftBy
    BY <1>1, <1>2 DEF ThrowKeepsFiles, LeftBy, vars
  <2> QED
    BY <1>2, <2>1 DEF LeftBy, WriteFailed, Rewritten, Untouched, Segment, SegmentOf, vars, config, place
<1>3. ASSUME unwritten' = {} PROVE LeftBy'
  BY <1>3 DEF LeftBy, WriteFailed
<1>4. CASE Throw /\ Awaits
  <2>1. unwritten = {} /\ UNCHANGED unwritten
    BY <1>4 DEF FilesInv, Throw, Awaits
  <2> QED
    BY <1>3, <2>1
<1>5. CASE Advances
  <2>1. unwritten = {} /\ UNCHANGED unwritten
    BY <1>5 DEF FilesInv, Advances
  <2> QED
    BY <1>3, <2>1
<1>6. CASE StartRun \/ SkipTarget \/ OpenTarget \/ AttemptSucceeds \/ KeepPartial \/ FinishTarget
          \/ Abort \/ \E s \in Segment : WriteSegment(s)
  <2>1. ended' # "threw"
    BY <1>6 DEF StartRun, SkipTarget, OpenTarget, AttemptSucceeds, KeepPartial, FinishTarget,
               Abort, WriteSegment, Writes, Report, EndRun, FilesInv
  <2> QED
    BY <1>1, <2>1
<1>7. ASSUME Stops, NEW q \in Segment, FailsAt(q) PROVE LeftBy'
  <2>1. /\ pc = "write" /\ q \in unwritten /\ \A r \in unwritten : q <= r
        /\ UNCHANGED <<env, before, t, working, unwritten>>
    BY <1>7 DEF Stops, FailsAt, Writes, place, config
  <2>2. Segment' = Segment /\ \A l \in Leaf : SegmentOf(l)' = SegmentOf(l)
    BY <2>1 DEF Segment, SegmentOf
  <2>3. ASSUME NEW s \in Segment, s # q
        PROVE  /\ s \in disk'[t].files <=> s \in disk[t].files
               /\ s \in disk'[t].broken <=> s \in disk[t].broken
               /\ \A l \in Leaf : SegmentOf(l) = s => disk'[t].leaf[l] = disk[t].leaf[l]
    BY <1>7, <2>3, TornDocument DEF FailsAt
  <2>4. ASSUME NEW s \in Segment, s \notin unwritten PROVE Rewritten(s)'
    <3>1. Rewritten(s) /\ s # q
      BY <2>1, <2>4 DEF WriteInv
    <3> QED
      BY <2>1, <2>2, <2>3, <3>1 DEF Rewritten
  <2>5. ASSUME NEW s \in Segment, s \in unwritten, NEW r \in unwritten, r < s
        PROVE  Untouched(s)'
    <3>1. Untouched(s)
      BY <2>1, <2>5 DEF WriteInv
    <3>2. s # q
      <4>1. unwritten \subseteq Segment
        BY DEF TypeOK
      <4>2. q \in Int /\ r \in Int /\ q <= r
        BY <2>1, <4>1, EnvIs DEF Segment
      <4> QED
        BY <2>5, <4>2
    <3> QED
      BY <2>1, <2>2, <2>3, <3>1, <3>2 DEF Untouched
  <2> QED
    BY <2>1, <2>2, <2>4, <2>5 DEF LeftBy
<1> QED
  BY <1>1, <1>2, <1>4, <1>5, <1>6, <1>7, NextIs

LEMMA WrittenStep ==
    ASSUME TypeOK, FilesInv, WriteInv, WrittenIsComplete, [Next]_vars
    PROVE  WrittenIsComplete'
<1>1. CASE UNCHANGED <<env, disk, mode, results>>
  BY <1>1 DEF WrittenIsComplete, Segment
<1>2. CASE StartRun
  BY <1>2 DEF StartRun, WrittenIsComplete
<1>3. CASE SkipTarget
  <2>1. /\ UNCHANGED <<env, disk, mode>>
        /\ \A u \in Target : results'[u] \in {results[u], "skipped"}
    BY <1>3 DEF SkipTarget, Report, TypeOK, config
  <2> QED
    BY <2>1 DEF WrittenIsComplete, Segment
<1>4. CASE FinishTarget
  <2>1. /\ UNCHANGED <<env, disk, mode>> /\ pc = "write" /\ unwritten = {}
        /\ \A u \in Target : u # t => results'[u] = results[u]
        /\ partial => results'[t] # "written"
    BY <1>4, EnvIs DEF FinishTarget, Report, TypeOK, config
  <2>2. Segment' = Segment
    BY <2>1 DEF Segment
  <2>3. disk[t].files \subseteq Segment /\ disk[t].broken \subseteq disk[t].files
    BY EnvIs, LocaleFilesAre
  <2>4. ASSUME mode[t] # "resume", ~partial
        PROVE  /\ disk[t].files = Segment /\ disk[t].broken = {}
               /\ \A l \in Leaf : disk[t].leaf[l] # "absent"
    <3>1. \A s \in Segment : Rewritten(s)
      BY <2>1, <2>4 DEF WriteInv
    <3>2. \A l \in Leaf : working[l] # "absent"
      BY <2>1, <2>4 DEF WriteInv
    <3>3. ASSUME NEW l \in Leaf PROVE disk[t].leaf[l] # "absent"
      BY <3>1, <3>2, EnvIs DEF Rewritten
    <3>4. \A s \in Segment : s \in disk[t].files /\ s \notin disk[t].broken
      BY <3>1 DEF Rewritten
    <3> QED
      BY <2>3, <3>3, <3>4
  <2> QED
    BY <2>1, <2>2, <2>4 DEF WrittenIsComplete
<1>5. CASE OpenTarget
  <2>1. /\ UNCHANGED <<env, disk, results>> /\ pc = "target"
        /\ \A u \in Target : u # t => mode'[u] = mode[u]
    BY <1>5 DEF OpenTarget, TypeOK, config
  <2>2. results[t] = "none"
    BY <2>1, FileIs
  <2> QED
    BY <2>1, <2>2 DEF WrittenIsComplete, Segment
<1>6. CASE Stops \/ \E s \in Segment : WriteSegment(s)
  <2>1. pc # "idle" /\ UNCHANGED <<env, results, mode>>
    BY <1>6 DEF WriteSegment, Writes, Stops, place, config
  <2>2. \A u \in Target : u # t => disk'[u] = disk[u]
    BY <1>6, WrittenDocument, TornDocument DEF Stops
  <2>3. results[t] = "none"
    BY <2>1 DEF FilesInv
  <2> QED
    BY <2>1, <2>2, <2>3 DEF WrittenIsComplete, Segment
<1> QED
  BY <1>1, <1>2, <1>3, <1>4, <1>5, <1>6, FilesStay

-----------------------------------------------------------------------------
(* The theorems.                                                            *)

LEMMA InductiveInit == ASSUME Init PROVE IInv
<1>1. TypeOK
  BY TypeInit
<1>2. ChainInv
  BY StartChainIs DEF Init, ChainInv, ChainSound, Once
<1>3. FilesInv
  BY EnvIs, <1>1 DEF Init, FilesInv, Pristine
<1>4. AbortInv /\ WorkInv /\ WriteInv
  BY DEF Init, AbortInv, WorkInv, WriteInv, AtWork, aborted
<1>5. KeepsText /\ WrittenIsComplete /\ ThrowKeepsFiles
  BY DEF Init, KeepsText, WrittenIsComplete, ThrowKeepsFiles
<1> QED
  BY <1>1, <1>2, <1>3, <1>4, <1>5 DEF IInv

LEMMA InductiveStep == ASSUME IInv, [Next]_vars PROVE IInv'
<1>1. TypeOK'
  BY TypeStep DEF IInv
<1>2. ChainInv'
  BY <1>1, ChainStep DEF IInv
<1>3. FilesInv' /\ AbortInv' /\ WorkInv' /\ WriteInv'
  BY <1>1, FilesStep, AbortStep, WorkStep, WriteStep DEF IInv
<1>4. KeepsText' /\ WrittenIsComplete' /\ ThrowKeepsFiles'
  BY <1>1, <1>3, TextStep, WrittenStep, ThrowStep DEF IInv
<1> QED
  BY <1>1, <1>2, <1>3, <1>4 DEF IInv

(* The whole inductive invariant holds of every run.                        *)
THEOREM Inductive == Spec => []IInv
<1>1. Init => IInv
  BY InductiveInit
<1>2. IInv /\ [Next]_vars => IInv'
  BY InductiveStep
<1> QED
  BY <1>1, <1>2, PTL DEF Spec

(* runGenerate and --resume keep their state well typed: a file never has a *)
(* leaf without the segment that leaf is in, the attempts left are never    *)
(* negative.                                                                *)
THEOREM TypeCorrect == Spec => []TypeOK
<1>1. IInv => TypeOK
  BY DEF IInv
<1> QED
  BY <1>1, Inductive, PTL

(* No handoff of prioritizeProviderAfter loses or doubles a provider.       *)
THEOREM ChainIsSound == Spec => []ChainSound
<1>1. IInv => ChainSound
  BY DEF IInv, ChainInv
<1> QED
  BY <1>1, Inductive, PTL

(* A run that throws has changed no target it did not report, but for the   *)
(* one a write failed for: its files are the new ones, then the file of     *)
(* that write, then the old ones.                                           *)
THEOREM ThrowsKeepFiles == Spec => []ThrowKeepsFiles
<1>1. IInv => ThrowKeepsFiles
  BY DEF IInv
<1> QED
  BY <1>1, Inductive, PTL

(* Behind the target at which the host aborted nothing is opened or written. *)
THEOREM AbortsStop == Spec => []AbortStopsTargets
<1>1. IInv => AbortStopsTargets
  BY AbortIs DEF IInv
<1> QED
  BY <1>1, Inductive, PTL

(* No translated text is lost or replaced without --force or a confirmed    *)
(* re-translation, wherever the run stops, but for the texts of the one     *)
(* file whose write was cut off, and in a target that had a broken file.    *)
THEOREM TextIsKept == Spec => []KeepsText
<1>1. IInv => KeepsText
  BY DEF IInv
<1> QED
  BY <1>1, Inductive, PTL

(* What is reported as written, and not as partial, is complete.            *)
THEOREM WrittenTruly == Spec => []WrittenIsComplete
<1>1. IInv => WrittenIsComplete
  BY DEF IInv
<1> QED
  BY <1>1, Inductive, PTL

LEMMA ProgressStep ==
    ASSUME IInv, [Next]_vars, t' = t, pc \in {"attempt", "pick", "incomplete"},
           NEW l \in Leaf, working[l] = "new", disk[t].leaf[l] # "leak"
    PROVE  working'[l] = "new"
<1>1. TypeOK /\ FilesInv /\ WorkInv
  BY DEF IInv
<1>2. disk[t] = before[t]
  BY <1>1, FileIs
<1>3. Seen(disk[t])[l] = Began(l) /\ Seen(disk[t])[l] # "leak"
  BY <1>2 DEF Began, Seen, Nothing
<1>4. KeepsDisk(l) => Seen(disk[t])[l] = "new"
  <2>1. SUFFICES ASSUME mode[t] # "force", Began(l) \in Translated PROVE Began(l) = "new"
    BY <1>3 DEF KeepsDisk
  <2>2. mode[t] \in {"fresh", "fill", "resume"}
    BY <1>1, <2>1 DEF WorkInv, AtWork
  <2>3. working[l] \in {"absent", Began(l)}
    BY <1>1, <2>1, <2>2 DEF WorkInv, AtWork
  <2> QED
    BY <2>3
<1>5. l \notin Todo
  BY <1>3, <1>4 DEF Todo, Translated
<1>6. ASSUME NEW answer \in Answers, NEW upto, working' = Built(answer, upto) PROVE working'[l] = "new"
  BY <1>1, <1>4, <1>5, <1>6, BuiltIs
<1>7. UNCHANGED working \/ \E upto : \E answer \in Answers : working' = Built(answer, upto)
  <2>1. CASE AttemptSucceeds
    BY <2>1 DEF AttemptSucceeds
  <2>2. CASE Advances
    BY <2>2 DEF Advances
  <2>3. CASE UNCHANGED vars \/ (Throw /\ Awaits) \/ KeepPartial \/ Abort \/ Stops
    BY <2>3 DEF Throw, KeepPartial, Abort, Stops, vars
  <2>4. ~(StartRun \/ SkipTarget \/ OpenTarget \/ FinishTarget \/ \E s \in Segment : WriteSegment(s))
    BY DEF StartRun, SkipTarget, OpenTarget, FinishTarget, WriteSegment, Writes
  <2> QED
    BY <2>1, <2>2, <2>3, <2>4, NextIs
<1> QED
  BY <1>6, <1>7

(* A failed attempt, a fallback or a handoff never undoes a translation.    *)
THEOREM ProgressIsKept == Spec => ProgressKept
<1>1. IInv /\ [Next]_vars
      => [(t' = t /\ pc \in {"attempt", "pick", "incomplete"})
             => \A l \in Leaf : working[l] = "new" /\ disk[t].leaf[l] # "leak"
                    => working'[l] = "new"]_vars
  BY ProgressStep
<1> QED
  BY <1>1, Inductive, PTL DEF Spec, ProgressKept

-----------------------------------------------------------------------------
(***************************************************************************)
(* The commands of LocaleEdits: sync, missing and cleanup.                  *)
(***************************************************************************)
(* Paths and prefixes.                                                      *)
LEMMA KeyIsPath ==
    ASSUME NEW k \in Keys
    PROVE  /\ k \in Seq(Range(k)) /\ Len(k) \in Nat \ {0}
           /\ SubSeq(k, 1, Len(k)) = k
<1>1. k \in Seq(Range(k)) /\ k # << >>
  BY EditsAssumption DEF IsPath
<1>2. Len(k) \in Nat \ {0}
  BY <1>1, EmptySeq, Zenon
<1> QED
  BY <1>1, <1>2, SubSeqFull, Zenon

LEMMA FrontIsPath ==
    ASSUME NEW k \in Keys, NEW n \in 1 .. Len(k)
    PROVE  SubSeq(k, 1, n) \in Seq(Range(k)) /\ Len(SubSeq(k, 1, n)) = n
<1>1. /\ k \in Seq(Range(k)) /\ Len(k) \in Nat
  BY KeyIsPath
<1>2. \A i \in 1 .. n : k[i] \in Range(k)
  BY <1>1, ElementOfSeq
<1> QED
  BY <1>1, <1>2, SubSeqProperties

LEMMA FrontOfFront ==
    ASSUME NEW k \in Keys, NEW n \in 1 .. Len(k), NEW m \in 0 .. n
    PROVE  SubSeq(SubSeq(k, 1, n), 1, m) = SubSeq(k, 1, m)
<1>1. k \in Seq(Range(k)) /\ Len(k) \in Nat
  BY KeyIsPath
<1>2. CASE m = 0
  BY <1>2, SubSeqEmpty
<1>3. CASE m # 0
  <2>1. /\ 1 \in 1 .. Len(k) /\ n \in 1 .. Len(k) /\ 1 \in 1 .. n - 1 + 1 /\ m \in 1 .. n - 1 + 1
        /\ 1 + 1 - 1 = 1 /\ 1 + m - 1 = m
    BY <1>1, <1>3
  <2>2. SubSeq(SubSeq(k, 1, n), 1, m) = SubSeq(k, 1 + 1 - 1, 1 + m - 1)
    BY <1>1, <2>1, SubSeqOfSubSeq
  <2> QED
    BY <2>1, <2>2
<1> QED
  BY <1>2, <1>3

(* A path is a prefix of a front of a key when it is one of the key and not *)
(* longer than the front.                                                   *)
LEMMA PrefixOfFront ==
    ASSUME NEW k \in Keys, NEW n \in 1 .. Len(k), NEW r, IsPath(r)
    PROVE  IsPrefix(r, SubSeq(k, 1, n)) <=> Len(r) <= n /\ IsPrefix(r, k)
<1>1. Len(r) \in Nat /\ Len(k) \in Nat /\ Len(SubSeq(k, 1, n)) = n
  BY KeyIsPath, FrontIsPath, LenProperties DEF IsPath
<1>2. Len(r) <= n => SubSeq(SubSeq(k, 1, n), 1, Len(r)) = SubSeq(k, 1, Len(r))
  BY <1>1, FrontOfFront
<1> QED
  BY <1>1, <1>2 DEF IsPrefix

LEMMA LeastOf ==
    ASSUME NEW T \in SUBSET Nat, T # {}
    PROVE  \E x \in T : \A y \in T : x <= y
<1>1. PICK x \in T : \A y \in T : ~ (<<y, x>> \in OpToRel(<, Nat))
  BY WFMin, NatLessThanWellFounded, Zenon
<1>2. \A y \in T : ~ (y < x)
  BY <1>1 DEF OpToRel
<1> QED
  BY <1>2

Paths(roots) == \A r \in roots : IsPath(r)

(* What the walk keeps lies under a kept prefix ...                         *)
LEMMA KeptIsUnder ==
    ASSUME NEW k \in Keys, NEW template, NEW roots, Paths(roots), Kept(template, roots, k)
    PROVE  Under(k, roots)
<1>1. PICK n \in 1 .. Len(k) : Under(SubSeq(k, 1, n), roots)
  BY DEF Kept
<1>2. PICK r \in roots : IsPrefix(r, SubSeq(k, 1, n))
  BY <1>1 DEF Under
<1>3. IsPrefix(r, k)
  BY <1>2, PrefixOfFront DEF Paths
<1> QED
  BY <1>3 DEF Under

(* The nodes of a template are the fronts of its leaves.                    *)
LEMMA NodeIs ==
    ASSUME NEW template, DOMAIN template \subseteq Keys, NEW k \in Keys, NEW n \in 1 .. Len(k)
    PROVE  /\ SubSeq(k, 1, n) \in Nodes(template) <=>
                 \E m \in DOMAIN template : IsPrefix(SubSeq(k, 1, n), m)
           /\ k \in DOMAIN template => SubSeq(k, 1, n) \in Nodes(template)
<1> DEFINE front == SubSeq(k, 1, n)
<1>1. Len(front) = n /\ n \in Nat \ {0} /\ SubSeq(front, 1, n) = front
  <2>1. front \in Seq(Range(k)) /\ Len(front) = n
    BY FrontIsPath
  <2> QED
    BY <2>1, SubSeqFull
<1> HIDE DEF front
<1>2. ASSUME NEW m \in DOMAIN template, NEW i \in 1 .. Len(m), front = SubSeq(m, 1, i)
      PROVE  IsPrefix(front, m)
  <2>1. Len(front) = i /\ i <= Len(m)
    BY <1>2, FrontIsPath, KeyIsPath
  <2> QED
    BY <1>1, <1>2, <2>1 DEF IsPrefix
<1>3. ASSUME NEW m \in DOMAIN template, IsPrefix(front, m)
      PROVE  front \in Nodes(template)
  <2>1. n \in 1 .. Len(m) /\ front = SubSeq(m, 1, n)
    BY <1>1, <1>3, KeyIsPath DEF IsPrefix
  <2> QED
    BY <2>1 DEF Nodes
<1>4. front \in Nodes(template) => \E m \in DOMAIN template : IsPrefix(front, m)
  <2> SUFFICES ASSUME front \in Nodes(template) PROVE \E m \in DOMAIN template : IsPrefix(front, m)
    OBVIOUS
  <2>1. PICK m \in DOMAIN template : \E i \in 1 .. Len(m) : front = SubSeq(m, 1, i)
    BY DEF Nodes
  <2> QED
    BY <1>2, <2>1
<1>5. k \in DOMAIN template => front \in Nodes(template)
  BY DEF Nodes, front
<1> QED
  BY <1>3, <1>4, <1>5 DEF front

LEMMA PrefixIsFront ==
    ASSUME NEW m \in Keys, NEW k \in Keys, IsPrefix(m, k)
    PROVE  Len(m) \in 1 .. Len(k) /\ m = SubSeq(k, 1, Len(m))
<1>1. Len(m) \in Nat \ {0} /\ Len(k) \in Nat /\ SubSeq(m, 1, Len(m)) = m
  BY KeyIsPath
<1> QED
  BY <1>1 DEF IsPrefix

(* ... and what lies under an anchored one is kept: there is a first node   *)
(* the template lacks, it is not above the prefix, and its parent no leaf.  *)
LEMMA AnchoredIsKept ==
    ASSUME NEW k \in Keys, NEW template, DOMAIN template \subseteq Keys,
           NEW roots, Paths(roots), Anchored(template, k, roots)
    PROVE  Kept(template, roots, k)
<1> DEFINE Top(n) == SubSeq(k, 1, n)
           Lacking == {n \in 1 .. Len(k) : Top(n) \notin Nodes(template)}
<1>1. Len(k) \in Nat \ {0} /\ Top(Len(k)) = k /\ Len(k) \in 1 .. Len(k)
  BY KeyIsPath
<1>2. k \notin Nodes(template)
  BY <1>1, NodeIs DEF Anchored
<1>3. Lacking \in SUBSET Nat /\ Len(k) \in Lacking
  <2>1. Len(k) \in 1 .. Len(k) /\ 1 .. Len(k) \subseteq Nat
    BY <1>1
  <2>2. Top(Len(k)) \notin Nodes(template)
    BY <1>1, <1>2
  <2> QED
    BY <2>1, <2>2
<1>4. PICK n \in Lacking : \A m \in Lacking : n <= m
  BY <1>3, LeastOf
<1>5. n \in 1 .. Len(k) /\ Top(n) \notin Nodes(template)
  BY <1>4
<1>6. n = 1 \/ Top(n - 1) \in Nodes(template) \ DOMAIN template
  <2> SUFFICES ASSUME n # 1 PROVE Top(n - 1) \in Nodes(template) \ DOMAIN template
    OBVIOUS
  <2>1. n - 1 \in 1 .. Len(k) /\ ~(n <= n - 1)
    BY <1>1, <1>5
  <2>2. Top(n - 1) \in Nodes(template)
    BY <1>4, <2>1
  <2>3. IsPrefix(Top(n - 1), k)
    <3>1. Len(Top(n - 1)) = n - 1
      BY <2>1, FrontIsPath
    <3> QED
      BY <1>1, <2>1, <3>1 DEF IsPrefix
  <2> QED
    BY <2>2, <2>3 DEF Anchored
<1>7. PICK r \in roots : IsPrefix(r, k) /\ \A m \in 1 .. Len(r) - 1 : SubSeq(r, 1, m) \in Nodes(template)
  BY DEF Anchored
<1>8. Len(r) \in Nat /\ IsPath(r) /\ r = SubSeq(k, 1, Len(r)) /\ Len(r) <= Len(k)
  <2>1. IsPath(r) /\ Len(r) \in Nat
    BY LenProperties DEF Paths, IsPath
  <2>2. SubSeq(r, 1, Len(r)) = r
    BY <2>1, SubSeqFull DEF IsPath
  <2> QED
    BY <1>7, <2>1, <2>2 DEF IsPrefix
<1>9. Len(r) <= n
  <2> SUFFICES ASSUME ~(Len(r) <= n) PROVE FALSE
    OBVIOUS
  <2>1. n \in 1 .. Len(r) - 1 /\ Len(r) \in 1 .. Len(k) /\ n \in 0 .. Len(r)
    BY <1>1, <1>5, <1>8
  <2>2. SubSeq(SubSeq(k, 1, Len(r)), 1, n) = SubSeq(k, 1, n)
    BY <2>1, FrontOfFront
  <2>3. SubSeq(r, 1, n) = Top(n)
    BY <1>8, <2>2
  <2> QED
    BY <1>5, <1>7, <2>1, <2>3
<1>10. Under(Top(n), roots)
  BY <1>5, <1>7, <1>8, <1>9, PrefixOfFront DEF Under
<1> QED
  BY <1>5, <1>6, <1>10 DEF Kept

(* Documents.                                                               *)
LEMMA DocumentIs ==
    ASSUME NEW d \in Documents
    PROVE  /\ DOMAIN d \subseteq Keys /\ \A k \in DOMAIN d : d[k] \in Texts
           /\ IsTree(DOMAIN d)
BY DEF Documents

LEMMA IsDocument ==
    ASSUME NEW D \in SUBSET Keys, NEW d, d = [k \in D |-> d[k]], \A k \in D : d[k] \in Texts,
           IsTree(D)
    PROVE  d \in Documents
<1>1. d \in [D -> Texts] /\ DOMAIN d = D
  OBVIOUS
<1> QED
  BY <1>1 DEF Documents

(* What sync starts from, and what it makes of a target.                    *)
LEMMA TemplateIs ==
    ASSUME NEW scan, NEW pol, NEW src, NEW template, template = Template(scan, pol, src)
    PROVE  /\ \A k : k \in DOMAIN template <=>
                       k \in DOMAIN src /\ k \in Schema(scan, pol, src) /\ src[k] # "todo"
           /\ \A k \in DOMAIN template : template[k] = src[k]
BY DEF Template, Restrict

Put(template, cur, k) == IF k \in DOMAIN template THEN Filled(template, cur, k) ELSE cur[k]

LEMMA SyncedIs ==
    ASSUME NEW scan, NEW pol, NEW src, NEW cur,
           NEW template, template = Template(scan, pol, src),
           NEW new, new = Synced(scan, pol, src, cur)
    PROVE  /\ \A k : k \in DOMAIN new <=>
                 \/ k \in DOMAIN template
                 \/ k \in DOMAIN cur /\ Kept(template, KeepRoots(scan, pol), k)
           /\ new = [k \in DOMAIN new |-> new[k]]
           /\ \A k \in DOMAIN new :
                 new[k] = IF /\ Put(template, cur, k) = "leak"
                             /\ k \in DOMAIN template /\ template[k] # "leak"
                          THEN template[k] ELSE Put(template, cur, k)
<1>1. PICK merged : merged = Merged(template, KeepRoots(scan, pol), cur)
  OBVIOUS
<1>2. /\ DOMAIN merged = DOMAIN template
            \cup {x \in DOMAIN cur : Kept(template, KeepRoots(scan, pol), x)}
      /\ \A k \in DOMAIN merged : merged[k] = Put(template, cur, k)
  BY <1>1 DEF Merged, Put
<1>3. new = Repaired(template, merged)
  BY <1>1 DEF Synced
<1>4. /\ DOMAIN new = DOMAIN merged /\ new = [k \in DOMAIN new |-> new[k]]
      /\ \A k \in DOMAIN new :
            new[k] = IF merged[k] = "leak" /\ k \in DOMAIN template /\ template[k] # "leak"
                     THEN template[k] ELSE merged[k]
  BY <1>3 DEF Repaired
<1> QED
  BY <1>2, <1>4

LEMMA RootsArePaths ==
    ASSUME NEW scan \in Scans, NEW pol \in Policies
    PROVE  Paths(KeepRoots(scan, pol))
BY EditsAssumption DEF Paths, KeepRoots, UncertainRoots

(* A leaf of the template is not over, nor under, what the walk keeps.      *)
LEMMA KeptIsApart ==
    ASSUME NEW template, DOMAIN template \subseteq Keys, IsTree(DOMAIN template), NEW roots,
           NEW k \in Keys, Kept(template, roots, k), NEW leaf \in DOMAIN template
    PROVE  ~ IsPrefix(leaf, k) /\ ~ IsPrefix(k, leaf)
<1>1. PICK n \in 1 .. Len(k) :
        /\ SubSeq(k, 1, n) \notin Nodes(template)
        /\ n = 1 \/ SubSeq(k, 1, n - 1) \in Nodes(template) \ DOMAIN template
  BY DEF Kept
<1>2. Len(k) \in Nat \ {0} /\ leaf \in Keys
  BY KeyIsPath
<1>3. ASSUME IsPrefix(leaf, k) PROVE FALSE
  <2>1. Len(leaf) \in 1 .. Len(k) /\ leaf = SubSeq(k, 1, Len(leaf))
    BY <1>2, <1>3, PrefixIsFront
  <2>2. CASE n <= Len(leaf)
    <3>1. SubSeq(leaf, 1, n) = SubSeq(k, 1, n)
      <4>1. SubSeq(SubSeq(k, 1, Len(leaf)), 1, n) = SubSeq(k, 1, n)
        BY <1>2, <2>1, <2>2, FrontOfFront
      <4> QED
        BY <2>1, <4>1
    <3>2. SubSeq(leaf, 1, n) \in Nodes(template)
      BY <1>2, <2>1, <2>2, NodeIs
    <3> QED
      BY <1>1, <3>1, <3>2
  <2>3. CASE ~ (n <= Len(leaf))
    <3>1. n # 1 /\ n - 1 \in 1 .. Len(k) /\ Len(leaf) <= n - 1
      BY <1>2, <2>1, <2>3
    <3>2. PICK m \in DOMAIN template : IsPrefix(SubSeq(k, 1, n - 1), m)
      BY <1>1, <1>2, <3>1, NodeIs
    <3>3. m \in Keys /\ IsPath(leaf)
      BY <1>2, <3>2, KeyIsPath DEF IsPath
    <3>4. /\ Len(SubSeq(k, 1, n - 1)) = n - 1 /\ n - 1 <= Len(m)
          /\ SubSeq(k, 1, n - 1) = SubSeq(m, 1, n - 1)
      BY <3>1, <3>2, FrontIsPath DEF IsPrefix
    <3>5. IsPrefix(leaf, SubSeq(k, 1, n - 1))
      BY <1>3, <3>1, <3>3, PrefixOfFront
    <3>6. IsPrefix(leaf, m)
      <4>1. n - 1 \in 1 .. Len(m)
        BY <3>1, <3>3, <3>4, KeyIsPath
      <4> QED
        BY <3>3, <3>4, <3>5, <4>1, PrefixOfFront
    <3>7. leaf = m
      BY <3>2, <3>6 DEF IsTree
    <3>8. Len(leaf) = n - 1
      BY <1>2, <2>1, <3>1, <3>3, <3>4, <3>7, KeyIsPath
    <3>9. SubSeq(k, 1, n - 1) = leaf
      BY <2>1, <3>8
    <3> QED
      BY <1>1, <3>1, <3>9
  <2> QED
    BY <2>2, <2>3
<1>4. ASSUME IsPrefix(k, leaf) PROVE FALSE
  <2>1. Len(k) \in 1 .. Len(leaf) /\ k = SubSeq(leaf, 1, Len(k)) /\ n \in 1 .. Len(leaf)
    BY <1>2, <1>4, PrefixIsFront, KeyIsPath
  <2>2. SubSeq(SubSeq(leaf, 1, Len(k)), 1, n) = SubSeq(leaf, 1, n)
    BY <1>2, <2>1, FrontOfFront
  <2>3. SubSeq(k, 1, n) = SubSeq(leaf, 1, n)
    BY <2>1, <2>2
  <2>4. SubSeq(leaf, 1, n) \in Nodes(template)
    BY <1>2, <2>1, NodeIs
  <2> QED
    BY <1>1, <2>3, <2>4
<1> QED
  BY <1>3, <1>4

LEMMA SyncedType ==
    ASSUME NEW scan, NEW pol, NEW src \in Documents, NEW cur \in Documents
    PROVE  /\ Synced(scan, pol, src, cur) \in Documents
           /\ "own" \notin Range(src) /\ "own" \notin Range(cur) =>
                 "own" \notin Range(Synced(scan, pol, src, cur))
<1>10. PICK template : template = Template(scan, pol, src)
  OBVIOUS
<1>11. PICK new : new = Synced(scan, pol, src, cur)
  OBVIOUS
<1>1. /\ DOMAIN src \subseteq Keys /\ \A k \in DOMAIN src : src[k] \in Texts
      /\ DOMAIN cur \subseteq Keys /\ \A k \in DOMAIN cur : cur[k] \in Texts
  BY DocumentIs
<1>2. /\ DOMAIN template \subseteq DOMAIN src
      /\ \A k \in DOMAIN template : template[k] = src[k]
  BY <1>10, TemplateIs
<1>3. /\ DOMAIN new \subseteq DOMAIN template \cup DOMAIN cur
      /\ new = [k \in DOMAIN new |-> new[k]]
      /\ \A k \in DOMAIN new : \/ k \in DOMAIN template /\ new[k] = template[k]
                               \/ k \in DOMAIN cur /\ new[k] = cur[k]
  BY <1>10, <1>11, SyncedIs DEF Put, Filled
<1>4. new \in Documents
  <2>1. DOMAIN new \in SUBSET Keys /\ \A k \in DOMAIN new : new[k] \in Texts
    BY <1>1, <1>2, <1>3
  <2>2. IsTree(DOMAIN src) /\ IsTree(DOMAIN cur)
    BY DocumentIs
  <2>3. DOMAIN template \subseteq Keys /\ IsTree(DOMAIN template)
    BY <1>1, <1>2, <2>2 DEF IsTree
  <2>4. \A k \in DOMAIN new : k \in DOMAIN template
                             \/ (k \in DOMAIN cur /\ Kept(template, KeepRoots(scan, pol), k))
    BY <1>10, <1>11, SyncedIs
  <2>5. ASSUME NEW k \in DOMAIN new, NEW m \in DOMAIN new, IsPrefix(k, m) PROVE k = m
    <3>1. CASE k \in DOMAIN template /\ m \in DOMAIN template
      BY <2>3, <2>5, <3>1 DEF IsTree
    <3>2. CASE k \notin DOMAIN template /\ m \notin DOMAIN template
      BY <2>2, <2>4, <2>5, <3>2 DEF IsTree
    <3>3. CASE k \in DOMAIN template /\ m \notin DOMAIN template
      BY <1>1, <2>3, <2>4, <2>5, <3>3, KeptIsApart
    <3>4. CASE k \notin DOMAIN template /\ m \in DOMAIN template
      BY <1>1, <2>3, <2>4, <2>5, <3>4, KeptIsApart
    <3> QED
      BY <3>1, <3>2, <3>3, <3>4
  <2>6. IsTree(DOMAIN new)
    BY <2>5 DEF IsTree
  <2> QED
    BY <1>3, <2>1, <2>6, IsDocument
<1>5. "own" \notin Range(src) /\ "own" \notin Range(cur) => "own" \notin Range(new)
  BY <1>2, <1>3 DEF Range
<1> QED
  BY <1>4, <1>5, <1>11

(* sync loses no words of a key of the template or of an anchored tree.     *)
LEMMA SyncKeeps ==
    ASSUME NEW scan \in Scans, NEW pol \in Policies, NEW src \in Documents, NEW cur \in Documents,
           NEW k \in Keys, Words(cur, k),
           \/ k \in DOMAIN Template(scan, pol, src)
           \/ Anchored(Template(scan, pol, src), k, KeepRoots(scan, pol))
    PROVE  /\ k \in DOMAIN Synced(scan, pol, src, cur)
           /\ Synced(scan, pol, src, cur)[k] = cur[k]
<1>10. PICK template : template = Template(scan, pol, src)
  OBVIOUS
<1>11. PICK new : new = Synced(scan, pol, src, cur)
  OBVIOUS
<1>12. PICK roots : roots = KeepRoots(scan, pol)
  OBVIOUS
<1>1. k \in DOMAIN cur /\ cur[k] \in {"copy", "own"}
  BY DEF Words
<1>2. DOMAIN template \subseteq Keys
  BY <1>10, TemplateIs, DocumentIs
<1>3. k \in DOMAIN template \/ Kept(template, roots, k)
  BY <1>2, <1>10, <1>12, RootsArePaths, AnchoredIsKept
<1>4. k \in DOMAIN new
  BY <1>1, <1>3, <1>10, <1>11, <1>12, SyncedIs
<1>5. new[k] = cur[k]
  <2>1. Put(template, cur, k) = cur[k]
    BY <1>1 DEF Put, Filled
  <2>2. cur[k] # "leak"
    BY <1>1
  <2> QED
    BY <1>4, <1>10, <1>11, <2>1, <2>2, SyncedIs
<1> QED
  BY <1>4, <1>5, <1>11

(* sync leaves words where the source has words, whatever was there.        *)
LEMMA SyncFills ==
    ASSUME NEW scan \in Scans, NEW pol \in Policies, NEW src \in Documents, NEW cur \in Documents,
           NEW k \in scan.resolved, Words(src, k)
    PROVE  Words(Synced(scan, pol, src, cur), k)
<1>10. PICK template : template = Template(scan, pol, src)
  OBVIOUS
<1>11. PICK new : new = Synced(scan, pol, src, cur)
  OBVIOUS
<1>1. k \in DOMAIN src /\ src[k] \in {"copy", "own"}
  BY DEF Words
<1>2. k \in Schema(scan, pol, src)
  BY DEF Schema
<1>3. k \in DOMAIN template /\ template[k] \in {"copy", "own"}
  BY <1>1, <1>2, <1>10, TemplateIs
<1>4. k \in DOMAIN new
  BY <1>3, <1>10, <1>11, SyncedIs
<1>5. k \in DOMAIN cur => cur[k] \in Texts
  BY DocumentIs
<1>6. Put(template, cur, k) \in {"copy", "own", "leak"}
  BY <1>3, <1>5 DEF Put, Filled, Texts
<1>7. new[k] \in {"copy", "own"}
  BY <1>3, <1>4, <1>6, <1>10, <1>11, SyncedIs
<1> QED
  BY <1>4, <1>7, <1>11 DEF Words

(* Under a protecting policy nothing that sync leaves is up for cleanup.    *)
LEMMA SyncLeavesNoCandidate ==
    ASSUME NEW scan \in Scans, NEW pol \in Policies, NEW src \in Documents, NEW cur \in Documents,
           pol.protect, scan.resolved # {}
    PROVE  Candidates(scan, pol, Synced(scan, pol, src, cur)) = {}
<1>10. PICK template : template = Template(scan, pol, src)
  OBVIOUS
<1>11. PICK new : new = Synced(scan, pol, src, cur)
  OBVIOUS
<1>12. PICK roots : roots = KeepRoots(scan, pol)
  OBVIOUS
<1> SUFFICES ASSUME NEW k \in DOMAIN new, k \notin scan.resolved
             PROVE  Protected(scan, pol, k)
  BY <1>11 DEF Candidates
<1>1. CASE k \in DOMAIN template
  <2>1. k \in Schema(scan, pol, src)
    BY <1>1, <1>10, TemplateIs
  <2>2. Preserved(pol, k) \/ Under(k, pol.uncertain)
    BY <2>1 DEF Schema
  <2> QED
    BY <2>2 DEF Protected, Preserved, Under, UncertainRoots
<1>2. CASE k \notin DOMAIN template
  <2>1. k \in DOMAIN cur /\ Kept(template, roots, k)
    BY <1>2, <1>10, <1>11, <1>12, SyncedIs
  <2>2. Under(k, roots)
    BY <2>1, <1>12, DocumentIs, RootsArePaths, KeptIsUnder
  <2> QED
    BY <2>2, <1>12 DEF KeepRoots, Protected, Preserved, Under, UncertainRoots
<1> QED
  BY <1>1, <1>2

(* The invariant: the state is well typed, and a plan that waits at its     *)
(* prompts names only what its own scan and files gave it the right to.     *)
PlanSound ==
  cmd # NoCommand =>
    /\ "own" \notin Range(cmd.seen[Source])
    /\ \A l \in DOMAIN cmd.plan :
         /\ cmd.kind = "missing" => cmd.plan[l] \cap DOMAIN cmd.seen[l] = {}
         /\ cmd.kind = "cleanup" =>
              cmd.plan[l] \subseteq Candidates(cmd.scan, keyPolicy, cmd.seen[l])

EditsInv == EditsTypeOK /\ PlanSound

LEMMA PlanIs ==
    ASSUME NEW plan \in Plans
    PROVE  /\ DOMAIN plan \subseteq Locales /\ DOMAIN plan # {}
           /\ \A l \in DOMAIN plan : plan[l] \subseteq Keys /\ plan[l] # {}
<1>1. PICK ls \in (SUBSET Locales) \ {{}} : plan \in [ls -> (SUBSET Keys) \ {{}}]
  BY DEF Plans
<1> QED
  BY <1>1

LEMMA IsPlan ==
    ASSUME NEW lacks, NEW ls \in SUBSET Locales, ls # {},
           \A l \in ls : lacks[l] \subseteq Keys /\ lacks[l] # {}
    PROVE  Restrict(lacks, ls) \in Plans
<1>1. \A l \in ls : lacks[l] \in (SUBSET Keys) \ {{}}
  OBVIOUS
<1>2. [l \in ls |-> lacks[l]] \in [ls -> (SUBSET Keys) \ {{}}]
  BY <1>1
<1>3. ls \in (SUBSET Locales) \ {{}}
  OBVIOUS
<1> QED
  BY <1>2, <1>3 DEF Plans, Restrict

LEMMA AtPrompt ==
    ASSUME EditsTypeOK, cmd # NoCommand
    PROVE  /\ cmd \in Prompts /\ cmd.kind \in {"missing", "cleanup"} /\ cmd.scan \in Scans
           /\ cmd.seen \in [Locales -> Documents] /\ cmd.plan \in Plans
BY DEF EditsTypeOK, Prompts

LEMMA KindIs == NoCommand.kind = "none"
BY DEF NoCommand

(* Of the files a step rewrites one at most.                                *)
LEMMA OneFile ==
    ASSUME EditsTypeOK, NEW l \in Locales, NEW d \in Documents,
           l = Source => "own" \notin Range(d), doc' = [doc EXCEPT ![l] = d]
    PROVE  doc' \in [Locales -> Documents] /\ "own" \notin Range(doc'[Source])
<1>1. Source \in Locales
  BY DEF Locales
<1> QED
  BY <1>1 DEF EditsTypeOK

LEMMA DoneStep ==
    ASSUME EditsInv, cmd # NoCommand, NEW l \in DOMAIN cmd.plan, Done(l), UNCHANGED keyPolicy
    PROVE  cmd' \in {NoCommand} \cup Prompts /\ PlanSound'
<1>1. /\ cmd \in Prompts /\ cmd.kind \in {"missing", "cleanup"} /\ cmd.scan \in Scans
      /\ cmd.seen \in [Locales -> Documents] /\ cmd.plan \in Plans
  BY AtPrompt DEF EditsInv
<1>2. PICK rest : rest = DOMAIN cmd.plan \ {l}
  OBVIOUS
<1>3. CASE rest = {}
  BY <1>2, <1>3 DEF Done, PlanSound
<1>4. CASE rest # {}
  <2>1. PICK plan : plan = Restrict(cmd.plan, rest)
    OBVIOUS
  <2>2. plan \in Plans
    BY <1>1, <1>2, <1>4, <2>1, PlanIs, IsPlan
  <2>3. DOMAIN plan = rest /\ \A m \in rest : plan[m] = cmd.plan[m]
    BY <2>1 DEF Restrict
  <2>4. cmd' = [cmd EXCEPT !.plan = plan]
    BY <1>2, <1>4, <2>1 DEF Done
  <2>5. /\ cmd'.kind = cmd.kind /\ cmd'.scan = cmd.scan /\ cmd'.seen = cmd.seen
        /\ cmd'.plan = plan /\ cmd' \in Prompts
    BY <1>1, <2>2, <2>4 DEF Prompts
  <2>6. PlanSound'
    BY <1>2, <2>3, <2>5 DEF EditsInv, PlanSound
  <2> QED
    BY <2>5, <2>6
<1> QED
  BY <1>3, <1>4

LEMMA SyncStep ==
    ASSUME EditsInv, NEW s \in SUBSET Targets, Sync(s)
    PROVE  EditsInv'
<1>1. doc \in [Locales -> Documents] /\ Source \in Locales /\ Source \notin s
  BY EditsAssumption DEF EditsInv, EditsTypeOK, Locales
<1>2. \A l \in Locales : Synced(code, keyPolicy, doc[Source], doc[l]) \in Documents
  BY <1>1, SyncedType
<1>3. doc' \in [Locales -> Documents] /\ doc'[Source] = doc[Source]
  BY <1>1, <1>2 DEF Sync
<1>4. UNCHANGED <<code, keyPolicy, cmd, edits>>
  BY DEF Sync
<1> QED
  BY <1>3, <1>4 DEF EditsInv, EditsTypeOK, PlanSound

(* A plan is made of what the files lack, or of what may go from them.      *)
LEMMA PlanStep ==
    ASSUME EditsInv, NEW kind \in {"missing", "cleanup"}, NEW selected \in SUBSET Locales,
           NEW lacks, \A l \in selected : lacks[l] \subseteq Keys,
           \E l \in selected : lacks[l] # {},
           cmd' = [kind |-> kind, scan |-> code, seen |-> doc,
                   plan |-> Restrict(lacks, {l \in selected : lacks[l] # {}})],
           \A l \in selected :
             /\ kind = "missing" => lacks[l] \cap DOMAIN doc[l] = {}
             /\ kind = "cleanup" => lacks[l] \subseteq Candidates(code, keyPolicy, doc[l]),
           UNCHANGED <<code, keyPolicy, doc, edits>>
    PROVE  EditsInv'
<1>1. PICK ls : ls = {l \in selected : lacks[l] # {}}
  OBVIOUS
<1>2. PICK plan : plan = Restrict(lacks, ls)
  OBVIOUS
<1>3. plan \in Plans
  BY <1>1, <1>2, IsPlan
<1>4. DOMAIN plan = ls /\ \A m \in ls : plan[m] = lacks[m]
  BY <1>2 DEF Restrict
<1>5. cmd' = [kind |-> kind, scan |-> code, seen |-> doc, plan |-> plan]
  BY <1>1, <1>2
<1>6. cmd' \in Prompts
  BY <1>3, <1>5 DEF EditsInv, EditsTypeOK, Prompts
<1>7. /\ cmd'.kind = kind /\ cmd'.scan = code /\ cmd'.seen = doc /\ cmd'.plan = plan
  BY <1>5
<1>8. \A l \in DOMAIN plan :
        /\ kind = "missing" => plan[l] \cap DOMAIN doc[l] = {}
        /\ kind = "cleanup" => plan[l] \subseteq Candidates(code, keyPolicy, doc[l])
  BY <1>1, <1>4
<1>9. "own" \notin Range(doc[Source])
  BY DEF EditsInv, EditsTypeOK
<1>10. PlanSound'
  BY <1>7, <1>8, <1>9 DEF PlanSound
<1> QED
  BY <1>6, <1>10 DEF EditsInv, EditsTypeOK

LEMMA ScanIs == EditsTypeOK => code.resolved \subseteq Keys
BY EditsAssumption DEF EditsTypeOK

LEMMA SelectionIs == \A s \in Selections : s \in SUBSET Locales
BY DEF Selections, Locales

LEMMA MissingPlanStep ==
    ASSUME EditsInv, NEW selected \in Selections, MissingPlan(selected)
    PROVE  EditsInv'
<1>1. PICK lacks : lacks = [l \in selected |-> code.resolved \ DOMAIN doc[l]]
  OBVIOUS
<1>2. \A l \in selected : lacks[l] \subseteq Keys /\ lacks[l] \cap DOMAIN doc[l] = {}
  BY <1>1, ScanIs DEF EditsInv
<1>3. /\ \E l \in selected : lacks[l] # {}
      /\ cmd' = [kind |-> "missing", scan |-> code, seen |-> doc,
                 plan |-> Restrict(lacks, {l \in selected : lacks[l] # {}})]
      /\ UNCHANGED <<code, keyPolicy, doc, edits>>
  BY <1>1 DEF MissingPlan
<1> QED
  BY <1>2, <1>3, SelectionIs, PlanStep

LEMMA CleanupPlanStep ==
    ASSUME EditsInv, NEW selected \in Selections, CleanupPlan(selected)
    PROVE  EditsInv'
<1>1. PICK held \in SUBSET Keys :
        LET safe == [l \in selected |-> Candidates(code, keyPolicy, doc[l]) \ held]
        IN /\ \E l \in selected : safe[l] # {}
           /\ cmd' = [kind |-> "cleanup", scan |-> code, seen |-> doc,
                      plan |-> Restrict(safe, {l \in selected : safe[l] # {}})]
  BY DEF CleanupPlan
<1>2. PICK safe : safe = [l \in selected |-> Candidates(code, keyPolicy, doc[l]) \ held]
  OBVIOUS
<1>3. /\ \E l \in selected : safe[l] # {}
      /\ cmd' = [kind |-> "cleanup", scan |-> code, seen |-> doc,
                 plan |-> Restrict(safe, {l \in selected : safe[l] # {}})]
  BY <1>1, <1>2
<1>4. selected \in SUBSET Locales
  BY SelectionIs
<1>5. \A l \in selected : /\ safe[l] \subseteq Keys
                          /\ safe[l] \subseteq Candidates(code, keyPolicy, doc[l])
  <2>1. \A l \in selected : doc[l] \in Documents
    BY <1>4 DEF EditsInv, EditsTypeOK
  <2>2. \A l \in selected : Candidates(code, keyPolicy, doc[l]) \subseteq Keys
    BY <2>1, DocumentIs DEF Candidates
  <2> QED
    BY <1>2, <2>2
<1>6. UNCHANGED <<code, keyPolicy, doc, edits>>
  BY DEF CleanupPlan
<1> QED
  BY <1>3, <1>4, <1>5, <1>6, PlanStep

(* Setting paths in a tree gives a tree, and touches only what lies under   *)
(* the paths.                                                               *)
LEMMA MarkedIs ==
    ASSUME NEW d \in Documents, NEW ks \in SUBSET Keys, NEW new, new = Marked(d, ks)
    PROVE  /\ new \in Documents /\ ("own" \notin Range(d) => "own" \notin Range(new))
           /\ \A x \in DOMAIN d : ~ Under(x, ks) => x \in DOMAIN new /\ new[x] = d[x]
<1>1. PICK set : set = {k \in ks : \A m \in DOMAIN d \cup ks : IsPrefix(m, k) => m = k}
  OBVIOUS
<1>2. PICK stay : stay = {x \in DOMAIN d : \A k \in set : ~ IsPrefix(k, x)}
  OBVIOUS
<1>3. new = [x \in stay \cup set |-> IF x \in set THEN "todo" ELSE d[x]]
  BY <1>1, <1>2 DEF Marked
<1>4. /\ DOMAIN d \subseteq Keys /\ IsTree(DOMAIN d) /\ \A x \in DOMAIN d : d[x] \in Texts
      /\ set \subseteq ks /\ stay \subseteq DOMAIN d
  BY <1>1, <1>2, DocumentIs
<1>5. ASSUME NEW k \in stay \cup set, NEW m \in stay \cup set, IsPrefix(k, m) PROVE k = m
  <2>1. CASE m \in set
    <3>1. k \in DOMAIN d \cup ks
      BY <1>4
    <3> QED
      BY <1>1, <1>5, <2>1, <3>1
  <2>2. CASE m \notin set /\ k \in set
    BY <1>2, <1>5, <2>2
  <2>3. CASE m \notin set /\ k \notin set
    BY <1>2, <1>4, <1>5, <2>3 DEF IsTree
  <2> QED
    BY <2>1, <2>2, <2>3
<1>6. /\ DOMAIN new = stay \cup set /\ new = [x \in stay \cup set |-> new[x]]
      /\ \A x \in stay \cup set : new[x] = IF x \in set THEN "todo" ELSE d[x]
  BY <1>3
<1>7. new \in Documents
  <2>1. \A x \in stay \cup set : new[x] \in Texts
    BY <1>2, <1>4, <1>6 DEF Texts
  <2>2. IsTree(stay \cup set) /\ stay \cup set \in SUBSET Keys
    BY <1>4, <1>5 DEF IsTree
  <2> QED
    BY <1>6, <2>1, <2>2, IsDocument
<1>8. "own" \notin Range(d) => "own" \notin Range(new)
  BY <1>2, <1>6 DEF Range
<1>9. ASSUME NEW x \in DOMAIN d, ~ Under(x, ks) PROVE x \in DOMAIN new /\ new[x] = d[x]
  <2>1. x \in stay
    BY <1>2, <1>4, <1>9 DEF Under
  <2>2. IsPrefix(x, x)
    <3>1. Len(x) \in Nat /\ SubSeq(x, 1, Len(x)) = x
      BY <1>4, KeyIsPath
    <3> QED
      BY <3>1 DEF IsPrefix
  <2>3. x \notin set
    BY <1>4, <1>9, <2>2 DEF Under
  <2> QED
    BY <1>6, <2>1, <2>3
<1> QED
  BY <1>7, <1>8, <1>9

LEMMA MissingWriteStep ==
    ASSUME EditsInv, NEW l \in Locales, MissingWrite(l)
    PROVE  EditsInv'
<1>1. cmd # NoCommand /\ l \in DOMAIN cmd.plan
  BY KindIs DEF MissingWrite
<1>2. cmd.plan[l] \in SUBSET Keys /\ cmd.seen[l] \in Documents
  BY <1>1, AtPrompt, PlanIs DEF EditsInv
<1>3. PICK ks : ks = Writable(cmd.seen[l], cmd.plan[l])
  OBVIOUS
<1>4. PICK d : d = IF ks # {} THEN Marked(doc[l], ks) ELSE Marked(cmd.seen[l], cmd.plan[l])
  OBVIOUS
<1>5. /\ doc[l] \in Documents /\ (l = Source => "own" \notin Range(doc[l]))
      /\ l = Source => "own" \notin Range(cmd.seen[l])
  BY <1>1 DEF EditsInv, EditsTypeOK, PlanSound
<1>6. ks \in SUBSET Keys
  BY <1>2, <1>3 DEF Writable
<1>7. d \in Documents /\ (l = Source => "own" \notin Range(d))
  <2>1. CASE ks # {}
    BY <1>4, <1>5, <1>6, <2>1, MarkedIs
  <2>2. CASE ks = {}
    BY <1>2, <1>4, <1>5, <2>2, MarkedIs
  <2> QED
    BY <2>1, <2>2
<1>8. doc' = [doc EXCEPT ![l] = d]
  BY <1>3, <1>4 DEF MissingWrite
<1>9. UNCHANGED <<code, keyPolicy, edits>> /\ Done(l)
  BY DEF MissingWrite
<1> QED
  BY <1>1, <1>7, <1>8, <1>9, OneFile, DoneStep DEF EditsInv, EditsTypeOK

LEMMA WithoutIs ==
    ASSUME NEW d \in Documents, NEW ks
    PROVE  /\ Without(d, ks) \in Documents /\ DOMAIN Without(d, ks) = DOMAIN d \ ks
           /\ \A k \in DOMAIN d \ ks : Without(d, ks)[k] = d[k]
           /\ "own" \notin Range(d) => "own" \notin Range(Without(d, ks))
<1>1. PICK new : new = Without(d, ks)
  OBVIOUS
<1>2. /\ DOMAIN new = DOMAIN d \ ks /\ new = [k \in DOMAIN d \ ks |-> new[k]]
      /\ \A k \in DOMAIN d \ ks : new[k] = d[k]
  BY <1>1 DEF Without, Restrict
<1>3. new \in Documents
  <2>1. IsTree(DOMAIN d \ ks)
    BY DocumentIs DEF IsTree
  <2> QED
    BY <1>2, <2>1, DocumentIs, IsDocument
<1>4. "own" \notin Range(d) => "own" \notin Range(new)
  BY <1>2 DEF Range
<1> QED
  BY <1>1, <1>2, <1>3, <1>4

LEMMA CleanupWriteStep ==
    ASSUME EditsInv, NEW l \in Locales, NEW approved, CleanupWrite(l, approved)
    PROVE  EditsInv'
<1>1. cmd # NoCommand /\ l \in DOMAIN cmd.plan
  BY KindIs DEF CleanupWrite
<1>2. PICK d : d = IF approved = cmd.plan[l] THEN cmd.seen[l] ELSE doc[l]
  OBVIOUS
<1>3. d \in Documents /\ (l = Source => "own" \notin Range(d))
  BY <1>1, <1>2, AtPrompt DEF EditsInv, EditsTypeOK, PlanSound
<1>4. doc' = [doc EXCEPT ![l] = Without(d, approved)]
  BY <1>2 DEF CleanupWrite
<1>5. Without(d, approved) \in Documents /\ (l = Source => "own" \notin Range(Without(d, approved)))
  BY <1>3, WithoutIs
<1>6. UNCHANGED <<code, keyPolicy, edits>> /\ Done(l)
  BY DEF CleanupWrite
<1>7. doc' \in [Locales -> Documents] /\ "own" \notin Range(doc'[Source])
  BY <1>4, <1>5, OneFile DEF EditsInv
<1> QED
  BY <1>1, <1>6, <1>7, DoneStep DEF EditsInv, EditsTypeOK

(* The developer.                                                           *)
LEMMA EditCodeStep == ASSUME EditsInv, NEW scan \in Scans, EditCode(scan) PROVE EditsInv'
<1>1. code' = scan /\ edits' \in 0 .. MaxEdits /\ UNCHANGED <<keyPolicy, doc, cmd>>
  BY EditsAssumption DEF EditCode, EditsInv, EditsTypeOK
<1> QED
  BY <1>1 DEF EditsInv, EditsTypeOK, PlanSound

LEMMA EditLeafStep ==
    ASSUME EditsInv, NEW l \in Locales, NEW k \in Keys, EditLeaf(l, k)
    PROVE  EditsInv'
<1>1. doc[l] \in Documents
  BY DEF EditsInv, EditsTypeOK
<1>12. PICK others : others = {x \in DOMAIN doc[l] : ~ IsPrefix(x, k) /\ ~ IsPrefix(k, x)}
  OBVIOUS
<1>2. PICK D : D = others \cup {k}
  OBVIOUS
<1>3. PICK words : words = IF l = Source THEN "copy" ELSE "own"
  OBVIOUS
<1>4. PICK d : d = [x \in D |-> IF x # k THEN doc[l][x] ELSE words]
  OBVIOUS
<1>5. doc' = [doc EXCEPT ![l] = d]
  BY <1>12, <1>2, <1>3, <1>4 DEF EditLeaf
<1>6. d \in Documents
  <2>1. \A x \in D : (IF x # k THEN doc[l][x] ELSE words) \in Texts
    BY <1>1, <1>12, <1>2, <1>3, DocumentIs DEF Texts
  <2>2. d \in [D -> Texts] /\ DOMAIN d = D
    BY <1>4, <2>1
  <2>3. D \in SUBSET Keys
    BY <1>1, <1>12, <1>2, DocumentIs
  <2>4. IsTree(D)
    BY <1>1, <1>12, <1>2, DocumentIs DEF IsTree
  <2> QED
    BY <2>2, <2>3, <2>4 DEF Documents
<1>7. l = Source => "own" \notin Range(d)
  <2>1. ASSUME l = Source, NEW x \in DOMAIN d PROVE d[x] # "own"
    <3>1. "own" \notin Range(doc[l])
      BY <2>1 DEF EditsInv, EditsTypeOK
    <3> QED
      BY <1>12, <1>2, <1>3, <1>4, <2>1, <3>1 DEF Range
  <2> QED
    BY <2>1 DEF Range
<1>8. edits' \in 0 .. MaxEdits /\ UNCHANGED <<code, keyPolicy, cmd>>
  BY EditsAssumption DEF EditLeaf, EditsInv, EditsTypeOK
<1>9. doc' \in [Locales -> Documents] /\ "own" \notin Range(doc'[Source])
  BY <1>5, <1>6, <1>7, OneFile DEF EditsInv
<1> QED
  BY <1>8, <1>9 DEF EditsInv, EditsTypeOK, PlanSound

LEMMA DropLeafStep ==
    ASSUME EditsInv, NEW l \in Locales, NEW k \in Keys, DropLeaf(l, k)
    PROVE  EditsInv'
<1>1. doc[l] \in Documents /\ (l = Source => "own" \notin Range(doc[l]))
  BY DEF EditsInv, EditsTypeOK
<1>2. doc' = [doc EXCEPT ![l] = Without(doc[l], {k})]
  BY DEF DropLeaf
<1>3. edits' \in 0 .. MaxEdits /\ UNCHANGED <<code, keyPolicy, cmd>>
  BY EditsAssumption DEF DropLeaf, EditsInv, EditsTypeOK
<1>4. /\ Without(doc[l], {k}) \in Documents
      /\ l = Source => "own" \notin Range(Without(doc[l], {k}))
  BY <1>1, WithoutIs
<1>5. doc' \in [Locales -> Documents] /\ "own" \notin Range(doc'[Source])
  BY <1>2, <1>4, OneFile DEF EditsInv
<1> QED
  BY <1>3, <1>5 DEF EditsInv, EditsTypeOK, PlanSound

LEMMA EditsBeginning == EditsInit => EditsInv
BY EditsAssumption DEF EditsInit, EditsInv, EditsTypeOK, PlanSound

LEMMA EditsNextStep == EditsInv /\ [EditsNext]_editsVars => EditsInv'
<1> SUFFICES ASSUME EditsInv, [EditsNext]_editsVars PROVE EditsInv'
  OBVIOUS
<1>1. CASE Interrupt
  BY <1>1 DEF Interrupt, EditsInv, EditsTypeOK, PlanSound
<1>2. ASSUME NEW l \in Locales, Decline(l) PROVE EditsInv'
  BY <1>2, DoneStep DEF Decline, EditsInv, EditsTypeOK
<1>3. CASE Command
  BY <1>1, <1>2, <1>3, SyncStep, MissingPlanStep, CleanupPlanStep, MissingWriteStep,
     CleanupWriteStep DEF Command
<1>4. CASE UNCHANGED editsVars
  BY <1>4 DEF editsVars, EditsInv, EditsTypeOK, PlanSound
<1> QED
  BY <1>3, <1>4, EditCodeStep, EditLeafStep, DropLeafStep DEF EditsNext

LEMMA EditsInvariance == EditsSpec => []EditsInv
BY EditsBeginning, EditsNextStep, PTL DEF EditsSpec

(* Documents stay documents of known keys and texts, the source file never  *)
(* holds a translation, and no step writes half a plan (LocaleEdits).       *)
THEOREM EditsAreTyped == EditsSpec => []EditsTypeOK
<1>1. EditsInv => EditsTypeOK
  BY DEF EditsInv
<1> QED
  BY <1>1, EditsInvariance, PTL

(* What each command does to words.                                         *)
LEMMA SyncKeepsWords ==
    ASSUME EditsInv, NEW s \in (SUBSET Targets) \ {{}}, Sync(s), NEW l \in Locales, NEW k \in Keys,
           \/ k \in DOMAIN Template(code, keyPolicy, doc[Source])
           \/ Anchored(Template(code, keyPolicy, doc[Source]), k, KeepRoots(code, keyPolicy))
    PROVE  KeepsWords(l, k)
<1>1. /\ code \in Scans /\ keyPolicy \in Policies /\ doc[l] \in Documents
      /\ doc[Source] \in Documents
  BY DEF EditsInv, EditsTypeOK, Locales
<1>2. CASE l \in s
  <2>1. doc'[l] = Synced(code, keyPolicy, doc[Source], doc[l])
    BY <1>2 DEF Sync
  <2> QED
    BY <1>1, <2>1, SyncKeeps DEF KeepsWords
<1>3. CASE l \notin s
  <2>1. doc'[l] = doc[l]
    BY <1>3 DEF Sync
  <2> QED
    BY <2>1 DEF KeepsWords, Words
<1> QED
  BY <1>2, <1>3

LEMMA MissingKeepsWords ==
    ASSUME EditsInv, NEW l \in Locales, MissingWrite(l), doc[l] = cmd.seen[l],
           NEW m \in Locales, NEW k \in Keys,
           Writable(doc[l], cmd.plan[l]) # {} \/ ~ Under(k, cmd.plan[l])
    PROVE  KeepsWords(m, k)
<1>1. cmd # NoCommand /\ l \in DOMAIN cmd.plan
  BY KindIs DEF MissingWrite
<1>2. doc \in [Locales -> Documents]
  BY DEF EditsInv, EditsTypeOK
<1>3. PICK ks : ks = Writable(doc[l], cmd.plan[l])
  OBVIOUS
<1>4. PICK all : all = IF ks # {} THEN ks ELSE cmd.plan[l]
  OBVIOUS
<1>5. cmd.plan[l] \in SUBSET Keys /\ all \in SUBSET Keys
  BY <1>1, <1>3, <1>4, AtPrompt, PlanIs DEF EditsInv, Writable
<1>6. doc' = [doc EXCEPT ![l] = Marked(doc[l], all)]
  BY <1>3, <1>4 DEF MissingWrite
<1>7. CASE m = l
  <2> SUFFICES ASSUME Words(doc[l], k) PROVE k \in DOMAIN doc'[l] /\ doc'[l][k] = doc[l][k]
    BY <1>7 DEF KeepsWords
  <2>1. k \in DOMAIN doc[l]
    BY DEF Words
  <2>2. ~ Under(k, all)
    <3>1. CASE ks # {}
      BY <1>3, <1>4, <2>1, <3>1 DEF Under, Writable
    <3>2. CASE ks = {}
      BY <1>3, <1>4, <3>2
    <3> QED
      BY <3>1, <3>2
  <2>3. PICK d : d = doc[l]
    OBVIOUS
  <2>4. PICK new : new = Marked(d, all)
    OBVIOUS
  <2>5. d \in Documents /\ doc'[l] = new
    BY <1>2, <1>6, <2>3, <2>4
  <2>6. k \in DOMAIN new /\ new[k] = d[k]
    BY <1>5, <2>1, <2>2, <2>3, <2>4, <2>5, MarkedIs
  <2> QED
    BY <2>3, <2>5, <2>6
<1>8. CASE m # l
  <2>1. doc'[m] = doc[m]
    BY <1>2, <1>6, <1>8
  <2> QED
    BY <2>1 DEF KeepsWords, Words
<1> QED
  BY <1>7, <1>8

LEMMA CleanupKeepsWords ==
    ASSUME EditsInv, NEW l \in Locales, NEW a, CleanupWrite(l, a),
           doc[l] = cmd.seen[l] \/ a # cmd.plan[l], NEW m \in Locales, NEW k \in Keys,
           k \in cmd.scan.resolved \/ Protected(cmd.scan, keyPolicy, k)
    PROVE  KeepsWords(m, k)
<1>1. cmd # NoCommand /\ cmd.kind = "cleanup" /\ l \in DOMAIN cmd.plan /\ a \subseteq cmd.plan[l]
  BY KindIs DEF CleanupWrite
<1>2. k \notin a
  <2>1. cmd.plan[l] \subseteq Candidates(cmd.scan, keyPolicy, cmd.seen[l])
    BY <1>1 DEF EditsInv, PlanSound
  <2> QED
    BY <1>1, <2>1 DEF Candidates
<1>3. doc \in [Locales -> Documents]
  BY DEF EditsInv, EditsTypeOK
<1>4. doc' = [doc EXCEPT ![l] = Without(doc[l], a)]
  BY DEF CleanupWrite
<1>5. CASE m = l
  <2>1. doc'[m] = Without(doc[m], a) /\ doc[m] \in Documents
    BY <1>3, <1>4, <1>5
  <2>2. PICK d : d = Without(doc[m], a)
    OBVIOUS
  <2>3. DOMAIN d = DOMAIN doc[m] \ a /\ \A x \in DOMAIN doc[m] \ a : d[x] = doc[m][x]
    BY <2>2 DEF Without, Restrict
  <2> QED
    BY <1>2, <2>1, <2>2, <2>3 DEF KeepsWords, Words
<1>6. CASE m # l
  <2>1. doc'[m] = doc[m]
    BY <1>3, <1>4, <1>6
  <2> QED
    BY <2>1 DEF KeepsWords, Words
<1> QED
  BY <1>5, <1>6

(* No command loses words that are in use (sync/run.ts, missing/run.ts,     *)
(* cleanup/run.ts), however deep the trees are and whatever is protected.   *)
THEOREM UsedWordsAreKept == EditsSpec => UsedWordsKept
<1>1. EditsInv /\ [EditsNext]_editsVars => [UsedWordsStay]_editsVars
  BY SyncKeepsWords, MissingKeepsWords, CleanupKeepsWords DEF UsedWordsStay
<1> QED
  BY <1>1, EditsInvariance, PTL DEF EditsSpec, UsedWordsKept

(* After sync a target has words wherever the source has them, and nothing  *)
(* that cleanup would take (shared/json/merge.ts, cleanup/run.ts).          *)
THEOREM SyncsAreComplete == EditsSpec => SyncIsComplete
<1>1. ASSUME EditsInv, NEW s \in (SUBSET Targets) \ {{}}, Sync(s), NEW l \in s
      PROVE  /\ \A k \in code.resolved : Words(doc[Source], k) => Words(doc'[l], k)
             /\ keyPolicy.protect /\ code.resolved # {} =>
                    Candidates(code, keyPolicy, doc'[l]) = {}
  <2>1. /\ code \in Scans /\ keyPolicy \in Policies /\ doc[l] \in Documents
        /\ doc[Source] \in Documents
    BY <1>1 DEF EditsInv, EditsTypeOK, Locales
  <2>2. doc'[l] = Synced(code, keyPolicy, doc[Source], doc[l])
    BY <1>1 DEF Sync, Locales
  <2> QED
    BY <2>1, <2>2, SyncFills, SyncLeavesNoCandidate
<1>2. EditsInv /\ [EditsNext]_editsVars => [SyncCompletes]_editsVars
  BY <1>1 DEF SyncCompletes
<1> QED
  BY <1>2, EditsInvariance, PTL DEF EditsSpec, SyncIsComplete
=============================================================================
