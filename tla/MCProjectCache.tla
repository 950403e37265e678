--------------------------- MODULE MCProjectCache ---------------------------
(* Small projects, and the environments each run assumes.                  *)
EXTENDS ProjectCache, TLC
CONSTANTS a, b, enA, enB, de, x, y

(* A locale of two segments, the first its primary one, and one of one. *)
Segments == [f \in LocaleFiles |-> IF f = de THEN {de} ELSE {enA, enB}]

(* Everything exists but one source file. *)
SomeTree == {[f \in Files |-> IF f = b THEN Absent ELSE v] : v \in Contents}

Env(rebuild, dispatches, alone, faults, maxEdits, maxStarts) ==
  [rebuild |-> rebuild, dispatches |-> dispatches, alone |-> alone, faults |-> faults,
   maxEdits |-> maxEdits, maxStarts |-> maxStarts]

(* The `safe` profile: every miss is a full scan.  Commands overlap, crash,*)
(* fail to write, and lose cache files.                                    *)
Safe == Env("full", 2, FALSE, {"crash", "write", "lost"}, 2, 2)
(* The `balanced` profile, one dispatch per command, one command at a time.*)
Careful == Env("partial", 1, TRUE, {"lost"}, 3, 4)
SoundEnvironments == {Safe, Careful}

(* The `balanced` profile, one command at a time with two dispatches.      *)
Repeated == {Env("partial", 2, TRUE, {}, 1, 2)}

Sym == Permutations(Contents) \cup Permutations(Processes)
=============================================================================
