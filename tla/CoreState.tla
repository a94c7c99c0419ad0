----------------------------- MODULE CoreState ------------------------------
(***************************************************************************)
(* CoreMark's state machine benchmark (coremark/core_state.c): a machine   *)
(* that scans a buffer of comma-separated tokens and says what kind of     *)
(* number each one is, run over the input, over a corrupted copy made in   *)
(* place, and the input restored.  A byte is its character code; a buffer  *)
(* is a sequence, so that byte 0 of the block is buf[1].                   *)
(***************************************************************************)
EXTENDS CoreUtil

Comma == 44
IsDigit(c) == c \in 48..57
IsSign(c) == c \in {43, 45}

(* enum CORE_STATE, in its order: the checksum visits the counters so.     *)
CoreStates == <<"start", "invalid", "s1", "s2", "int", "float", "exponent", "scientific">>
NoCounts == [s \in {CoreStates[k] : k \in DOMAIN CoreStates} |-> 0]

(* Where the machine goes from s on a symbol that is not a comma.          *)
Goes(s, c) ==
  CASE s \in {"start", "s1"} /\ IsDigit(c)                   -> "int"
    [] s \in {"start", "s1", "int"} /\ c = 46                -> "float"
    [] s = "start" /\ IsSign(c)                              -> "s1"
    [] s \in {"int", "float", "scientific"} /\ IsDigit(c)    -> s
    [] s = "float" /\ c \in {69, 101}                        -> "s2"
    [] s = "s2" /\ IsSign(c)                                 -> "exponent"
    [] s = "exponent" /\ IsDigit(c)                          -> "scientific"
    [] OTHER                                                 -> "invalid"

(* The transition counters that this step increments: its own when the     *)
(* code counts the step there, and that of the invalid state when the      *)
(* first or the last state of a number ends in it.                         *)
Counted(counts, s, next) ==
  [counts EXCEPT
     ![s] = @ + (IF \/ s \in {"start", "s1", "s2", "exponent"}
                    \/ (s \in {"int", "float"} /\ next # s) THEN 1 ELSE 0),
     !["invalid"] = @ + (IF s \in {"start", "scientific"} /\ next = "invalid" THEN 1 ELSE 0)]

(* core_state_transition: one token from position t.p on.  A zero byte     *)
(* ends the token and is not consumed, a comma is, and an invalid symbol   *)
(* is the last of its token: the next token starts behind it.              *)
RECURSIVE Token(_, _)
Token(buf, t) ==
  IF buf[t.p] = 0 \/ t.state = "invalid" THEN t
  ELSE IF buf[t.p] = Comma THEN [t EXCEPT !.p = @ + 1]
  ELSE LET next == Goes(t.state, buf[t.p])
       IN Token(buf, [p |-> t.p + 1, state |-> next,
                      counts |-> Counted(t.counts, t.state, next)])

(* The loop of core_bench_state over the buffer: token after token until a *)
(* zero byte, counting the states that end one and the transitions.        *)
RECURSIVE Scan(_, _)
Scan(buf, s) ==
  IF buf[s.p] = 0 THEN s
  ELSE LET t == Token(buf, [p |-> s.p, state |-> "start", counts |-> s.track])
       IN Scan(buf, [p |-> t.p, final |-> [s.final EXCEPT ![t.state] = @ + 1],
                     track |-> t.counts])

(* Every step-th byte that is not a comma is xor-ed with the low byte of   *)
(* the seed; doing it twice restores the buffer only if no byte becomes a  *)
(* comma.                                                                  *)
RECURSIVE Corrupt(_, _, _, _)
Corrupt(buf, p, seed, step) ==
  IF p > Len(buf) THEN buf
  ELSE Corrupt([buf EXCEPT ![p] = IF @ = Comma THEN @ ELSE @ ^^ U8(seed)], p + step, seed, step)

(* core_bench_state: the buffer it leaves behind and the checksum of the   *)
(* final and the transition counters of both scans.  Faulty form: the      *)
(* corruption is undone one byte further on.                               *)
BenchStateShifted(buf, seed1, seed2, step, crc) ==
  [buf |-> Corrupt(Corrupt(buf, 1, seed1, step), 2, seed2, step), crc |-> crc]

BenchState(buf, seed1, seed2, step, crc) ==
  LET direct == Scan(buf, [p |-> 1, final |-> NoCounts, track |-> NoCounts])
      corrupted == Corrupt(buf, 1, seed1, step)
      both == Scan(corrupted, [direct EXCEPT !.p = 1])
      sum[k \in 0..8] ==
        IF k = 0 THEN crc
        ELSE CrcU32(both.track[CoreStates[k]], CrcU32(both.final[CoreStates[k]], sum[k - 1]))
  IN [buf |-> Corrupt(corrupted, 1, seed2, step), crc |-> sum[8]]

(* The predetermined inputs: four integers of four symbols, and four each  *)
(* of eight symbols that are floating, scientific and invalid numbers.     *)
IntPat == << <<53, 48, 49, 50>>, <<49, 50, 51, 52>>, <<45, 56, 55, 52>>, <<43, 49, 50, 50>> >>
FloatPat == << <<51, 53, 46, 53, 52, 52, 48, 48>>, <<46, 49, 50, 51, 52, 53, 48, 48>>,
               <<45, 49, 49, 48, 46, 55, 48, 48>>, <<43, 48, 46, 54, 52, 52, 48, 48>> >>
SciPat == << <<53, 46, 53, 48, 48, 101, 43, 51>>, <<45, 46, 49, 50, 51, 101, 45, 50>>,
             <<45, 56, 55, 101, 43, 56, 51, 50>>, <<43, 48, 46, 54, 101, 45, 49, 50>> >>
ErrPat == << <<84, 48, 46, 51, 101, 45, 49, 70>>, <<45, 84, 46, 84, 43, 43, 84, 113>>,
             <<49, 84, 51, 46, 52, 101, 52, 122>>, <<51, 52, 46, 48, 101, 45, 84, 94>> >>

Pattern(seed) ==
  LET which == ((seed \div 8) % 4) + 1
  IN CASE seed % 8 \in 0..2 -> IntPat[which]
       [] seed % 8 \in 3..4 -> FloatPat[which]
       [] seed % 8 \in 5..6 -> SciPat[which]
       [] OTHER             -> ErrPat[which]

(* core_init_state: patterns, each behind the next value of the seed, as   *)
(* long as one more with its comma leaves two bytes; the rest is zero.     *)
RECURSIVE Fill(_, _, _, _)
Fill(written, next, seed, size) ==
  IF Len(written) + Len(next) + 1 < size - 1
  THEN Fill(IF next = <<>> THEN written ELSE written \o Append(next, Comma),
            Pattern(S16(seed + 1)), S16(seed + 1), size)
  ELSE written

InitState(size, seed) ==
  LET written == Fill(<<>>, <<>>, seed, size)
  IN [k \in 1..size |-> IF k <= Len(written) THEN written[k] ELSE 0]
=============================================================================
