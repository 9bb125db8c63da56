--------------------------------- MODULE Aiger ---------------------------------
(******************************************************************************)
(* The AIGER library and the two places where the command line uses it: an    *)
(* AIG is read from an ASCII or a binary file, and the gates of an IVC are    *)
(* saved as an AIG of their own, with the gates left out as new inputs.       *)
(*                                                                            *)
(* A literal is twice its variable, plus one when negated; 0 and 1 are the    *)
(* constants.  A file has lines of numbers, the bytes of a binary file's AND  *)
(* gates, and symbols; NoName stands for a missing name.  Types of variables  *)
(* (aiger_type) are looked up in the arrays they point into.  Comments are    *)
(* left out.  Assertions are on, as in the default build.                     *)
(******************************************************************************)
EXTENDS Integers, FiniteSetsExt, Functions, SequencesExt

CONSTANTS
  Originals,   \* AIGs, as sequences of calls that build them
  Damaged,     \* files that are no written AIG
  NoName,
  Numbers      \* numbers that are encoded, among them the ends of each length

VARIABLES
  original,    \* an AIG before it is first written
  file,        \* the file that was written last
  ckt,         \* aig of main(): the AIG that was read last
  core,        \* the gates of an IVC
  saved,       \* ivc_aig of save_subcircuit()
  phase        \* original -> written -> open -> saved -> reopened

vars == <<original, file, ckt, core, saved, phase>>

--------------------------------------------------------------------------------
(* Building.  An assertion that fails or an error ends everything.            *)

Sinks == {"output", "bad", "constraint", "fairness"}

aiger_init ==
  [ maxvar |-> 0, inputs |-> <<>>, latches |-> <<>>, ands |-> <<>>, justice |-> <<>>,
    sinks |-> [k \in Sinks |-> <<>>], mark |-> {}, error |-> "none" ]

var(lit) == lit \div 2
strip(lit) == lit - (lit % 2)
Fail(a, why) == IF a.error = "none" THEN [a EXCEPT !.error = why] ELSE a
Assertion(a, cond, b) == IF a.error = "none" /\ cond THEN b ELSE Fail(a, "assertion")
AssertNoError(a, b) == IF b.error = "none" THEN b ELSE Fail(a, "assertion")
Expect(a, cond, b) == IF a.error = "none" /\ cond THEN b ELSE Fail(a, "message")

Index(seq, lit) == { i \in DOMAIN seq : seq[i].lit = lit }
IsInput(a, v) == Index(a.inputs, 2 * v) # {}
IsLatch(a, v) == Index(a.latches, 2 * v) # {}
IsAnd(a, v) == Index(a.ands, 2 * v) # {}
Defined(a, v) == IsInput(a, v) \/ IsLatch(a, v) \/ IsAnd(a, v)
AndOf(a, v) == a.ands[CHOOSE i \in Index(a.ands, 2 * v) : TRUE]
LatchOf(a, v) == a.latches[CHOOSE i \in Index(a.latches, 2 * v) : TRUE]

import(a, lits) == [a EXCEPT !.maxvar = Max({@} \union { var(l) : l \in lits })]
Definable(a, lit) == lit > 1 /\ lit % 2 = 0 /\ ~Defined(a, var(lit))

aiger_add_input(a, lit, name) ==
  Assertion(a, Definable(a, lit),
         [import(a, {lit}) EXCEPT !.inputs = Append(@, [lit |-> lit, name |-> name])])

aiger_add_latch(a, lit, next, name) ==
  Assertion(a, Definable(a, lit),
         [import(a, {lit, next}) EXCEPT
            !.latches = Append(@, [lit |-> lit, next |-> next, reset |-> 0, name |-> name])])

aiger_add_reset(a, lit, reset) ==
  Assertion(a, reset \in {0, 1, lit} /\ IsLatch(a, var(lit)),
         [a EXCEPT !.latches =
            [i \in DOMAIN @ |-> IF @[i].lit = lit THEN [@[i] EXCEPT !.reset = reset] ELSE @[i]]])

\* aiger_add_output, _bad, _constraint and _fairness.
AddSink(a, kind, lit, name) ==
  Assertion(a, TRUE,
         [import(a, {lit}) EXCEPT !.sinks[kind] = Append(@, [lit |-> lit, name |-> name])])

aiger_add_justice(a, lits, name) ==
  Assertion(a, TRUE,
         [import(a, Range(lits)) EXCEPT
            !.justice = Append(@, [lit |-> 0, lits |-> lits, name |-> name])])

aiger_add_and(a, lhs, rhs0, rhs1) ==
  Assertion(a, Definable(a, lhs),
         [import(a, {lhs, rhs0, rhs1}) EXCEPT
            !.ands = Append(@, [lit |-> lhs, rhs0 |-> rhs0, rhs1 |-> rhs1])])

--------------------------------------------------------------------------------
(* aiger_check: literals that are used and not defined, and cycles of gates.  *)

aiger_literal_defined(a, lit) == lit <= 1 \/ Defined(a, var(lit))

UsedByLatches(a) == { a.latches[i].next : i \in DOMAIN a.latches }
UsedByAnds(a) == UNION { {a.ands[i].rhs0, a.ands[i].rhs1} : i \in DOMAIN a.ands }
UsedBySinks(a) == UNION { { a.sinks[k][i].lit : i \in DOMAIN a.sinks[k] } : k \in Sinks }
UsedByJustice(a) == UNION { Range(a.justice[i].lits) : i \in DOMAIN a.justice }

AllDefined(a) ==
  \A lit \in UsedByLatches(a) \union UsedByAnds(a) \union UsedBySinks(a) \union UsedByJustice(a) :
     aiger_literal_defined(a, lit)

\* One turn of the depth-first search for cycles.  A zero on the stack stands
\* for the end of the descendants of what is below it.  Marks stay set.
CycleTurn(a, s) ==
  LET j    == Last(s.stack)
      rest == Front(s.stack)
      and  == AndOf(a, j)
      kids == SelectSeq(<<var(and.rhs0), var(and.rhs1)>>, LAMBDA v : v # 0)
  IN  IF j = 0
        THEN [s EXCEPT !.stack = Front(rest), !.onstack = @ \ {Last(rest)}]
      ELSE IF j \in s.mark /\ j \in s.onstack
        THEN [s EXCEPT !.cyclic = TRUE, !.stack = <<>>]
      ELSE IF ~IsAnd(a, j) \/ j \in s.mark
        THEN [s EXCEPT !.stack = rest]
      ELSE [s EXCEPT !.mark = @ \union {j}, !.onstack = @ \union {j},
                     !.stack = @ \o <<0>> \o kids]

\* The search from each variable, those to come below on the stack.  A gate is marked
\* once, by a turn that pushes at most three entries, each popped by one turn at most.
aiger_check_for_cycles(a) ==
  FoldLeft(LAMBDA s, i : IF s.stack = <<>> THEN s ELSE CycleTurn(a, s),
           [ stack |-> [i \in 1..a.maxvar |-> a.maxvar + 1 - i],
             mark |-> a.mark, onstack |-> {}, cyclic |-> FALSE ],
           [i \in 1 .. a.maxvar + 4 * Len(a.ands) |-> i])

Searched(a, search) ==
  LET marked == [a EXCEPT !.mark = search.mark] IN Expect(marked, ~search.cyclic, marked)
aiger_check(a) == Expect(a, AllDefined(a), Searched(a, aiger_check_for_cycles(a)))

--------------------------------------------------------------------------------
(* aiger_reencode: inputs, then latches, then the gates that something needs, *)
(* each after its children.                                                   *)

aiger_max_input_or_latch(a) ==
  Max({0} \union { a.inputs[i].lit : i \in DOMAIN a.inputs }
          \union { a.latches[i].lit : i \in DOMAIN a.latches })

aiger_is_reencoded(a) ==
  LET n == Len(a.inputs)
      m == n + Len(a.latches)
  IN  /\ \A i \in DOMAIN a.inputs : a.inputs[i].lit = 2 * i
      /\ \A i \in DOMAIN a.latches : a.latches[i].lit = 2 * (n + i)
      /\ \A i \in DOMAIN a.ands :
           /\ a.ands[i].lit = 2 * (m + i)
           /\ a.ands[i].lit >= a.ands[i].rhs0 /\ a.ands[i].rhs0 >= a.ands[i].rhs1

\* One turn of the depth-first search of aiger_reencode_lit.  The larger child is
\* pushed first; inputs, latches and what is on the path already are not.
ReencodeTurn(a, s) ==
  LET old    == Last(s.stack)
      rest   == Front(s.stack)
      and    == AndOf(a, old)
      c0     == Max({var(and.rhs0), var(and.rhs1)})
      c1     == Min({var(and.rhs0), var(and.rhs1)})
      pushed == s.onstack \union {old}
      kids   == SelectSeq(<<c0, c1>>, LAMBDA c : c # 0 /\ IsAnd(a, c) /\ c \notin pushed)
  IN  IF old = 0
        THEN [s EXCEPT !.stack = Front(rest), !.onstack = @ \ {Last(rest)},
                       !.code = (Last(rest) :> s.new) @@ @, !.new = @ + 2]
      ELSE IF old \in DOMAIN s.code \union s.onstack
        THEN [s EXCEPT !.stack = rest]
      ELSE [s EXCEPT !.onstack = pushed, !.stack = @ \o <<0>> \o kids]

\* The literals to reencode, in order.
Lits(seq) == [i \in DOMAIN seq |-> seq[i].lit]
Wanted(a) ==
  FlattenSeq([i \in DOMAIN a.latches |-> <<a.latches[i].next, a.latches[i].reset>>])
  \o Lits(a.sinks["output"]) \o Lits(a.sinks["bad"]) \o Lits(a.sinks["constraint"])
  \o FlattenSeq([i \in DOMAIN a.justice |-> a.justice[i].lits])
  \o Lits(a.sinks["fairness"])

\* The codes of the inputs and latches, and the search from each of the literals,
\* those to come below on the stack.
FirstCodes(a, signals, wanted) ==
  [ stack   |-> [i \in DOMAIN wanted |-> var(wanted[Len(wanted) + 1 - i])],
    onstack |-> {},
    new     |-> 2 * (Len(signals) + 1),
    code    |-> [v \in { var(l) : l \in Range(signals) } |->
                   2 * CHOOSE i \in DOMAIN signals : var(signals[i]) = v] ]

Codes(a) ==
  FoldLeft(LAMBDA s, i : IF s.stack = <<>> THEN s ELSE ReencodeTurn(a, s),
           FirstCodes(a, Lits(a.inputs) \o Lits(a.latches),
                      SelectSeq(Wanted(a), LAMBDA lit : lit > 1)),
           [i \in 1 .. Len(Wanted(a)) + 4 * Len(a.ands) |-> i])

\* Gates that nothing needs have no code and are dropped.
Reencoded(a, codes) ==
  LET Code(l) == IF l < 2 THEN l ELSE codes.code[var(l)] + (l % 2)
      Recoded(x) == [x EXCEPT !.lit = Code(@)]
      kept    == SelectSeq(a.ands, LAMBDA x : var(x.lit) \in DOMAIN codes.code)
      gates   == [i \in DOMAIN kept |->
                   LET r == {Code(kept[i].rhs0), Code(kept[i].rhs1)} IN
                     [lit |-> Code(kept[i].lit), rhs0 |-> Max(r), rhs1 |-> Min(r)]]
  IN  [ a EXCEPT
          !.maxvar  = (codes.new \div 2) - 1,
          !.ands    = SortSeq(gates, LAMBDA x, y : x.lit < y.lit),
          !.inputs  = [i \in DOMAIN @ |-> Recoded(@[i])],
          !.latches = [i \in DOMAIN @ |-> [Recoded(@[i]) EXCEPT !.next  = Code(@),
                                                               !.reset = Code(@)]],
          !.sinks   = [k \in Sinks |-> [i \in DOMAIN @[k] |-> Recoded(@[k][i])]],
          !.justice = [i \in DOMAIN @ |->
                        [@[i] EXCEPT !.lits = [j \in DOMAIN @ |-> Code(@[j])]]] ]

AssertReencoded(a, b) == Assertion(a, aiger_is_reencoded(b), b)
AssertCheck(a, b) == AssertNoError(a, aiger_check(b))

aiger_reencode(a) ==
  IF aiger_is_reencoded(a) THEN a
  ELSE AssertCheck(a, AssertReencoded(a, Reencoded(a, Codes(a))))

--------------------------------------------------------------------------------
(* Writing.  Counts at the end of the header that are zero and optional are   *)
(* left out, and so are resets to zero; the inputs' and latches' literals are *)
(* left out of a binary file, and its gates are written as differences.       *)

\* Seven bits a byte, the highest bit set in all but the last.
write_delta[d \in Nat] ==
  IF d < 128 THEN <<d>> ELSE <<128 + (d % 128)>> \o write_delta[d \div 128]

Deltas(x) == write_delta[x.lit - x.rhs0] \o write_delta[x.rhs0 - x.rhs1]

Header(a) ==
  LET extra == <<Len(a.sinks["bad"]), Len(a.sinks["constraint"]), Len(a.justice),
                 Len(a.sinks["fairness"])>>
      n     == Max({0} \union { i \in 1..4 : extra[i] > 0 })
  IN  <<a.maxvar, Len(a.inputs), Len(a.latches), Len(a.sinks["output"]), Len(a.ands)>>
      \o SubSeq(extra, 1, n)

Lines(a, mode) ==
  LET Lit(seq)  == [i \in DOMAIN seq |-> <<seq[i].lit>>]
      Latch(l)  == (IF mode = "ascii" THEN <<l.lit>> ELSE <<>>) \o <<l.next>>
                   \o (IF l.reset # 0 THEN <<l.reset>> ELSE <<>>)
  IN  (IF mode = "ascii" THEN Lit(a.inputs) ELSE <<>>)
      \o [i \in DOMAIN a.latches |-> Latch(a.latches[i])]
      \o Lit(a.sinks["output"]) \o Lit(a.sinks["bad"]) \o Lit(a.sinks["constraint"])
      \o [i \in DOMAIN a.justice |-> <<Len(a.justice[i].lits)>>]
      \o FlattenSeq([i \in DOMAIN a.justice |->
                      [j \in DOMAIN a.justice[i].lits |-> <<a.justice[i].lits[j]>>]])
      \o Lit(a.sinks["fairness"])
      \o (IF mode = "ascii"
            THEN [i \in DOMAIN a.ands |-> <<a.ands[i].lit, a.ands[i].rhs0, a.ands[i].rhs1>>]
            ELSE <<>>)

Named(type, seq) ==
  SelectSeq([i \in DOMAIN seq |-> [type |-> type, pos |-> i - 1, name |-> seq[i].name]],
            LAMBDA s : s.name # NoName)

Symbols(a) ==
  Named("i", a.inputs) \o Named("l", a.latches) \o Named("o", a.sinks["output"])
  \o Named("b", a.sinks["bad"]) \o Named("c", a.sinks["constraint"])
  \o Named("j", a.justice) \o Named("f", a.sinks["fairness"])

Written(a, mode) ==
  [ mode    |-> mode,
    header  |-> Header(a),
    lines   |-> Lines(a, mode),
    bytes   |-> IF mode = "ascii" THEN <<>>
                ELSE FlattenSeq([i \in DOMAIN a.ands |-> Deltas(a.ands[i])]),
    symbols |-> Symbols(a) ]

NoFile == [mode |-> "none", header |-> <<>>, lines |-> <<>>, bytes |-> <<>>, symbols |-> <<>>]

\* What writing leaves of the AIG, and the file.
aiger_write_generic(a, mode) ==
  LET Encoded(b) == IF mode = "binary" /\ b.error = "none" THEN aiger_reencode(b) ELSE b
      Result(b)  == [aig |-> b, file |-> IF b.error = "none" THEN Written(b, mode) ELSE NoFile]
  IN  Result(Encoded(AssertCheck(a, a)))

--------------------------------------------------------------------------------
(* Reading.  A line that is missing or has another number of literals than    *)
(* expected is an error, as is each literal out of range.                     *)

Line(f, i) == IF i \in DOMAIN f.lines THEN f.lines[i] ELSE <<>>
InRange(a, lit) == var(lit) <= a.maxvar

\* aiger_already_defined, and the test before it.
Fresh(a, lit) == Definable(a, lit) /\ InRange(a, lit)

\* The number at position p and the position after it, zero if there is none.
read_delta(bytes, p) ==
  LET last == { q \in p..Min({p + 5, Len(bytes)}) :
                  bytes[q] < 128 /\ \A r \in p..(q - 1) : bytes[r] >= 128 }
  IN  IF last = {} THEN [value |-> 0, next |-> 0]
      ELSE LET q == CHOOSE r \in last : TRUE IN
             [ value |-> FoldRight(LAMBDA b, n : (b % 128) + 128 * n, SubSeq(bytes, p, q), 0),
               next  |-> q + 1 ]

\* A reader has read f up to line at and byte next.
Reader(f) ==
  [aig |-> [aiger_init EXCEPT !.maxvar = f.header[1]], at |-> 0, next |-> 1]

\* n lines are read, which make of the AIG what they should or an error.
Read(s, n, cond, b) == [s EXCEPT !.aig = Expect(@, cond, b), !.at = @ + n]

ReadInput(f, s, i) ==
  LET l == Line(f, s.at + 1) IN
    IF f.mode = "binary" THEN [s EXCEPT !.aig = aiger_add_input(@, 2 * i, NoName)]
    ELSE Read(s, 1, Len(l) = 1 /\ Fresh(s.aig, l[1]), aiger_add_input(s.aig, l[1], NoName))

ReadLatch(f, s, i) ==
  LET l     == Line(f, s.at + 1)
      own   == IF f.mode = "binary" THEN 0 ELSE 1
      lit   == IF f.mode = "binary" THEN 2 * (f.header[2] + i) ELSE l[1]
      latch == aiger_add_latch(s.aig, lit, l[own + 1], NoName)
  IN  Read(s, 1,
           /\ Len(l) \in {own + 1, own + 2}
           /\ own = 1 => Fresh(s.aig, lit)
           /\ InRange(s.aig, l[own + 1]),
           IF Len(l) = own + 2 THEN aiger_add_reset(latch, lit, l[own + 2]) ELSE latch)

ReadSink(f, s, kind) ==
  LET l == Line(f, s.at + 1) IN
    Read(s, 1, Len(l) = 1 /\ InRange(s.aig, l[1]), AddSink(s.aig, kind, l[1], NoName))

\* The i-th justice property, whose size was on an earlier line; its literals are
\* not compared with the largest variable.
ReadJustice(f, s, sizes, i) ==
  LET n    == IF Len(sizes[i]) = 1 THEN sizes[i][1] ELSE 0
      lits == [j \in 1..n |-> Line(f, s.at + j)]
  IN  Read(s, n, Len(sizes[i]) = 1 /\ \A j \in 1..n : Len(lits[j]) = 1,
           aiger_add_justice(s.aig, [j \in 1..n |-> lits[j][1]], NoName))

ReadAsciiAnd(f, s) ==
  LET l == Line(f, s.at + 1) IN
    Read(s, 1, Len(l) = 3 /\ Fresh(s.aig, l[1]) /\ InRange(s.aig, l[2]) /\ InRange(s.aig, l[3]),
         aiger_add_and(s.aig, l[1], l[2], l[3]))

ReadBinaryAnd(f, s, i) ==
  LET lhs == aiger_max_input_or_latch(s.aig) + 2 * i
      d0  == read_delta(f.bytes, s.next)
      d1  == read_delta(f.bytes, d0.next)
  IN  [ s EXCEPT !.next = d1.next,
                 !.aig  = Expect(@, /\ d0.next # 0 /\ d0.value <= lhs
                                    /\ d1.next # 0 /\ d1.value <= lhs - d0.value,
                                 aiger_add_and(@, lhs, lhs - d0.value,
                                               lhs - d0.value - d1.value)) ]

ReadSymbol(a, symbol) ==
  LET i   == symbol.pos + 1
      Take(seq) == i \in DOMAIN seq /\ seq[i].name = NoName
      Kind(t) == CASE t = "o" -> "output" [] t = "b" -> "bad" [] t = "c" -> "constraint"
                   [] t = "f" -> "fairness"
  IN  CASE symbol.type = "i" -> Expect(a, Take(a.inputs), [a EXCEPT !.inputs[i].name = symbol.name])
        [] symbol.type = "l" -> Expect(a, Take(a.latches), [a EXCEPT !.latches[i].name = symbol.name])
        [] symbol.type = "j" -> Expect(a, Take(a.justice), [a EXCEPT !.justice[i].name = symbol.name])
        [] OTHER -> Expect(a, Take(a.sinks[Kind(symbol.type)]),
                           [a EXCEPT !.sinks[Kind(symbol.type)][i].name = symbol.name])

HeaderRight(f) ==
  /\ Len(f.header) \in 5..9
  /\ f.mode = "binary" => f.header[1] = f.header[2] + f.header[3] + f.header[5]

Upto(n) == [i \in 1..n |-> i]
ReadInputs(f, s, n) == FoldLeft(LAMBDA t, i : ReadInput(f, t, i), s, Upto(n))
ReadLatches(f, s, n) == FoldLeft(LAMBDA t, i : ReadLatch(f, t, i), s, Upto(n))
ReadSinks(f, s, kind, n) == FoldLeft(LAMBDA t, i : ReadSink(f, t, kind), s, Upto(n))

\* All the sizes come first.
ReadJustices(f, s, n) ==
  FoldLeft(LAMBDA t, i : ReadJustice(f, t, [j \in 1..n |-> Line(f, s.at + j)], i),
           [s EXCEPT !.at = @ + n], Upto(n))

ReadHeader(f) ==
  LET Count(i)   == IF i \in DOMAIN f.header THEN f.header[i] ELSE 0
      signals    == ReadLatches(f, ReadInputs(f, Reader(f), Count(2)), Count(3))
      outputs    == ReadSinks(f, signals, "output", Count(4))
      properties == ReadSinks(f, ReadSinks(f, outputs, "bad", Count(6)), "constraint", Count(7))
  IN  ReadSinks(f, ReadJustices(f, properties, Count(8)), "fairness", Count(9))

ReadAnds(f, header) ==
  FoldLeft(LAMBDA s, i : IF f.mode = "ascii" THEN ReadAsciiAnd(f, s) ELSE ReadBinaryAnd(f, s, i),
           header, [i \in 1..f.header[5] |-> i])

\* What follows the gates has to be symbols.
aiger_read_generic(f) ==
  IF ~HeaderRight(f) THEN Fail(aiger_init, "message")
  ELSE LET s       == ReadAnds(f, ReadHeader(f))
           ended   == Expect(s.aig, s.at = Len(f.lines) /\ s.next = Len(f.bytes) + 1, s.aig)
           symbols == FoldLeft(ReadSymbol, ended, f.symbols)
       IN  Expect(symbols, TRUE, aiger_check(symbols))

--------------------------------------------------------------------------------
(* save_subcircuit                                                            *)

NextVars(a, V) == { var(LatchOf(a, v).next) : v \in { w \in V : IsLatch(a, w) } }

\* Faulty: only the latches that the gates need themselves bring in what they need.
Relevant_Once(a, V) == V \union NextVars(a, V)

\* The latches' next states are relevant, and what they need, and so forth.
Relevant(a, V) ==
  LET Round[n \in Nat] ==
        IF n = 0 THEN V ELSE LET R == Round[n - 1] IN R \union NextVars(a, R)
  IN  Round[Len(a.latches)]

\* A variable of the subcircuit other than its gates, with its name in the original;
\* aiger_is_and() looks no variable up that the new AIG has not seen.
CopyVar(a, sub, v) ==
  LET latch == LatchOf(a, v)
      input == a.inputs[CHOOSE i \in Index(a.inputs, 2 * v) : TRUE]
  IN  CASE IsLatch(a, v) ->
             aiger_add_reset(aiger_add_latch(sub, 2 * v, latch.next, latch.name), 2 * v, latch.reset)
        [] IsInput(a, v) -> aiger_add_input(sub, 2 * v, input.name)
        [] OTHER -> Assertion(sub, v <= sub.maxvar,
                           IF IsAnd(sub, v) THEN sub ELSE aiger_add_input(sub, 2 * v, NoName))

\* The AIG of the gates in C, before it is written.
Subcircuit(a, C) ==
  LET o     == a.sinks["output"][1]
      gates == FoldLeft(LAMBDA s, v : aiger_add_and(s, 2 * v, AndOf(a, v).rhs0, AndOf(a, v).rhs1),
                        aiger_init, SetToSortSeq(C, <))
      read  == UNION { {v, var(AndOf(a, v).rhs0), var(AndOf(a, v).rhs1)} : v \in C }
      relevant == Relevant(a, read \union { v \in {var(o.lit)} : IsLatch(a, v) })
      copied == FoldLeft(LAMBDA s, v : CopyVar(a, s, v), gates,
                         SetToSortSeq(relevant \ {0}, <))
  IN  Assertion(aiger_init, Len(a.sinks["output"]) = 1, AddSink(copied, "output", o.lit, o.name))

--------------------------------------------------------------------------------
(* The command line.                                                          *)

Build(calls) ==
  LET Call(a, c) ==
        CASE c.op = "input"   -> aiger_add_input(a, c.lits[1], c.name)
          [] c.op = "latch"   -> aiger_add_reset(
                                   aiger_add_latch(a, c.lits[1], c.lits[2], c.name),
                                   c.lits[1], c.lits[3])
          [] c.op = "and"     -> aiger_add_and(a, c.lits[1], c.lits[2], c.lits[3])
          [] c.op = "justice" -> aiger_add_justice(a, c.lits, c.name)
          [] OTHER            -> AddSink(a, c.op, c.lits[1], c.name)
  IN  FoldLeft(Call, aiger_init, calls)

AndVars(a) == { var(a.ands[i].lit) : i \in DOMAIN a.ands }

Init ==
  /\ \/ /\ \E calls \in Originals : original = Build(calls)
        /\ file = NoFile
        /\ phase = "original"
     \/ /\ original = aiger_init
        /\ file \in Damaged
        /\ phase = "written"
  /\ ckt = aiger_init
  /\ core = {}
  /\ saved = aiger_init

\* The AIG is written by some program that uses the library as well.
WriteOriginal ==
  /\ phase = "original"
  /\ \E mode \in {"ascii", "binary"} : file' = aiger_write_generic(original, mode).file
  /\ phase' = "written"
  /\ UNCHANGED <<original, ckt, core, saved>>

\* main() opens the AIG, and somebody the one that was saved.
ReadFile ==
  /\ phase \in {"written", "saved"}
  /\ file # NoFile
  /\ ckt' = IF phase = "written" THEN aiger_read_generic(file) ELSE ckt
  /\ saved' = IF phase = "saved" THEN aiger_read_generic(file) ELSE saved
  /\ phase' = IF phase = "written" THEN "open" ELSE "reopened"
  /\ UNCHANGED <<original, file, core>>

\* save_ivc
SaveSubcircuit ==
  /\ phase = "open"
  /\ ckt.error = "none" /\ ckt.sinks["output"] # <<>>
  /\ \E C \in SUBSET AndVars(ckt) :
       LET written == aiger_write_generic(Subcircuit(ckt, C), "binary") IN
         /\ core' = C
         /\ saved' = written.aig
         /\ file' = written.file
  /\ phase' = "saved"
  /\ UNCHANGED <<original, ckt>>

Next == WriteOriginal \/ ReadFile \/ SaveSubcircuit

--------------------------------------------------------------------------------
(* What files are for.                                                        *)

\* The variables that are true when those in T are, of the inputs and latches.
Values(a, T) ==
  LET True[v \in 0..a.maxvar] ==
        IF IsAnd(a, v)
          THEN LET and == AndOf(a, v) IN
                 /\ True[var(and.rhs0)] # (and.rhs0 % 2 = 1)
                 /\ True[var(and.rhs1)] # (and.rhs1 % 2 = 1)
          ELSE v \in T
  IN  { v \in 0..a.maxvar : True[v] }

LitTrue(l, V) == (var(l) \in V) # (l % 2 = 1)
TrueOf(seq, V) == { i \in DOMAIN seq : LitTrue(seq[i].lit, V) }
VarsAt(seq, I) == { var(seq[i].lit) : i \in I }

\* Next state and outputs for each state and inputs, by positions.
Table(a) ==
  LET Row(s, i) ==
        LET V == Values(a, VarsAt(a.latches, s) \union VarsAt(a.inputs, i)) IN
          [ next  |-> { l \in DOMAIN a.latches : LitTrue(a.latches[l].next, V) },
            sinks |-> [k \in Sinks |-> TrueOf(a.sinks[k], V)],
            justice |-> [j \in DOMAIN a.justice |->
                          { n \in DOMAIN a.justice[j].lits : LitTrue(a.justice[j].lits[n], V) }] ]
  IN  [x \in (SUBSET (DOMAIN a.latches)) \X (SUBSET (DOMAIN a.inputs)) |-> Row(x[1], x[2])]

\* Everything but the numbering.
Meaning(a) ==
  LET Names(seq) == [i \in DOMAIN seq |-> seq[i].name] IN
    [ names  |-> <<Names(a.inputs), Names(a.latches), Names(a.justice),
                   [k \in Sinks |-> Names(a.sinks[k])]>>,
      resets |-> [i \in DOMAIN a.latches |-> Min({a.latches[i].reset, 2})],
      table  |-> Table(a) ]

\* The AIG with the gates outside C as inputs.
Freed(a, C) ==
  LET free == SelectSeq(a.ands, LAMBDA x : var(x.lit) \notin C) IN
    [a EXCEPT !.inputs = @ \o [i \in DOMAIN free |-> [lit |-> free[i].lit, name |-> NoName]],
              !.ands   = SelectSeq(@, LAMBDA x : var(x.lit) \in C)]

\* The lengths up to n of the runs that end in a bad state.
BadDepths(a, n) ==
  LET table  == Table(a)
      inputs == SUBSET DOMAIN a.inputs
      init   == { s \in SUBSET DOMAIN a.latches :
                    \A l \in DOMAIN a.latches :
                       a.latches[l].reset \in {0, 1} => (l \in s) = (a.latches[l].reset = 1) }
      Reached[d \in Nat] ==
        IF d = 0 THEN init
        ELSE { table[x].next : x \in Reached[d - 1] \X inputs }
  IN  { d \in 0..n : \E x \in Reached[d] \X inputs : 1 \in table[x].sinks["output"] }

AllDepths(a) == 2 ^ Len(a.latches)
IsIVC(a, C) == BadDepths(Freed(a, C), AllDepths(a)) = {}

--------------------------------------------------------------------------------
(* Properties.                                                                *)

\* What an AIG has to be: each variable defined once, each literal defined, and in
\* every set of gates one that reads no other of them.
WellFormed(a) ==
  LET reads(v) == {var(AndOf(a, v).rhs0), var(AndOf(a, v).rhs1)}
      lits     == [i \in DOMAIN a.inputs |-> a.inputs[i].lit]
                  \o [i \in DOMAIN a.latches |-> a.latches[i].lit]
                  \o [i \in DOMAIN a.ands |-> a.ands[i].lit]
  IN  /\ IsInjective(lits)
      /\ \A l \in Range(lits) : l > 1 /\ l % 2 = 0
      /\ AllDefined(a)
      /\ \A S \in (SUBSET AndVars(a)) \ {{}} : \E v \in S : reads(v) \intersect S = {}

\* The reader asserts that a latch's reset value is 0, 1 or the latch itself.
ResetsRight(f) ==
  LET binary == f.mode = "binary" IN
    \A i \in 1..f.header[3] :
       LET l     == Line(f, i + IF binary THEN 0 ELSE f.header[2])
           latch == IF binary THEN <<2 * (f.header[2] + i)>> \o l ELSE l
       IN  Len(latch) = 3 => latch[3] \in {0, 1, latch[1]}

\* An ASCII file's lines without resets to zero.
Shortest(f) ==
  [i \in DOMAIN f.lines |->
     IF i - f.header[2] \in 1..f.header[3] /\ Len(f.lines[i]) = 3 /\ f.lines[i][3] = 0
       THEN SubSeq(f.lines[i], 1, 2) ELSE f.lines[i]]

\* What is accepted is an AIG, and it is the AIG that the file says.
AcceptedRight ==
  /\ ResetsRight(file) => ckt.error # "assertion"
  /\ ckt.error = "none" =>
       /\ WellFormed(ckt)
       /\ file.mode = "ascii" => Written(ckt, "ascii").lines = Shortest(file)

\* What was written is accepted, and only the numbering may be another.
OriginalKept ==
  /\ ckt.error = "none"
  /\ file.mode = "ascii" => [ckt EXCEPT !.mark = {}] = original
  /\ file.mode = "binary" => aiger_is_reencoded(ckt) /\ Meaning(ckt) = Meaning(original)

\* An IVC is saved, can be opened, and reaches bad states as its gates do in the AIG.
SavedRight ==
  /\ saved.error = "none"
  /\ aiger_is_reencoded(saved)
  /\ Len(saved.ands) <= Cardinality(core)
  /\ BadDepths(saved, AllDepths(ckt)) = BadDepths(Freed(ckt, core), AllDepths(ckt))

\* aiger_read_generic, aiger_write_generic and save_subcircuit: the parts above, and a
\* number in its bytes.
FilesRight ==
  /\ phase = "original" =>
       \A d \in Numbers : LET code == write_delta[d] IN
         read_delta(code, 1) = [value |-> d, next |-> Len(code) + 1]
  /\ phase = "open" => AcceptedRight /\ (original # aiger_init => OriginalKept)
  /\ phase = "saved" /\ Len(ckt.sinks["output"]) = 1 =>
       (saved.error = "none" \/ ~IsIVC(ckt, core))
  /\ phase = "reopened" => SavedRight

================================================================================
