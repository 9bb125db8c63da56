------------------------------ MODULE MCLibraries ------------------------------
(* Scripts with conflicts, learnt clauses, cores, units, subsumed and eliminated    *)
(* clauses, and contradictions, on three to five variables; AIGs of up to five      *)
(* variables in every order, and damaged files of both formats.                     *)
EXTENDS Libraries, SequencesExt

add(c) == [op |-> "add", lits |-> c]
solve(a) == [op |-> "solve", lits |-> a]
freeze(V) == [op |-> "freeze", lits |-> V]
eliminate == [op |-> "eliminate", lits |-> <<>>]
adds(s) == [i \in DOMAIN s |-> add(s[i])]

\* Queries with and without assumptions that get more clauses in between.
S1 == adds(<<{1, 2, 3}, {-1, 2}, {-2, 3}, {-3, 1}>>) \o <<solve(<<>>), solve(<<1, -3>>)>>
      \o <<add({-1, -2, -3}), solve(<<3>>), solve(<<>>), add({4}), solve(<<4>>)>>

\* All assignments but one are ruled out.
S2 == adds(<<{1, 2, 3}, {1, 2, -3}, {1, -2, 3}, {1, -2, -3}, {-1, 2, 3}, {-1, 2, -3},
             {-1, -2, 3}>>) \o <<solve(<<-1>>), solve(<<>>)>>

\* Chains of implications and an assumption that others contradict.
S3 == adds(<<{-1, 2}, {-2, 3}, {-4, -3, 5}, {-5, -4, -2}, {-4, 2}>>) \o
      <<solve(<<1, 4>>), add({-4}), solve(<<-1, 4, -4>>)>>

\* Tautologies, satisfied clauses and units between queries.
S4 == adds(<<{-1, 2, 4}, {-2, 3, 4}, {-4, -3, 1}, {-4, 2, 3}>>) \o
      <<add({1}), solve(<<-2>>), add({2, -2}), add({-4, -1}), add({-2, -3, 4}), solve(<<1>>)>>

\* Learnt clauses of more than two literals, which reduceDB() may remove.
S5 == adds(<<{1, 2, 3, 4}, {1, 2, 3, -4}, {-3, 2, 4}, {-3, 1, -4}>>) \o
      <<solve(<<-1, -2>>), solve(<<-1>>)>>

\* Units that lead to a conflict while they are added.
S6 == adds(<<{1, 2}, {1, -2}, {-1, 3, 4}>>) \o <<solve(<<-3>>), add({-1}), solve(<<3>>)>>

TheSearchScripts == {S1, S2, S3, S4, S5, S6}

\* Clauses, some of them frozen, eliminated, queried and eliminated again.
E1 == adds(<<{-1, 2}, {1, -2}, {-2, 3}, {2, -3, 4}, {-1, -4}>>) \o
      <<freeze({1, 4}), eliminate, solve(<<1>>), solve(<<4>>), add({4}), eliminate, solve(<<>>)>>

E2 == <<freeze({1, 2})>> \o adds(<<{1, 2}, {1, -2}, {1, 3}, {1, 2, 3}, {-3, 4}, {-4, -1}>>) \o
      <<eliminate, solve(<<-1>>), solve(<<2>>), solve(<<>>)>>

E3 == adds(<<{1, 2}, {1, -2}, {-1, 2}>>) \o <<solve(<<-1>>), solve(<<>>), eliminate, solve(<<>>)>>

\* A clause of three literals and every three others of two or three over the same
\* variables, of which one is frozen and assigned later.
Pool == { c \in SUBSET {1, -1, 2, -2, 3, -3} :
            Cardinality(c) \in {2, 3} /\ \A l \in c : -l \notin c }
Every4 ==
  { <<freeze({1})>> \o adds(SetToSeq(C)) \o <<eliminate, solve(<<-1>>), add({1}), eliminate>> :
      C \in { {{1, 2, 3}} \union D : D \in kSubset(3, Pool \ {{1, 2, 3}}) } }

TheSimplifierScripts == {E1, E2, E3} \union Every4

TheClauses == { {2}, {-2, 3}, {-1, -3}, {-2, -3} }
TheAssumptions == { {}, {2}, {-2, 3} }

CONSTANTS NameX, NameY, NameP, NameQ, NameOut      \* names in AIGs

input(v, name) == [op |-> "input", lits |-> <<2 * v>>, name |-> name]
latch(v, next, reset, name) == [op |-> "latch", lits |-> <<2 * v, next, reset>>, name |-> name]
gate(v, rhs0, rhs1) == [op |-> "and", lits |-> <<2 * v, rhs0, rhs1>>, name |-> NoName]
sink(op, lits, name) == [op |-> op, lits |-> lits, name |-> name]

\* A latch that its gates keep at 0 and one that is not initialised.
A1 == << input(1, NameX), latch(2, 10, 0, NameP), latch(3, 9, 6, NameQ),
         gate(4, 4, 3), gate(5, 8, 6), sink("output", <<4>>, NameOut) >>

\* A chain of latches.
A2 == << latch(1, 4, 0, NoName), latch(2, 6, 0, NoName), latch(3, 10, 0, NameQ),
         input(4, NameX), gate(5, 9, 2), sink("output", <<2>>, NoName) >>

\* An output that is a gate, gates that nothing needs, and an operand twice.
A3 == << input(1, NoName), latch(2, 9, 1, NameP), gate(3, 5, 3),
         gate(4, 6, 6), gate(5, 4, 7), sink("output", <<6>>, NameOut) >>

\* Constants and the other kinds of properties.
A4 == << input(1, NoName), latch(2, 8, 0, NameP), gate(3, 2, 1), gate(4, 6, 4), gate(5, 3, 8),
         sink("output", <<8>>, NameOut), sink("bad", <<7>>, NoName),
         sink("constraint", <<11>>, NameX), sink("justice", <<5, 2>>, NoName),
         sink("justice", <<10>>, NameY), sink("fairness", <<1>>, NoName) >>

\* The variables in another order.
Renumber(steps, f) ==
  LET Renamed(l) == IF l < 2 THEN l ELSE 2 * f[l \div 2] + (l % 2) IN
    [i \in DOMAIN steps |-> [steps[i] EXCEPT !.lits = [j \in DOMAIN @ |-> Renamed(@[j])]]]

TheOriginals == { Renumber(steps, f) : steps \in {A1, A2, A3, A4}, f \in Permutations(1..5) }

\* A number changed, a line, byte or symbol missing or repeated.
Damages(f) ==
  { [f EXCEPT !.header[i] = n] : i \in DOMAIN f.header, n \in 0..6 }
  \union UNION { { [f EXCEPT !.lines[i][j] = n] : j \in DOMAIN f.lines[i], n \in 0..13 } :
                 i \in DOMAIN f.lines }
  \union { [f EXCEPT !.bytes[i] = n] : i \in DOMAIN f.bytes, n \in 0..13 \union {130} }
  \union { [f EXCEPT !.lines = RemoveAt(@, i)] : i \in DOMAIN f.lines }
  \union { [f EXCEPT !.bytes = RemoveAt(@, i)] : i \in DOMAIN f.bytes }
  \union { [f EXCEPT !.bytes = Append(@, 4)] : i \in DOMAIN f.bytes }
  \union { [f EXCEPT !.symbols = Append(@, [@[1] EXCEPT !.pos = n])] : n \in 0..2 }

File(mode, header, lines, bytes, symbols) ==
  [mode |-> mode, header |-> header, lines |-> lines, bytes |-> bytes, symbols |-> symbols]
symbol(type, pos, name) == [type |-> type, pos |-> pos, name |-> name]

\* A1 and A4 in both formats.
Symbols1 == <<symbol("i", 0, NameX), symbol("l", 0, NameP), symbol("l", 1, NameQ),
              symbol("o", 0, NameOut)>>
Symbols4 == <<symbol("l", 0, NameP), symbol("o", 0, NameOut), symbol("c", 0, NameX),
              symbol("j", 1, NameY)>>
Sinks4 == << <<8>>, <<7>>, <<11>>, <<2>>, <<1>>, <<5>>, <<2>>, <<10>>, <<1>> >>

TheFiles ==
  { File("ascii", <<5, 1, 2, 1, 2>>,
         << <<2>>, <<4, 10>>, <<6, 9, 6>>, <<4>>, <<8, 4, 3>>, <<10, 8, 6>> >>, <<>>, Symbols1),
    File("binary", <<5, 1, 2, 1, 2>>, << <<10>>, <<9, 6>>, <<4>> >>, <<4, 1, 2, 2>>, Symbols1),
    File("ascii", <<5, 1, 1, 1, 3, 1, 1, 2, 1>>,
         << <<2>>, <<4, 8>> >> \o Sinks4 \o << <<6, 2, 1>>, <<8, 6, 4>>, <<10, 3, 8>> >>, <<>>,
         Symbols4),
    File("binary", <<5, 1, 1, 1, 3, 1, 1, 2, 1>>, << <<8>> >> \o Sinks4,
         <<4, 1, 2, 2, 2, 5>>, Symbols4) }

TheDamaged == UNION { Damages(f) : f \in TheFiles }

\* The ends of one to five bytes.
TheNumbers == {0, 127, 128, 16383, 16384, 2097151, 2097152, 268435455, 268435456, 2147483647}

================================================================================
