----------------------------- MODULE MCRootSearch -----------------------------
(* Root searches of RootSearch on a five by five board, three winning.     *)
EXTENDS BookedSearch, Board

SquareWindows ==
  LET Steps == [across |-> <<0, 1>>, down |-> <<1, 0>>, falling |-> <<1, 1>>, rising |-> <<1, -1>>]
      Cell(c, d, i) ==
        LET r == Row(c) + i * Steps[d][1] k == Column(c) + i * Steps[d][2]
        IN IF r \in 1..Size /\ k \in 1..Size THEN At(r, k) ELSE Nothing
  IN [c \in SquareCells |-> [d \in DOMAIN Steps |-> [i \in Offsets |-> Cell(c, d, i)]]]
BoardWindows == SquareWindows
BoardNear ==
  [c \in SquareCells |-> {d \in SquareCells : Apart(Row(c), Row(d)) < 2 /\ Apart(Column(c), Column(d)) < 2}]
BoardCenter == At(Size \div 2 + 1, Size \div 2 + 1)

Limits(plies, nodes) == [plies |-> plies, nodes |-> nodes]
Off == Limits(0, 0)
Interior(plies, nodes, total) == [plies |-> plies, nodes |-> nodes, total |-> total]

NoWork == Interior(0, 0, 0)
Plain == [record |-> <<>>, depth |-> 1, nodes |-> 5000, stops |-> {}, book |-> FALSE,
          policy |-> "None", loaded |-> "net", model |-> "net",
          vcf |-> Limits(7, 500), vct |-> Limits(7, 2000), visits |-> {},
          interior |-> NoWork, interiorVct |-> NoWork]
Unproved == [vcf |-> Off, vct |-> Off] @@ Plain
WithoutFours == [vcf |-> Off, vct |-> Limits(5, 2000)] @@ Plain
From(asked, records) == {[record |-> r] @@ asked : r \in records}

(* Attacks with few and with many answers, terminal positions, immediate   *)
(* wins and losses, a block, and positions where only fours go on.         *)
Proving == From(Plain, {<<25, 9>>, <<10, 15>>, <<1, 6, 5, 7>>, <<7, 1, 25, 9>>, <<5, 12>>,
                        <<1, 21, 2, 22, 3>>, <<1, 21, 2, 22>>, <<1, 21, 2>>, <<13, 1, 14>>, <<1, 2, 5, 10>>})
           \cup From(WithoutFours, {<<25, 9>>, <<10, 15>>, <<1, 6, 4, 21, 20, 5>>, <<8, 1, 22, 5>>})
           \cup From([vct |-> Limits(7, 2000)] @@ WithoutFours, {<<3, 11, 10>>})

(* Limits that run out, and a stop that comes before, amid or after a search. *)
Limited == From([vct |-> Limits(7, 30)] @@ Plain, {<<25, 9>>})
           \cup From([vcf |-> Limits(7, 3), vct |-> Limits(5, 60), stops |-> {1, 20}] @@ Plain, {<<5, 12>>, <<1, 21, 2>>})
           \cup From([nodes |-> 0] @@ Plain, {<<1, 21, 2>>, <<13>>, <<1, 6, 5, 7, 2, 8>>})
           \cup From([depth |-> 0] @@ Plain, {<<13>>})

(* The proof book knows the centre of the empty board, and a position in   *)
(* one orientation that is asked for in another.                           *)
Opened == From([book |-> TRUE] @@ Unproved, {<<>>, <<21, 9>>, <<1, 19>>, <<9>>})
SomeBook ==
  LET Entry(record, at, plies) ==
        Key(Position(record)) :> [at |-> CanonicalMove(Position(record), at), plies |-> plies]
  IN Entry(<<>>, BoardCenter, 5) @@ Entry(<<25, 7>>, 20, 5)

(* Openings are built from a record in two orientations, with limits that  *)
(* end a build early or fill the file; a search asks for them in more orientations, under   *)
(* either policy, and with another model than the one they were built for. *)
Build == [record |-> <<2>>, model |-> "net", plies |-> 2, k |-> 3, margin |-> 1, positions |-> 9, frontier |-> 9]
Wide == [k |-> 9, frontier |-> 40] @@ Build
SomeBuilds == {Build, [record |-> <<10>>, positions |-> 1] @@ Build, [frontier |-> 2] @@ Build,
               Wide, [record |-> <<1>>] @@ Wide}
FileSymmetry == Permutations(Names)

Unasked == [policy |-> "BookMove"] @@ Unproved
SomeAskings ==
  From(Unasked, {<<2>>, <<16>>})
  \cup From([policy |-> "OrderOnly"] @@ Unasked, {<<2>>})
  \cup From([loaded |-> "other"] @@ Unasked, {<<2>>})
  \cup From([model |-> "other"] @@ Unasked, {<<2>>})

NoTactic(p, stone) == {}

(* An analysis that is not the same in all orientations; at some positions *)
(* it completes no depth.                                                  *)
SomeAnalysis(p) ==
  IF p.count = 2 /\ \E corner \in {1, 5, 21, 25} : p.cells[corner] # Nothing THEN {}
  ELSE {[at |-> c, score |-> (c * 3 + p.count) % 4] : c \in {d \in Cells : d < 12 /\ Legal(p, d)}}

(* Proofs of interior nodes, with work for a few of them.                  *)
Inner == [vcf |-> Off, vct |-> Off, depth |-> 4,
          visits |-> {<<1, 25>>, <<7, 1, 25, 9>>, <<1, 8>>}] @@ Plain
Inside == {[interior |-> Interior(5, 30, 50)] @@ Inner}
          \cup {[interior |-> Interior(5, 60, 60), interiorVct |-> Interior(5, 80, 130)] @@ Inner}
          \cup {[interiorVct |-> Interior(5, 40, 60), stops |-> {3, 20}] @@ Inner}

SomeRequests == Proving \cup Limited \cup Opened \cup {Unasked} \cup Inside
ParitySlots == {0, 1}
ParityOf(key) == Cardinality({c \in Cells : key[1][c] # Nothing}) % 2
===============================================================================
