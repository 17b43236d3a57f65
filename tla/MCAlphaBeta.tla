------------------------------ MODULE MCAlphaBeta ------------------------------
(* Small games for AlphaBeta: layers of Width positions, connected and     *)
(* valued by the digits of a seed, searched under different settings.      *)
EXTENDS AlphaBeta

Width == 3
Layers == 7

Digit(seed, n, k) ==
  LET Mix(x) == (x * 75 + 74) % 65537
  IN Mix(Mix(Mix(seed * 631 + n) + k * 97)) \div 7

Positions == 1..Width * Layers + 1
Layer(n) == IF n = 1 THEN 0 ELSE (n - 2) \div Width + 1
At(layer, i) == Width * (layer - 1) + 2 + (i % Width)

Kind(seed, n) ==
  LET digit == Digit(seed, n, 1) % 18
  IN IF n = 1 \/ Layer(n) = Layers THEN "open"
     ELSE IF digit \in {0, 1} THEN "loss" ELSE IF digit \in {2, 3} THEN "block"
     ELSE IF digit = 4 THEN "draw" ELSE "open"

Successors(seed, n) ==
  IF Layer(n) = Layers THEN <<>>
  ELSE [m \in 1..(IF Kind(seed, n) = "block" THEN 1 ELSE Width + 1) |-> At(Layer(n) + 1, Digit(seed, n, 1 + m))]

(* A double Four, a Four with an open Three or without; the other moves    *)
(* are quiet, make a Three, or are where the opponent has such a Four.     *)
Tier(seed, n, m) ==
  LET after == Kind(seed, Successors(seed, n)[m])
      digit == Digit(seed, n, 5 + m) % 14
  IN IF Kind(seed, n) = "block" THEN 8
     ELSE IF after = "loss" THEN 7
     ELSE IF after = "block" THEN (IF digit < 5 THEN 7 ELSE 5)
     ELSE IF digit = 0 THEN 6 ELSE IF digit = 1 THEN 1 ELSE 0

Tree(seed, evaluation) ==
  [kind |-> [n \in Positions |-> Kind(seed, n)],
   next |-> [n \in Positions |-> Successors(seed, n)],
   free |-> [n \in Positions |-> CellCount - Layer(n)],
   tier |-> [n \in Positions |-> [m \in DOMAIN Successors(seed, n) |-> Tier(seed, n, m)]],
   near |-> [n \in Positions |-> Smaller(Width, Len(Successors(seed, n)))],
   static |-> [n \in Positions |-> (Digit(seed + evaluation, n, 9) % 5) - 2],
   resist |-> <<2, 3, 1, 4>>]

Plain == [lossy |-> FALSE, shortcuts |-> {}, competitive |-> FALSE, adaptive |-> FALSE,
          resistance |-> FALSE, shuffled |-> FALSE, stoppable |-> FALSE, team |-> FALSE,
          replaces |-> FALSE, domain |-> "normal", depth |-> 3, roots |-> <<1>>]

Evaluated == {"reverse futility", "razoring", "futility"}
Viewed == {"reverse futility", "razoring", "reductions", "iir"}
Quieted == {"late moves", "reductions", "iir"}

(* Settings, and the seeds of the games each of them is tried on. *)
First(n) == [j \in 1..n |-> j]
Settings == <<
  <<[roots |-> <<1, 2>>, resistance |-> TRUE, shuffled |-> TRUE], First(3)>>,
  <<[roots |-> <<1, 2>>, lossy |-> TRUE, shortcuts |-> {"iid"}], First(8)>>,
  <<[resistance |-> TRUE, team |-> TRUE], First(3)>>,
  <<[roots |-> <<1, 1>>, replaces |-> TRUE], First(8)>>,
  <<[roots |-> <<1, 2>>, adaptive |-> TRUE, resistance |-> TRUE, stoppable |-> TRUE], First(8)>>,
  <<[roots |-> <<1, 2>>, shortcuts |-> Evaluated \cup Quieted], <<21, 41, 50, 55>>>>,
  <<[shortcuts |-> {"extensions", "policy", "null move"} \cup Quieted], <<12, 17>>>>,
  <<[shortcuts |-> {"extensions", "null move"} \cup Viewed], <<12, 17, 41, 50>>>>,
  <<[roots |-> <<1, 2>>, shortcuts |-> {"iir"}, depth |-> 4], <<12, 17, 90>>>>,
  <<[shortcuts |-> {"ProbCut", "null move", "futility"}, depth |-> 4], <<12, 32>>>>,
  <<[shortcuts |-> {"ProbCut", "extensions"}, competitive |-> TRUE, depth |-> 4], <<12, 32, 50>>>>,
  <<[roots |-> <<1, 2>>, shortcuts |-> Evaluated \cup Quieted, competitive |-> TRUE], <<32, 41>>>>,
  <<[domain |-> "analysis", stoppable |-> TRUE], First(8)>>,
  <<[domain |-> "score", stoppable |-> TRUE], First(8)>>,
  <<[domain |-> "teacher", stoppable |-> TRUE], First(8)>> >>

(* The i-th game, from this seed; where the evaluator is replaced, two     *)
(* neighbours differ in their evaluation only.                             *)
Game(i, seed, setting) ==
  IF setting.replaces
  THEN [other |-> IF seed % 2 = 1 THEN i + 1 ELSE i - 1] @@ (setting @@ Tree((seed + 1) \div 2, seed % 2))
  ELSE [other |-> i] @@ (setting @@ Tree(seed, 0))

SomeGames ==
  FoldLeft(LAMBDA games, s :
             games \o [j \in DOMAIN s[2] |->
                         Game(Len(games) + j, s[2][j], s[1] @@ Plain)],
           <<>>, Settings)
===============================================================================
