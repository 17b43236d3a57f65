------------------------------- MODULE Threats -------------------------------
(***************************************************************************)
(* What the proof searches ask of a board (tactical.rs, threat.rs): the    *)
(* immediate tactic of the side to move, the moves that threaten, and of a *)
(* threat the cells it depends on and the replies it has to be answered    *)
(* by.  Cells are ordered as Move indices are.  SidecarsStayExact shows    *)
(* the patterns a board carries to be those of its position, so here they  *)
(* are computed with it.                                                   *)
(***************************************************************************)
EXTENDS LinePattern, SequencesExt

ASSUME CellOrderAssumption == Cells = 1..Cardinality(Cells)

(* LineKey(u16): two bits for each cell of the window, the last one lowest. *)
OffsetOrder == SetToSeq(Offsets)
DigitOf == [None |-> 0, Black |-> 1, White |-> 2, Wall |-> 3]
WindowOf == [c \in Cells |-> [d \in Directions |-> [i \in DOMAIN OffsetOrder |-> LineCells[c][d][OffsetOrder[i]]]]]

Digit(p, cell) == DigitOf[IF cell = Nothing THEN "Wall" ELSE CodeOf(p.cells[cell])]
RECURSIVE NumberOf(_, _, _)
NumberOf(p, window, n) == IF n = 0 THEN 0 ELSE 4 * NumberOf(p, window, n - 1) + Digit(p, window[n])
LineNumber(p, c, d) == NumberOf(p, WindowOf[c][d], Len(OffsetOrder))

KeyOfNumber(number) ==
  LET PowerOf[i \in 0..Len(OffsetOrder)] == IF i = 0 THEN 1 ELSE 4 * PowerOf[i - 1]
      CodeAt(i) == CHOOSE code \in Codes :
                     DigitOf[code] = (number \div PowerOf[Len(OffsetOrder) - i]) % 4
  IN [o \in Offsets |-> CodeAt(CHOOSE i \in DOMAIN OffsetOrder : OffsetOrder[i] = o)]

(* threat_meta.bin: of a line key and a stone at its centre, the class and *)
(* the witness cells.                                                      *)
Metadata ==
  [n \in 1..4^Len(OffsetOrder) |->
     LET key == KeyOfNumber(n - 1)
     IN [s \in Stones |-> MetadataOf(Placed(key, s), s, Classify(key, s))]]

(* Classes of one line; a move has a profile of that level if a line does. *)
LineFive == 5
LineFour == 3
LineOpenThree == 2

(* moves_at_least for the levels the searches ask for, from all windows.   *)
LevelOf == [wins |-> LineFive, forcing |-> LineFour, attacks |-> LineOpenThree]
Levels(lines, stone) ==
  [level \in DOMAIN LevelOf |->
     {x[1] : x \in {y \in lines : Metadata[y[2]][stone].class >= LevelOf[level]}}]

BoardOf(p) ==
  LET empty == {c \in Cells : p.cells[c] = Nothing}
      lines == {<<c, LineNumber(p, c, d) + 1>> : c \in empty, d \in Directions}
  IN [position |-> p, empty |-> empty,
      Black |-> Levels(lines, "Black"), White |-> Levels(lines, "White")]

Make(b, at) == BoardOf(MakeMove(b.position, at))

ForcingMoves(b, stone) == b[stone].forcing
Attacks(b, stone) == b[stone].attacks

-----------------------------------------------------------------------------
(* ThreatResolver::immediate *)
TacticIs(kind, at, reply) == [kind |-> kind, at |-> at, reply |-> reply]

(* Mutant: what has to be blocked is looked at first. *)
ImmediateTacticOfThreats(b) ==
  LET wins == b[b.position.side].wins
      threats == b[Opponent(b.position.side)].wins
  IN CASE threats = {} /\ wins # {} -> TacticIs("Win", Min(wins), Nothing)
       [] wins = {} /\ threats = {} -> TacticIs("None", Nothing, Nothing)
       [] Cardinality(threats) = 1 -> TacticIs("ForcedBlock", Min(threats), Nothing)
       [] Cardinality(threats) > 1 -> TacticIs("Loss", Min(threats), Min(threats \ {Min(threats)}))

ImmediateTactic(b) ==
  LET wins == b[b.position.side].wins
      threats == b[Opponent(b.position.side)].wins
  IN CASE wins # {} -> TacticIs("Win", Min(wins), Nothing)
       [] wins = {} /\ threats = {} -> TacticIs("None", Nothing, Nothing)
       [] wins = {} /\ Cardinality(threats) = 1 -> TacticIs("ForcedBlock", Min(threats), Nothing)
       [] wins = {} /\ Cardinality(threats) > 1 ->
            TacticIs("Loss", Min(threats), Min(threats \ {Min(threats)}))

(* tactical_class: the tier and the profile that puts a move there. *)
TacticalClass(own, other) ==
  CASE own = WinningMove -> <<9, own>>
    [] own # WinningMove /\ other = WinningMove -> <<8, other>>
    [] own \in FourThree..OpenFour /\ other # WinningMove -> <<7, own>>
    [] own < FourThree /\ other \in FourThree..OpenFour -> <<6, other>>
    [] own \in DoubleThree..Four /\ other < FourThree -> <<5, own>>
    [] own < DoubleThree /\ other \in DoubleThree..Four -> <<4, other>>
    [] own = OpenThree /\ other < DoubleThree -> <<3, own>>
    [] own < OpenThree /\ other = OpenThree -> <<2, other>>
    [] own < OpenThree /\ other < OpenThree ->
         IF Three \in {own, other} THEN <<1, Three>> ELSE <<0, own>>

ProfileAt(b, c, stone) ==
  ProfileOf([d \in Directions |-> Metadata[LineNumber(b.position, c, d) + 1][stone].class])

(* resistance_key, as far as the board alone decides it. *)
Resistance(b, c) ==
  LET side == b.position.side
      class == TacticalClass(ProfileAt(b, c, side), ProfileAt(b, c, Opponent(side)))
  IN 16 * class[1] + class[2]

-----------------------------------------------------------------------------
(* ThreatDescriptor::new, before the gain is played; its kind is that of   *)
(* the gain in the position.                                               *)
ThreatOn(gain, lines) ==
  LET Of(d, offsets) == {LineCells[gain][d][i] : i \in offsets}
  IN [gain |-> gain,
      continuations |-> UNION {Of(x[1], x[2].continuations) : x \in lines},
      defenses |-> UNION {Of(x[1], x[2].costs) : x \in lines},
      dependencies |-> {gain} \cup UNION {Of(x[1], x[2].dependencies) : x \in lines}]

ThreatFrom(gain, lines) == IF lines = {} THEN Nothing ELSE ThreatOn(gain, lines)

Threat(b, gain, attacker) ==
  LET lines == {<<d, Metadata[LineNumber(b.position, gain, d) + 1][attacker]>> : d \in Directions}
  IN IF ~Legal(b.position, gain) THEN Nothing
     ELSE ThreatFrom(gain, {x \in lines : x[2].class >= LineOpenThree})

(* Mutant: only the cells where the threat goes on are answered. *)
ResponsesOnTheLine(b, threat, attacker) == threat.continuations \cap b.empty

(* responses: the witness cells, the defender's own fours, and one cell    *)
(* that stands for all the others.                                         *)
Responses(b, threat, attacker) ==
  LET near == (threat.defenses \cup ForcingMoves(b, Opponent(attacker))) \cap b.empty
      others == b.empty \ near
  IN near \cup (IF others = {} THEN {} ELSE {Min(others)})

(* branches of the threat search *)
Branches(b, attacker, active) ==
  LET side == b.position.side
      tactic == ImmediateTactic(b)
  IN IF tactic.kind = "ForcedBlock"
     THEN IF side # attacker THEN {tactic.at} ELSE {tactic.at} \cap Attacks(b, attacker)
     ELSE IF side = attacker THEN Attacks(b, attacker)
     ELSE IF active = Nothing THEN {} ELSE Responses(b, active, attacker)
=============================================================================
