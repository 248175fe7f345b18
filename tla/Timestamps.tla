----------------------------- MODULE Timestamps -----------------------------
(***************************************************************************)
(* The order of stored timestamps.  The tables keep them as text and the   *)
(* queries sort the text.  isoformat leaves the fraction out of a stamp    *)
(* that falls on a whole second, and the Z that then follows the seconds   *)
(* is greater than the point of a fraction: such a stamp sorts after every *)
(* other stamp of its second.  A stamp is its tick of the clock.           *)
(***************************************************************************)
EXTENDS Integers

CONSTANT Second   \* ticks of the clock in a second

ASSUME SecondAssumption == Second \in Nat \ {0}

(* The place of the text of tick t among the texts of all ticks.           *)
TextRank(t) == IF t % Second = 0 THEN 2 * (t + Second) - 1 ELSE 2 * t

(* No tick up to t has a greater rank.                                     *)
RankBound(t) == 2 * (t + Second)
=============================================================================
