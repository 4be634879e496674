----------------------------- MODULE Dictionary -----------------------------
(***************************************************************************)
(* The skip list and what is claimed of it.  TLC checks it and             *)
(* ContainerProofs proves it.                                              *)
(***************************************************************************)

CONSTANTS Keys, Vals, Levels, MaxNodes

VARIABLES chain, node, freed, m_iCurLevel, listUb, dict, misplaced

listVars == <<chain, node, freed, m_iCurLevel, listUb, dict, misplaced>>

List == INSTANCE SkipList WITH ub <- listUb

ASSUME ListUse == List!ListAssumption

\* Until an insert raises the level over smaller nodes, the skip list is the
\* dictionary its operations describe, at every level and for every lookup,
\* whatever levels rand_level drew (skip-list.h).
ListAgrees == List!Agrees
=============================================================================
