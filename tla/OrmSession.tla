------------------------------ MODULE OrmSession ------------------------------
(***************************************************************************)
(* What the services of app/ rely on from SQLAlchemy's Session, as         *)
(* app/database.py configures it (expire_on_commit=False).                 *)
(*                                                                         *)
(* A session loads a database row once and keeps that copy in its identity *)
(* map: Session.get and a SELECT give the same copy back, however old it   *)
(* is, until a refresh or a rollback.  A commit does not write the object  *)
(* back; it writes the COLUMNS the program assigned a value different      *)
(* from the one loaded.  Two sessions can so overwrite each other's        *)
(* columns without either of them noticing.                                *)
(***************************************************************************)

(* The row after a session that loaded "copy" and made it "new" commits.   *)
Flush(row, copy, new) ==
    [f \in DOMAIN row |-> IF new[f] # copy[f] THEN new[f] ELSE row[f]]

(* The copy a session works on: the one it holds, or the row of the        *)
(* database when it holds none ("none": never loaded, or expired by a      *)
(* rollback).                                                              *)
Loaded(row, copy, none) == IF copy = none THEN row ELSE copy
===============================================================================
