--------------------------- MODULE ValidatedEntry ---------------------------
(* The functions every generated CLI plugin carries                        *)
(* (config/plugins/*.py): an entry is added, updated or deleted in a copy  *)
(* of the configuration, the copy is validated against the YANG models,    *)
(* and then the entry is written.  YangValid stands for the validation,    *)
(* which is external: the leafrefs of the models, as Refs lists them.      *)
EXTENDS ConfigDb

CONSTANT
  Refs   \* set of <<table, field, table referred to>>; field "key" is the
         \* first part of a key, a set-valued field refers with each element

Referred(d, t, k, f) ==
  IF f = "key" THEN {k[1]}
  ELSE IF f \notin DOMAIN d[t][k] THEN {} ELSE d[t][k][f]
YangValid(d) ==
  \A r \in Refs : \A k \in Keys(d, r[1]) : Referred(d, r[1], k, r[2]) \subseteq Keys(d, r[3])

add_entry_validated(t, k, data) ==
  /\ ~Has(db, t, k)
  /\ YangValid(SetEntry(db, t, k, data))
  /\ db' = SetEntry(db, t, k, data)

update_entry_validated(t, k, data, create_if_not_exists) ==
  LET u == ModEntry(db, t, k, data)
  IN  /\ Has(db, t, k) \/ create_if_not_exists
      /\ YangValid(u)
      /\ db' = u

del_entry_validated(t, k) ==
  /\ Has(db, t, k)
  /\ YangValid(DelEntry(db, t, k))
  /\ db' = DelEntry(db, t, k)

===========================================================================
