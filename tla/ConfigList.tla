------------------------------ MODULE ConfigList ------------------------------
(***************************************************************************)
(* The list configlib.c makes of a file, as mlvpn_config looks values up   *)
(* in it: one record with section, var and val for each assignment of the  *)
(* file, in the order of the file.  A name or a value is a sequence of     *)
(* tokens, as in module ConfigFile; the empty one stands for NULL.         *)
(***************************************************************************)
EXTENDS Integers, Sequences

Null == <<>>

(* _conf_getValue: the first one counts.                                   *)
GetValue(config, section, var) ==
    LET found == SelectSeq(config, LAMBDA e : e.section = section /\ e.var = var)
    IN  IF found = <<>> THEN Null ELSE found[1].val

(* atoi: words have no digits.                                             *)
Atoi(val) ==
    CASE val[1] = "1" -> 1 [] val[1] = "4" -> 4 [] val[1] = "9" -> 9
      [] val[1] = "150" -> 150 [] OTHER -> 0

(* _conf_set_uint_from_conf                                                *)
GetUint(config, section, var, def) ==
    LET val == GetValue(config, section, var)
    IN  IF val = Null THEN def ELSE Atoi(val)

=============================================================================
