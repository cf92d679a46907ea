------------------------------- MODULE Users --------------------------------
(***************************************************************************)
(* Users, groups and rights: commons/auth.c.                               *)
(*                                                                         *)
(* dir maps the name of every user file to the values of its alias fields, *)
(* in order.  Permissions are a sequence of fields [allow, what, group];   *)
(* no permissions (a NULL header) are the empty sequence.                  *)
(***************************************************************************)
EXTENDS Integers, SequencesExt

Everyone == "*"

(* auth_init.                                                              *)
default_perms ==
  << [allow |-> TRUE,  what |-> "read",  group |-> Everyone],
     [allow |-> FALSE, what |-> "write", group |-> Everyone],
     [allow |-> TRUE,  what |-> "admin", group |-> "admin"],
     [allow |-> FALSE, what |-> "admin", group |-> Everyone] >>

(* Whether user is in group, with the groups this traversal has tagged.    *)
(* A user that cannot be loaded ends the whole search with an error.       *)
RECURSIVE is_in_group_rec(_, _, _, _)
is_in_group_rec(dir, user, group, tagged) ==
  LET Next(found, alias) ==
        IF found.is = "no" THEN is_in_group_rec(dir, user, alias, found.tagged) ELSE found
  IN  IF group = Everyone THEN [is |-> "yes", tagged |-> tagged]
      ELSE IF group \notin DOMAIN dir THEN [is |-> "error", tagged |-> tagged]
      ELSE IF user = group THEN [is |-> "yes", tagged |-> tagged]
      ELSE IF group \in tagged THEN [is |-> "no", tagged |-> tagged]
      ELSE FoldLeft(Next, [is |-> "no", tagged |-> tagged \cup {group}], dir[group])

(* Mutant: a group that cannot be searched is not the user's.              *)
mdir_user_is_in_group_No(dir, user, group, if_unknown) ==
  is_in_group_rec(dir, user, group, {}).is = "yes"

mdir_user_is_in_group(dir, user, group, if_unknown) ==
  LET found == is_in_group_rec(dir, user, group, {}).is
  IN  IF found = "error" THEN if_unknown ELSE found = "yes"

(* The first field that names the user decides: his permissions' first,    *)
(* then the defaults'.                                                     *)
check_user_perms(dir, user, perms, what) ==
  LET fields  == perms \o default_perms
      decides == {i \in DOMAIN fields :
                    /\ fields[i].what = what
                    /\ mdir_user_is_in_group(dir, user, fields[i].group, ~ fields[i].allow)}
  IN  decides # {} /\ fields[Min(decides)].allow

mdir_user_can_admin(dir, user, perms) == check_user_perms(dir, user, perms, "admin")

mdir_user_can_read(dir, user, perms) ==
  check_user_perms(dir, user, perms, "read") \/ mdir_user_can_admin(dir, user, perms)

mdir_user_can_write(dir, user, perms) ==
  check_user_perms(dir, user, perms, "write") \/ mdir_user_can_admin(dir, user, perms)
=============================================================================
