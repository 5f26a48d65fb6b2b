---------------------------- MODULE DntaskParse ----------------------------
(***************************************************************************)
(* dntask's command-line parser and link set-up (src/dnprogs/dntask/      *)
(* dntask.c): parse() walks the argument node"user password account"::name *)
(* one character at a time through the states NODE, USER, PASSWORD,       *)
(* ACCOUNT and NAME, skipping the "::" it expects without reading it;     *)
(* the tail validation looks the node up and fills in the access data,   *)
(* and setup_link() checks the task name and opens the link.             *)
(*                                                                         *)
(* A character is one of a few classes: "c" (any other character),       *)
(* colon, dq, sq, sp, nl and nul. The argument is the sequence str, then *)
(* tail further "c" characters (the task name), then its nul; a read     *)
(* after the nul reads whatever memory follows the string. The sizes of  *)
(* filename, acc_acc and sdn_objname are not tracked: the arguments      *)
(* generated here do not reach them.                                     *)
(***************************************************************************)
EXTENDS Integers, Sequences

CONSTANTS MaxNode, MaxUser, MaxPassword, MaxAccount, \* MAX_NODE ... MAX_ACCOUNT
          HostLens,      \* lengths of the node names getnodebyname() knows
          NameLens,      \* lengths of the task name after "::"
          LocalUserLens, \* strlen of the local user name, when there is one
          FilenameSize   \* sizeof(filename): 128

Chars == {"c", "colon", "dq", "sq", "sp", "nl", "nul"}

Fld(k) == [i \in 1 .. k |-> "c"]

Hosts == {Fld(k) : k \in HostLens}

\* The arguments the usage text describes: a node, optionally a quoted
\* user, password and account, then "::" and the task name.
Forms == [kn : 0 .. MaxNode + 1, ku : 0 .. MaxUser + 1, kp : 0 .. MaxPassword + 1,
          ka : 0 .. MaxAccount + 1, depth : 0 .. 3, q : {"dq", "sq"}, kname : NameLens]

Make(f) ==
    LET close == <<f.q, "colon", "colon">>
        acc   == CASE f.depth = 1 -> close
                   [] f.depth = 2 -> <<"sp">> \o Fld(f.kp) \o close
                   [] OTHER       -> <<"sp">> \o Fld(f.kp) \o <<"sp">> \o Fld(f.ka) \o close
    IN Fld(f.kn) \o (IF f.depth = 0 THEN <<"colon", "colon">> ELSE <<"dq">> \o Fld(f.ku) \o acc)

VARIABLES
    form,      \* the argument, as generated
    st,        \* parse state, then LINK, DONE
    n0, n1,    \* the two indices of parse()
    node, user, pass, acct, \* node[], acc_user, acc_pass, acc_acc as parsed
    fileLen,   \* strlen(filename)
    result     \* "ok", "error", "linked" or "exit"

vars == <<form, st, n0, n1, node, user, pass, acct, fileLen, result>>

str  == Make(form)
End  == Len(str) + form.kname          \* index of the nul

CharAt(k) == CASE k < Len(str) -> str[k + 1]
               [] k < End      -> "c"
               [] k = End      -> "nul"
               [] OTHER        -> "beyond"

\* fname[n0]: what memory past the nul holds is unknown.
Read(k) == IF CharAt(k) = "beyond" THEN Chars ELSE {CharAt(k)}

Init ==
    /\ form \in Forms
    /\ st = "NODE"
    /\ n0 = 0 /\ n1 = 0
    /\ node = <<>> /\ user = <<>> /\ pass = <<>> /\ acct = <<>>
    /\ fileLen = 0
    /\ result = "parsing"

Fail == st' = "DONE" /\ result' = "error" /\ UNCHANGED <<n0, n1>>

Advance(k, s) == n0' = n0 + k /\ n1' = 0 /\ st' = s /\ UNCHANGED result

Copy == n0' = n0 + 1 /\ n1' = n1 + 1 /\ UNCHANGED <<st, result>>

Parsing == UNCHANGED <<form, fileLen>>

\* case NODE: a quote or colon ends the node name; a double quote opens
\* the access data, anything else skips two characters to the name.
NodeStep ==
    /\ st = "NODE"
    /\ \E c \in Read(n0) :
         IF c \notin {"colon", "dq", "sq"}
         THEN IF n1 >= MaxNode \/ c \in {"sp", "nl"} THEN Fail /\ UNCHANGED node
              ELSE Copy /\ node' = Append(node, c)
         ELSE UNCHANGED node /\ IF c = "dq" THEN Advance(1, "USER") ELSE Advance(2, "NAME")
    /\ UNCHANGED <<user, pass, acct>> /\ Parsing

UserStepLimit ==
    /\ st = "USER"
    /\ \E c \in Read(n0) :
         IF c \notin {"sp", "dq", "sq"}
         THEN IF n1 > MaxUser THEN Fail /\ UNCHANGED user
              ELSE Copy /\ user' = Append(user, c)
         ELSE UNCHANGED user /\ IF c = "sp" THEN Advance(1, "PASSWORD") ELSE Advance(3, "NAME")
    /\ UNCHANGED <<node, pass, acct>> /\ Parsing

\* case USER and case PASSWORD: a space moves on to the next field, a
\* quote skips "::" (three characters from the quote) to the name.
UserStep ==
    /\ st = "USER"
    /\ \E c \in Read(n0) :
         IF c \notin {"sp", "dq", "sq"}
         THEN IF n1 >= MaxUser THEN Fail /\ UNCHANGED user
              ELSE Copy /\ user' = Append(user, c)
         ELSE UNCHANGED user /\ IF c = "sp" THEN Advance(1, "PASSWORD") ELSE Advance(3, "NAME")
    /\ UNCHANGED <<node, pass, acct>> /\ Parsing

PasswordStep ==
    /\ st = "PASSWORD"
    /\ \E c \in Read(n0) :
         IF c \notin {"sp", "dq", "sq"}
         THEN IF n1 >= MaxPassword THEN Fail /\ UNCHANGED pass
              ELSE Copy /\ pass' = Append(pass, c)
         ELSE UNCHANGED pass /\ IF c = "sp" THEN Advance(1, "ACCOUNT") ELSE Advance(3, "NAME")
    /\ UNCHANGED <<node, user, acct>> /\ Parsing

\* case ACCOUNT: only a quote ends it.
AccountStep ==
    /\ st = "ACCOUNT"
    /\ \E c \in Read(n0) :
         IF c \notin {"sq", "dq"}
         THEN IF n1 >= MaxAccount THEN Fail /\ UNCHANGED acct
              ELSE Copy /\ acct' = Append(acct, c)
         ELSE UNCHANGED acct /\ Advance(3, "NAME")
    /\ UNCHANGED <<node, user, pass>> /\ Parsing

\* case NAME: strcpy(filename, fname + n0) copies up to the next nul;
\* starting past the argument's nul it copies whatever lies there.
NameStep ==
    /\ st = "NAME"
    /\ fileLen' \in IF n0 <= End THEN {End - n0} ELSE 0 .. FilenameSize
    /\ st' = "FINISHED"
    /\ UNCHANGED <<form, n0, n1, node, user, pass, acct, result>>

\* Tail validation: an unknown node fails the parse; otherwise acc_acc is
\* overwritten with the local user name (getlogin, LOGNAME or USER), or
\* emptied when there is none.
Validate ==
    /\ st = "FINISHED"
    /\ IF node \notin Hosts
       THEN st' = "DONE" /\ result' = "error" /\ UNCHANGED acct
       ELSE \E found \in BOOLEAN, u \in LocalUserLens :
              /\ acct' = IF found THEN Fld(u) ELSE <<>>
              /\ st' = "LINK" /\ result' = "ok"
    /\ UNCHANGED <<form, n0, n1, node, user, pass, fileLen>>

\* setup_link(): a task name over 16 characters exits; an empty one
\* becomes "TASK"; socket(), setsockopt() or connect() may fail.
SetupLink ==
    /\ st = "LINK"
    /\ st' = "DONE"
    /\ IF fileLen > 16
       THEN result' = "exit" /\ UNCHANGED fileLen
       ELSE /\ fileLen' = IF fileLen = 0 THEN 4 ELSE fileLen
            /\ \E ok \in BOOLEAN : result' = IF ok THEN "linked" ELSE "exit"
    /\ UNCHANGED <<form, n0, n1, node, user, pass, acct>>

\* dntask has finished with the argument.
Done == st = "DONE" /\ UNCHANGED vars

Next == NodeStep \/ UserStep \/ PasswordStep \/ AccountStep \/ NameStep
        \/ Validate \/ SetupLink \/ Done

Spec == Init /\ [][Next]_vars

-----------------------------------------------------------------------------
\* What the usage text means by node"user password account"::name: the
\* parse succeeds exactly when every field fits its limit and the node is
\* known, and then yields the fields as written.
Expected(f) ==
    [ok   |-> /\ f.kn <= MaxNode /\ Fld(f.kn) \in Hosts
              /\ f.depth >= 1 => f.ku <= MaxUser
              /\ f.depth >= 2 => f.kp <= MaxPassword
              /\ f.depth >= 3 => f.ka <= MaxAccount,
     node |-> Fld(f.kn),
     user |-> IF f.depth >= 1 THEN Fld(f.ku) ELSE <<>>,
     pass |-> IF f.depth >= 2 THEN Fld(f.kp) ELSE <<>>,
     name |-> f.kname]

\* parse() agrees with the grammar of the usage text on every argument of
\* that form, including fields one character over their limit.
ParseMatchesReference ==
    st \in {"LINK", "DONE"} =>
        LET e == Expected(form) IN
        /\ (result # "error") = e.ok
        /\ result # "error" =>
              /\ node = e.node /\ user = e.user /\ pass = e.pass
              /\ (st = "LINK" \/ result = "exit" \/ fileLen = IF e.name = 0 THEN 4 ELSE e.name)

=============================================================================
