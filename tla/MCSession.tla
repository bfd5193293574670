------------------------------ MODULE MCSession ------------------------------
(***************************************************************************)
(* Instances of Session.  A desktop client may ask for zero query          *)
(* suggestions; a software keyboard asks for everything.                   *)
(***************************************************************************)
EXTENDS Session

desktop == [zero_query |-> TRUE, mixed |-> FALSE, partial |-> FALSE, crossing |-> FALSE]
mobile == [zero_query |-> TRUE, mixed |-> TRUE, partial |-> TRUE, crossing |-> TRUE]

Desktop == {desktop}
DesktopAndMobile == {desktop, mobile}

\* How long a composition TLC goes on from: MaxLen on a desktop, two characters
\* on a software keyboard, and in a password or number field one of a software
\* keyboard and none (the first key) on a desktop.
Bound ==
    session.ctx.comp.len <=
        LET partial == Request(session).partial
        IN  IF session.ctx.comp.field = "NORMAL" THEN IF partial THEN 2 ELSE MaxLen
                                                 ELSE IF partial THEN 1 ELSE 0
=============================================================================
