---------------------------- MODULE MC_InviteCreate ----------------------------
(* The values of test_invite_create and test_partial_user, and every       *)
(* combination of the Options around them: inviter, target_user_type and   *)
(* target_user absent or present, a PartialUser with and without avatar.   *)
EXTENDS InviteCreate

CONSTANTS user1, stream

MCPartialUsers == {TestPartialUser, [TestPartialUser EXCEPT !.avatar = None]}

MCInviteValues ==
    {[TestInviteCreate EXCEPT !.inviter = i, !.target_user_type = tt,
                              !.target_user = tu, !.temporary = tmp] :
        i \in {None, user1}, tt \in {None, stream}, tu \in {None} \cup MCPartialUsers,
        tmp \in BOOLEAN}

MCIdValues == {1, 2}
=============================================================================
