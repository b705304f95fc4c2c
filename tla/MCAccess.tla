------------------------------ MODULE MCAccess ------------------------------
EXTENDS Access, TLC

CONSTANTS root, guest, p0, p1, f1, f2

MCFields == <<"secret", "admin">>
Form(secret, admin) == [secret |-> secret, admin |-> admin]
MCFlags == Form(f1, guest)
\* One form clears the administrator and leaves the secret, the other fills both in.
MCForms == {Form(Empty, Empty), Form(f2, guest)}

Symmetry == Permutations(Requests) \cup Permutations(Ids)

=============================================================================
