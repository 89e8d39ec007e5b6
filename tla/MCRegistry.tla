----------------------------- MODULE MCRegistry -----------------------------
EXTENDS RegistryRemote

CONSTANTS k1, k2

\* file:// alone, and with one, two and an unkeyed hmac stage; then what is refused:
\* another scheme first or later, a trailing delimiter, no path, fewer than 15 characters.
File == [scheme |-> "file", arg |-> k1]
Hmac(key) == [scheme |-> "hmac", arg |-> key]
Other == [scheme |-> "other", arg |-> k1]
Id(parts) == [parts |-> parts, delimited |-> FALSE, short |-> FALSE]
Accepted ==
    {Id(<<File>>), Id(<<File, Hmac(k1)>>), Id(<<File, Hmac(k1), Hmac(k2)>>),
     Id(<<File, Hmac(k1), Hmac(NoKey)>>)}
Refused ==
    {Id(<<Other>>), Id(<<File, Other>>),
     [parts |-> <<File, Hmac(k1)>>, delimited |-> TRUE, short |-> FALSE],
     Id(<<[scheme |-> "file", arg |-> NoKey]>>),
     [parts |-> <<File>>, delimited |-> FALSE, short |-> TRUE]}
IdentifiersDef == Accepted \cup Refused
=============================================================================
