---------------------------- MODULE MCWalletDB ----------------------------
EXTENDS WalletDB

MCChars == {"a", "b", Sep} \cup Range(Depths)

\* One name begins with another, one is refused; the key holds the separator
\* and looks like a name and a key.
MCNames == {<<"a">>, <<"a", "b">>, <<"a", Sep>>}
MCKeys == {<<"a", Sep, "a">>}
===========================================================================
