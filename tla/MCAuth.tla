------------------------------- MODULE MCAuth -------------------------------
(* A small instance of Auth for TLC: a server without authentication, two  *)
(* secrets, and an audience and an issuer set and not set.                 *)
EXTENDS Auth

Config(secret, aud, iss) == [secret |-> secret, aud |-> aud, iss |-> iss]

MCServers ==
    {Config("", "", ""),
     Config("s1", "", ""),
     Config("s1", "a1", "i1"),
     Config("s1", "a2", ""),
     Config("s2", "a1", "i1")}

=============================================================================
