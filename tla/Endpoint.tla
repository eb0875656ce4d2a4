------------------------------- MODULE Endpoint -------------------------------
(***************************************************************************)
(* How set_endpoint() takes an endpoint apart.  A character is "h" for one *)
(* of a name, "8" for a digit, or one of the delimiters; the protocol of a *)
(* URL, with its "://", is apart.                                          *)
(***************************************************************************)
EXTENDS Naturals, Sequences, SequencesExt, FiniteSetsExt

DefaultPort == [tcp |-> 6667, ssl |-> 6697]

\* set_invalid().
Invalid == [host |-> <<"0">>, port |-> 0, transport |-> "none"]

\* find_first_of and find_last_not_of, 0 for npos.
FirstIn(text, S) == LET at == {k \in DOMAIN text : text[k] \in S} IN IF at = {} THEN 0 ELSE Min(at)
LastIn(text, S, upto) ==
    LET at == {k \in DOMAIN text : k <= upto /\ text[k] \in S} IN IF at = {} THEN 0 ELSE Max(at)

Characters == {"h", "8", ":", "@", "/", "[", "]"}

\* strtol().
Number(digits) == FoldLeft(LAMBDA n, d : 10 * n + 8, 0, digits)

\* Variant: a user name is cut off at the first "@".
ParseFirstAt(protocol, text, new_port) ==
    LET url == protocol # "none"
        end == IF url /\ FirstIn(text, {"/"}) # 0 THEN FirstIn(text, {"/"}) ELSE Len(text) + 1
        at  == FirstIn(text, {"@"})
        begin == IF url THEN at + 1 ELSE 1
        transport == IF protocol = "ircs" THEN "ssl" ELSE "tcp"
        pos == LastIn(text, Characters \ {"8"}, end)
        has_port == pos >= begin /\ text[pos] = ":"
        host_end == IF has_port THEN pos ELSE end
    IN IF protocol = "http" \/ host_end <= begin THEN Invalid
       ELSE [host |-> SubSeq(text, begin, host_end - 1),
             port |-> IF new_port # 0 THEN new_port
                      ELSE IF has_port THEN Number(SubSeq(text, pos + 1, Len(text)))
                      ELSE DefaultPort[transport],
             transport |-> transport]

\* What set_endpoint() makes of its arguments.  The search for the port starts
\* at server_port_end and not before it: with a path it finds the "/".
Parse(protocol, text, new_port) ==
    LET url == protocol # "none"
        slash == FirstIn(text, {"/"})
        server_port_end == IF url /\ slash # 0 THEN slash ELSE Len(text) + 1
        server_port_begin == IF url THEN LastIn(text, {"@"}, server_port_end) + 1 ELSE 1
        transport == IF protocol = "ircs" THEN "ssl" ELSE "tcp"
        pos == LastIn(text, Characters \ {"8"}, server_port_end)
        has_port == pos >= server_port_begin /\ text[pos] = ":"
        host_end == IF has_port THEN pos ELSE server_port_end
    IN IF protocol = "http" \/ host_end <= server_port_begin THEN Invalid
       ELSE [host |-> SubSeq(text, server_port_begin, host_end - 1),
             port |-> IF new_port # 0 THEN new_port
                      ELSE IF has_port THEN Number(SubSeq(text, pos + 1, Len(text)))
                      ELSE DefaultPort[transport],
             transport |-> transport]

----------------------------------------------------------------------------
(* What a client that puts an endpoint together means by it                *)

\* The text "[user@]host[:port][/path]"; user ends in "@", port begins with ":"
\* and path with "/" when they are there.
Written(e) == e.user \o e.host \o e.port \o e.path

WellFormed(e) ==
    /\ {e.user, e.host, e.port, e.path} \subseteq Seq(Characters)
    /\ e.user # <<>> => Last(e.user) = "@" /\ "/" \notin Range(e.user)
    /\ {"@", "/"} \cap Range(e.host) = {}
    /\ e.port # <<>> => Head(e.port) = ":" /\ Range(Tail(e.port)) \subseteq {"8"}
    /\ e.path # <<>> => Head(e.path) = "/"
    /\ "[" \in Range(e.host) => ":" \in Range(e.host) /\ Last(e.host) = "]"
    /\ e.protocol = "none" => e.user = <<>> /\ e.path = <<>>

\* The host without the brackets of an IPv6 address.
Bare(host) == IF Head(host) = "[" THEN SubSeq(host, 2, Len(host) - 1) ELSE host

Meant(e, new_port) ==
    LET transport == IF e.protocol = "ircs" THEN "ssl" ELSE "tcp"
    IN IF e.protocol = "http" \/ e.host = <<>> THEN Invalid
       ELSE [host |-> Bare(e.host),
             port |-> IF new_port # 0 THEN new_port
                      ELSE IF e.port # <<>> THEN Number(Tail(e.port))
                      ELSE DefaultPort[transport],
             transport |-> transport]

\* The documented endpoints that are not taken for what is meant: a port that a
\* path follows goes into the host name, and so do the brackets of an IPv6
\* address; the last part of one without brackets goes for a port.
Misread(e) == (e.port # <<>> /\ e.path # <<>>) \/ ":" \in Range(e.host)
===============================================================================
