------------------------------ MODULE MCConfig ------------------------------
(* Files with one or two tunnels, in either order of the sections, each    *)
(* with and without the options that a reload treats in its own way.       *)
EXTENDS Config, ConfigFile

CONSTANTS
    Tokens,   \* tokens of the lines the reader is checked on
    MaxLine   \* bound: length of those lines

VARIABLE line  \* a line to check the reader on; the daemon starts with none

Assign(var, val) == <<var, " ", "=", " ", Quote, val, Quote>>
Heading(name) == <<"[", name, "]", " ", "#", "w">>

GeneralLines(mode) == <<Heading("general"), Assign("mode", mode), Assign("password", "w")>>

Plain == GeneralLines("client")
Full ==
    GeneralLines("client") \o
        <<Assign("timeout", "9"), Assign("reorder_buffer_size", "4"), Assign("ip4", "w"),
          Assign("loss_tolerence", "150")>>
Server == GeneralLines("server") \o <<Assign("timeout", "1"), Assign("ip4_routes", "w")>>

Addresses ==
    <<Assign("bindhost", "w"), Assign("bindport", "1"), Assign("remotehost", "h"),
      Assign("remoteport", "4")>>
One == <<Heading("one")>> \o Addresses
Fallback == One \o <<Assign("fallback_only", "1")>>
Limited == One \o <<Assign("bandwidth_upload", "4"), Assign("timeout", "4")>>
Moved == <<Heading("one"), Assign("remotehost", "k"), Assign("remoteport", "9")>>

TwoAndFilters ==
    <<Heading("two")>> \o Addresses \o <<Assign("bandwidth_upload", "9"), Heading("filters"),
      Assign("two", "udp"), Assign("one", "bad"), Assign("one", "tcp"), Assign("one", "udp")>>

TestFiles ==
    {Plain \o Moved, Plain \o Limited \o TwoAndFilters, Full \o Fallback \o TwoAndFilters,
     Server \o One, Server \o TwoAndFilters \o Moved, One \o Server,
     <<Heading("general"), Assign("mode", "client")>> \o One, Limited, <<>>}

Lists == {ParseConfig(lines) : lines \in TestFiles}

TestTokens == {"#", Quote, "[", "]", "=", " ", "w", NotAscii}

Lines == UNION {[1 .. n -> Tokens] : n \in 0 .. MaxLine}

Init == ConfigInit /\ line \in Lines

Next == line = <<>> /\ ConfigNext /\ UNCHANGED line

Spec == Init /\ [][Next]_<<configVars, line>>

-----------------------------------------------------------------------------
(* The reader finds in every line what stands in it: comments end it       *)
(* outside quotes only, a pair of brackets makes it a section, and it is   *)
(* an assignment if it has one '=' outside quotes with something on both   *)
(* sides.                                                                  *)
LineMeaning ==
    /\ StripComment(line) = Meant(line)
    /\ IsSection(line) = HasHeader(line)
    /\ IsSection(line) => GetSection(line).name = Header(line)
    /\ ParseLine(line) = Assignment(line)

=============================================================================
