------------------------------ MODULE PbError ------------------------------
(* error.proto: the error record most answers carry.
   Per message, three tables, each read off the generated function of its name:
   what MarshalToSizedBuffer writes, from the last field to the first (tag, field, shape);
   what Size adds up (field, shape); and the cases of Unmarshal's switch (field
   number, wire type, field, how the value is stored). A field that points to a message also names its type. *)
EXTENDS Integers, Sequences

NotLeader_Marshal == << <<18, "Leader", "bytes">>, <<10, "Request", "bytes">> >>
NotLeader_Size == << <<"Request", "bytes">>, <<"Leader", "bytes">> >>
NotLeader_Unmarshal == << <<1, 2, "Request", "bytes">>, <<2, 2, "Leader", "bytes">> >>

Error_Marshal == <<
    <<26, "NotLeader", "ptr", "NotLeader">>, <<18, "Message", "bytes">>,
    <<8, "Code", "varint">> >>
Error_Size == <<
    <<"Code", "varint">>, <<"Message", "bytes">>, <<"NotLeader", "ptr", "NotLeader">> >>
Error_Unmarshal == <<
    <<1, 0, "Code", "int32">>, <<2, 2, "Message", "bytes">>,
    <<3, 2, "NotLeader", "ptr", "NotLeader">> >>

\* The messages of the file.
ErrorMessages == [
    NotLeader |-> <<NotLeader_Marshal, NotLeader_Size, NotLeader_Unmarshal>>,
    Error |-> <<Error_Marshal, Error_Size, Error_Unmarshal>> ]
==============================================================================
