------------------------------ MODULE PbTest ------------------------------
(* test.proto: the binlog feed of the test service.
   Per message, three tables, each read off the generated function of its name:
   what MarshalToSizedBuffer writes, from the last field to the first (tag, field, shape);
   what Size adds up (field, shape); and the cases of Unmarshal's switch (field
   number, wire type, field, how the value is stored). A field that points to a message also names its type. *)
EXTENDS Integers, Sequences

Record_Marshal == <<
    <<58, "Err", "ptr", "Error">>, <<50, "TimeTracer", "packed">>, <<40, "Pk", "varint">>,
    <<32, "Gtid", "varint">>, <<24, "Tid", "varint">>, <<16, "SchemaVer", "varint">>,
    <<8, "Tp", "varint">> >>
Record_Size == <<
    <<"Tp", "varint">>, <<"SchemaVer", "varint">>, <<"Tid", "varint">>,
    <<"Gtid", "varint">>, <<"Pk", "varint">>, <<"TimeTracer", "packed">>,
    <<"Err", "ptr", "Error">> >>
Record_Unmarshal == <<
    <<1, 0, "Tp", "int32">>, <<2, 0, "SchemaVer", "int32">>, <<3, 0, "Tid", "int32">>,
    <<4, 0, "Gtid", "int32">>, <<5, 0, "Pk", "int32">>, <<6, 2, "TimeTracer", "packed">>,
    <<7, 2, "Err", "ptr", "Error">> >>

TestBinlogRequest_Marshal == << <<8, "Gtid", "varint">> >>
TestBinlogRequest_Size == << <<"Gtid", "varint">> >>
TestBinlogRequest_Unmarshal == << <<1, 0, "Gtid", "int32">> >>

\* The messages of the file.
TestMessages == [
    Record |-> <<Record_Marshal, Record_Size, Record_Unmarshal>>,
    TestBinlogRequest |-> <<TestBinlogRequest_Marshal, TestBinlogRequest_Size, TestBinlogRequest_Unmarshal>> ]
==============================================================================
