------------------------------ MODULE PbDatarw ------------------------------
(* datarw.proto: the demo data service the CVS job reads and writes.
   Per message, three tables, each read off the generated function of its name:
   what MarshalToSizedBuffer writes, from the last field to the first (tag, field, shape);
   what Size adds up (field, shape); and the cases of Unmarshal's switch (field
   number, wire type, field, how the value is stored). A field that points to a message also names its type. *)
EXTENDS Integers, Sequences

GenerateDataRequest_Marshal == <<
    <<16, "RecordNum", "varint">>, <<8, "FileNum", "varint">> >>
GenerateDataRequest_Size == << <<"FileNum", "varint">>, <<"RecordNum", "varint">> >>
GenerateDataRequest_Unmarshal == <<
    <<1, 0, "FileNum", "int32">>, <<2, 0, "RecordNum", "int32">> >>

GenerateDataResponse_Marshal == << <<10, "ErrMsg", "bytes">> >>
GenerateDataResponse_Size == << <<"ErrMsg", "bytes">> >>
GenerateDataResponse_Unmarshal == << <<1, 2, "ErrMsg", "bytes">> >>

CheckDirRequest_Marshal == << <<10, "Dir", "bytes">> >>
CheckDirRequest_Size == << <<"Dir", "bytes">> >>
CheckDirRequest_Unmarshal == << <<1, 2, "Dir", "bytes">> >>

CheckDirResponse_Marshal == << <<16, "ErrFileIdx", "varint">>, <<10, "ErrMsg", "bytes">> >>
CheckDirResponse_Size == << <<"ErrMsg", "bytes">>, <<"ErrFileIdx", "varint">> >>
CheckDirResponse_Unmarshal == <<
    <<1, 2, "ErrMsg", "bytes">>, <<2, 0, "ErrFileIdx", "int32">> >>

IsReadyRequest_Marshal == << >>
IsReadyRequest_Size == << >>
IsReadyRequest_Unmarshal == << >>

IsReadyResponse_Marshal == << <<8, "Ready", "bool">> >>
IsReadyResponse_Size == << <<"Ready", "bool">> >>
IsReadyResponse_Unmarshal == << <<1, 0, "Ready", "bool">> >>

ListFilesReq_Marshal == << >>
ListFilesReq_Size == << >>
ListFilesReq_Unmarshal == << >>

ListFilesResponse_Marshal == << <<8, "FileNum", "varint">> >>
ListFilesResponse_Size == << <<"FileNum", "varint">> >>
ListFilesResponse_Unmarshal == << <<1, 0, "FileNum", "int32">> >>

ReadLinesRequest_Marshal == << <<18, "LineNo", "bytes">>, <<8, "FileIdx", "varint">> >>
ReadLinesRequest_Size == << <<"FileIdx", "varint">>, <<"LineNo", "bytes">> >>
ReadLinesRequest_Unmarshal == <<
    <<1, 0, "FileIdx", "int32">>, <<2, 2, "LineNo", "bytes">> >>

ReadLinesResponse_Marshal == <<
    <<34, "ErrMsg", "bytes">>, <<24, "IsEof", "bool">>, <<18, "Val", "bytes">>,
    <<10, "Key", "bytes">> >>
ReadLinesResponse_Size == <<
    <<"Key", "bytes">>, <<"Val", "bytes">>, <<"IsEof", "bool">>, <<"ErrMsg", "bytes">> >>
ReadLinesResponse_Unmarshal == <<
    <<1, 2, "Key", "bytes">>, <<2, 2, "Val", "bytes">>, <<3, 0, "IsEof", "bool">>,
    <<4, 2, "ErrMsg", "bytes">> >>

WriteLinesRequest_Marshal == <<
    <<34, "Value", "bytes">>, <<26, "Key", "bytes">>, <<16, "FileIdx", "varint">>,
    <<10, "Dir", "bytes">> >>
WriteLinesRequest_Size == <<
    <<"Dir", "bytes">>, <<"FileIdx", "varint">>, <<"Key", "bytes">>, <<"Value", "bytes">> >>
WriteLinesRequest_Unmarshal == <<
    <<1, 2, "Dir", "bytes">>, <<2, 0, "FileIdx", "int32">>, <<3, 2, "Key", "bytes">>,
    <<4, 2, "Value", "bytes">> >>

WriteLinesResponse_Marshal == << <<10, "ErrMsg", "bytes">> >>
WriteLinesResponse_Size == << <<"ErrMsg", "bytes">> >>
WriteLinesResponse_Unmarshal == << <<1, 2, "ErrMsg", "bytes">> >>

\* The messages of the file.
DatarwMessages == [
    GenerateDataRequest |-> <<GenerateDataRequest_Marshal, GenerateDataRequest_Size, GenerateDataRequest_Unmarshal>>,
    GenerateDataResponse |-> <<GenerateDataResponse_Marshal, GenerateDataResponse_Size, GenerateDataResponse_Unmarshal>>,
    CheckDirRequest |-> <<CheckDirRequest_Marshal, CheckDirRequest_Size, CheckDirRequest_Unmarshal>>,
    CheckDirResponse |-> <<CheckDirResponse_Marshal, CheckDirResponse_Size, CheckDirResponse_Unmarshal>>,
    IsReadyRequest |-> <<IsReadyRequest_Marshal, IsReadyRequest_Size, IsReadyRequest_Unmarshal>>,
    IsReadyResponse |-> <<IsReadyResponse_Marshal, IsReadyResponse_Size, IsReadyResponse_Unmarshal>>,
    ListFilesReq |-> <<ListFilesReq_Marshal, ListFilesReq_Size, ListFilesReq_Unmarshal>>,
    ListFilesResponse |-> <<ListFilesResponse_Marshal, ListFilesResponse_Size, ListFilesResponse_Unmarshal>>,
    ReadLinesRequest |-> <<ReadLinesRequest_Marshal, ReadLinesRequest_Size, ReadLinesRequest_Unmarshal>>,
    ReadLinesResponse |-> <<ReadLinesResponse_Marshal, ReadLinesResponse_Size, ReadLinesResponse_Unmarshal>>,
    WriteLinesRequest |-> <<WriteLinesRequest_Marshal, WriteLinesRequest_Size, WriteLinesRequest_Unmarshal>>,
    WriteLinesResponse |-> <<WriteLinesResponse_Marshal, WriteLinesResponse_Size, WriteLinesResponse_Unmarshal>> ]
==============================================================================
