---------------------------- MODULE MainMessages ----------------------------
(***************************************************************************)
(* The messages of the main quotation protocol: the length announced, the  *)
(* fields of the request, and the steps over the reply.                    *)
(***************************************************************************)
EXTENDS Layout

\* Sessions and servers.
Hello1 == Reads(Built(<<1>>, 0), <<Checked(189)>>, << >>)
Hello2 == Reads(Built(<<30>>, 0), <<Checked(178)>>, << >>)
HeartBeat == Reads(ByHand(2, << >>), <<Checked(10)>>, << >>)
ExchangeAnnouncement == Reads(ByHand(2, << >>), <<Checked(1), Rest>>, << >>)
Info == Reads(ByHand(2, << >>), <<Checked(427)>>, << >>)

\* No announcement at the moment; otherwise three texts, of lengths told before them.
Announcement == Reads(ByHand(56, <<54>>), <<MayEnd(Checked(1)), Checked(10)>>, <<Checked(1)>>)

\* Lists of securities.
GetSecurityCount == Reads(ByHand(8, <<2, 4>>), <<Raw(2)>>, << >>)
GetSecurityList == Reads(ByHand(16, <<2, 4, 4, 4>>), <<Raw(2)>>, <<Raw(37)>>)
GetSecurityListOld == Reads(ByHand(6, <<2, 2>>), <<Checked(2)>>, <<Checked(29)>>)
GetSecurityFeature452 == Reads(ByHand(16, <<4, 4, 4, 2>>), <<Checked(2)>>, <<Checked(13)>>)

\* Bars.  The date is never refused (decodeDateNum is called with index = false), so the
\* four bytes that may follow a bar are never read.
GetSecurityBarsRequest == ByHand(28, <<2, 6, 2, 2, 2, 2, 2, 8>>)
GetSecurityBars == Bars(Reads(GetSecurityBarsRequest, <<Raw(2)>>, <<Raw(4), Numbers(4), Raw(8)>>))
GetSecurityBarsOffset == GetSecurityBars

\* data = data[4:] needs the bytes to be there.  GetPrice stays where it is at a number
\* without an end: the reads that follow then find too little, as Numbers does.
GetIndexBarsRequest == ByHand(28, <<2, 6, 2, 2, 2, 2, 2, 8>>)
GetIndexBars == Bars(Reads(GetIndexBarsRequest, <<Checked(2)>>, <<Firm(4), Numbers(4), Firm(12)>>))

\* The day's course.
GetMinuteTimeData == Reads(ByHand(14, <<2, 6, 2, 2>>), <<Raw(4)>>, <<Numbers(3)>>)
GetHistoryMinuteTimeData == Reads(ByHand(13, <<4, 1, 6>>), <<Checked(10)>>, <<CheckedNumbers(3)>>)
\* The list ends where the bytes end.
GetChartSampling == Reads(Built(<<2, 6, 28>>, 0), <<Checked(42)>>, <<Optional(4)>>)
GetIndexMomentum == Reads(ByHand(10, <<2, 6>>), <<Raw(2)>>, <<Numbers(1)>>)
GetHistoryOrders == Reads(ByHand(13, <<4, 1, 6>>), <<Raw(6)>>, <<Numbers(3)>>)
GetTransactionData == Reads(ByHand(14, <<2, 6, 2, 2>>), <<Raw(2)>>, <<Raw(2), Numbers(5)>>)
\* The time of a deal may be none.
GetHistoryTransactionData ==
  Reads(ByHand(18, <<4, 2, 6, 2, 2>>), <<Raw(2), Pass(4)>>, <<Refusing(Raw(2)), Numbers(4)>>)
GetHistoryTransactionDataWithTrans ==
  Reads(ByHand(18, <<4, 2, 6, 2, 2>>), <<Checked(6)>>, <<Raw(2), Numbers(3), Refusing(Checked(2))>>)
GetAuction == Reads(ByHand(30, <<2, 6, 4, 4, 4, 4, 4>>), <<Raw(2)>>, <<Checked(16)>>)
GetUnusual == Reads(ByHand(12, <<2, 4, 4>>), <<Raw(2)>>, <<Checked(32)>>)

\* Quotations.
GetSecurityQuotesRequest == PerStock(12, 7, <<2, 6, 2>>, 7)
GetSecurityQuotes ==
  Reads(GetSecurityQuotesRequest, <<Pass(2), Raw(2)>>,
        <<Raw(9), Numbers(9), Raw(4), Numbers(24), Raw(2), Pass(4), Raw(4)>>)
parseQuoteListItem ==
  <<Firm(1), Raw(8), Numbers(9), Raw(4), Numbers(8), Raw(12), Pass(10), Raw(8), Pass(24), Raw(2)>>
GetQuotesList == Reads(ByHand(20, <<2, 2, 2, 2, 2, 2, 2, 2, 2>>), <<Raw(4)>>, parseQuoteListItem)
GetQuotes == Reads(PerStock(12, 7, <<2, 6, 2>>, 7), <<Raw(4)>>, parseQuoteListItem)
\* The bytes are first copied, in plain, to a slice of just their length.
GetQuotesEncrypt ==
  Reads(Built(<<2>>, 11), <<Checked(2)>>,
        <<Checked(9), Numbers(5), Checked(4), Numbers(3), Firm(4), Numbers(24), Checked(10), Numbers(24)>>)
GetIndexInfo ==
  Reads(ByHand(14, <<2, 6, 4>>), <<Raw(13), Numbers(9), Raw(4), Numbers(18)>>, <<Numbers(3)>>)
GetVolumeProfile ==
  Reads(ByHand(10, <<2, 6>>),
        <<Firm(3), Raw(8), Numbers(9), Raw(4), Numbers(4), Numbers(12), Raw(2)>>, <<Numbers(4)>>)
\* Nine lists of so many entries.
GetTopBoard == [Reads(ByHand(12, <<1, 1, 7, 1>>), <<Raw(1)>>, <<Checked(15)>>) EXCEPT !.rows = "nine"]

\* Companies and files.
GetCompanyCategory == Reads(ByHand(14, <<2, 6, 4>>), <<Raw(2)>>, <<Raw(152)>>)
\* A text of so many bytes.  The sum with the 12 before them has 16 bits and does not hold
\* 65524 or more: no whole reply says so, for UnZipSize has 16 bits too, and a cut one panics.
GetCompanyContent == Reads(ByHand(104, <<2, 6, 2, 80, 4, 4, 4>>), <<Raw(12)>>, <<Raw(1)>>)
GetFinanceInfo == Reads(ByHand(11, <<2, 1, 6>>), <<Checked(145)>>, << >>)
GetXDXRInfo == Reads(ByHand(11, <<2, 1, 6>>), <<Firm(1), Raw(10)>>, <<Firm(13), Raw(16)>>)
GetFileMeta == Reads(ByHand(42, <<40>>), <<Firm(38)>>, << >>)
DownloadFile == Reads(ByHand(310, <<4, 4, 300>>), <<Raw(4), Rest>>, << >>)

\* Requests whose purpose is not known: the reply is returned as it is.
RawMainProtocol(payload) == Reads(Built(payload, 0), <<Rest>>, << >>)
TodoB == RawMainProtocol(<<280>>)
TodoFDE == RawMainProtocol(<< >>)
Client264B == RawMainProtocol(<<2>>)
Client26AE == RawMainProtocol(<<2>>)
Client26B1 == RawMainProtocol(<<3>>)
Client26AC == RawMainProtocol(<<1, 1, 2, 24, 4, 6, 2, 2, 2>>)
Client26AD == RawMainProtocol(<<1, 1, 16, 24, 4, 6, 16, 2, 2, 2, 2, 1, 17, 1, 1>>)
=============================================================================
