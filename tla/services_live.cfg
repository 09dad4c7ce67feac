SPECIFICATION FairServicesSpec
CONSTANTS
  FileBlocks = 2
  BlockModulus = 8
  TftpTimeout = 1
  TftpRetries = 2
  TftpPorts = {1, 2}
  MaxRequests = 2
  LatePackets = FALSE
  DhcpServers = {"a"}
  LeaseTimes = {13}
  DhcpWait = 1
  DhcpRetries = 1
  MaxNaks = 1
  LateAnswers = FALSE
  DnsCalls = 3
  DnsPorts = 3
  DnsWait = 2
  DnsRetries = 2
  SntpCalls = 3
  SntpWaitCount = 3
  SntpMaxCount = 5
  SntpLossy = FALSE
  HttpFiles = {0, 2, 3, 4, 7}
  HttpBuf = 3
  HttpTxMax = 2
  MaxPacketId = 3
  MqttCalls = 3
  MqttLinks = 1
  MqttInbound = 1
  SnmpTypes <- MCSnmpTypes
  SnmpFirst <- MCSnmpFirst
  SnmpValues <- MCSnmpValues
  SnmpBindings = 2
  SnmpString = 5
  SnmpOctet = 4
  SnmpShort = 56
  SnmpOidLen = 10
  SnmpTicks = 1
  OctetMax = 2
  RingOctets = {1, 2}
  RingSize = 4
  PointerModulus = 8
  TimeTasks = {1}
  RawModulus = 4
  MaxWraps = 3
  NetTasks = {1, 2}
  NetParts = 2
  NetValues = {1, 2}
  NetTimeouts <- MCNetTimeouts
  NetResetTimeouts <- MCNetResetTimeouts
  NetOperations = {2, 8}
  RetryUnit = 1
  RetryMargin = 1
  PhyTasks = {1, 2}
  PhyModes = {"ALLA", "100F"}
  DmNames <- MCDmNames
  DmNameMax = 4
  DmRecords = 2
  CalDays <- MCCalDays
  CalSeconds = {0, 45296, 86399}
  CalZones = {0, 21, 49}
CHECK_DEADLOCK FALSE

CONSTANT Running = {"tftp", "dhcp", "sntp", "http", "mqtt"}
PROPERTIES
  TransferEnds
  DhcpExchangeEnds
  SntpKnowsTime
  HttpAnswers
  HttpListensAgain
  MqttKeepsAlive
