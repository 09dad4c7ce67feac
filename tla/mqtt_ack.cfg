SPECIFICATION MqttSpec
CONSTANTS
  MaxPacketId = 3
  MqttCalls = 3
  MqttLinks = 1
  MqttInbound = 0
INVARIANTS
  MqttAckedIsReceived
CHECK_DEADLOCK FALSE
