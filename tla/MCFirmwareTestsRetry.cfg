SPECIFICATION TestsSpec
CONSTANTS
  Firmware = 2
  Workers = 2
PROPERTY FetchObtains
